--------------------------- MODULE TypeHeapProofs ---------------------------
(***************************************************************************)
(* The reference counts of TypeHeap are exact, no pointer dangles, nothing *)
(* leaks and the heap implements types as values, for any number of cells, *)
(* variables and typedefs and any arity.                                   *)
(*                                                                         *)
(* The inductive invariants are IInv and Acyclic.  NoDangling alone is not *)
(* inductive: a count that is too low frees a cell only later, in          *)
(* ndt_decref.  NoLeak is not: exact counts do not exclude a cycle of      *)
(* cells that hold each other and that nobody else holds.                  *)
(***************************************************************************)
EXTENDS TypeHeap, FiniteSetTheorems, SequenceTheorems, Induction, TLAPS

\* The sites are finitely many, so every count is a number.
LEMMA SitesFinite == IsFiniteSet(Site)
<1>1. IsFiniteSet(Kid)
  BY FS_Interval, HeapAssumption DEF Kid
<1>2. IsFiniteSet(Cell \X Kid)
  BY <1>1, FS_Product, HeapAssumption
<1>3. IsFiniteSet(Root)
  BY FS_Union, HeapAssumption DEF Root
<1> QED
  BY <1>2, <1>3, FS_Union DEF Site

\* The number of sites of f that point to n is a natural number, and zero
\* exactly when there is none.
LEMMA UsersFinite ==
  ASSUME NEW f, NEW n
  PROVE  /\ IsFiniteSet(Users(f, n))
         /\ Cardinality(Users(f, n)) \in Nat
         /\ Cardinality(Users(f, n)) = 0 <=> Users(f, n) = {}
<1>1. Users(f, n) \in SUBSET Site
  BY DEF Users
<1>2. IsFiniteSet(Users(f, n))
  BY <1>1, SitesFinite, FS_Subset
<1> QED
  BY <1>2, FS_CardinalityType, FS_EmptySet

\* Redirecting one site moves one user from the old to the new target.
LEMMA UsersUpdate ==
  ASSUME NEW f \in [Site -> Pointer], NEW s \in Site, NEW p \in Pointer,
         NEW n \in Cell, NEW g,
         g[s] = p, \A x \in Site : x # s => g[x] = f[x]
  PROVE  Cardinality(Users(g, n)) =
            Cardinality(Users(f, n)) - (IF f[s] = n THEN 1 ELSE 0)
                                     + (IF p = n THEN 1 ELSE 0)
<1>0. /\ IsFiniteSet(Users(f, n))
      /\ Cardinality(Users(f, n)) \in Nat
  BY UsersFinite
<1>1. CASE p = n
  <2>1. Users(g, n) = Users(f, n) \cup {s}
    BY <1>1 DEF Users
  <2>2. s \in Users(f, n) <=> f[s] = n
    BY DEF Users
  <2>3. Cardinality(Users(g, n)) =
          IF f[s] = n THEN Cardinality(Users(f, n)) ELSE Cardinality(Users(f, n)) + 1
    BY <1>0, <2>1, <2>2, FS_AddElement
  <2> QED
    BY <1>0, <1>1, <2>3
<1>2. CASE p # n
  <2>1. Users(g, n) = Users(f, n) \ {s}
    BY <1>2 DEF Users
  <2>2. s \in Users(f, n) <=> f[s] = n
    BY DEF Users
  <2>3. Cardinality(Users(g, n)) =
          IF f[s] = n THEN Cardinality(Users(f, n)) - 1 ELSE Cardinality(Users(f, n))
    BY <1>0, <2>1, <2>2, FS_RemoveElement
  <2> QED
    BY <1>0, <1>2, <2>3
<1> QED
  BY <1>1, <1>2

\* Filling the empty slots of the cell n with kids adds, for every other
\* cell, the slots that name it.
LEMMA UsersFill ==
  ASSUME NEW f \in [Site -> Pointer], NEW n \in Cell, NEW m \in Cell,
         NEW kids, NEW g, \A s \in Slots(n) : f[s] = NULL,
         \A s \in Site : g[s] = IF s \in Slots(n) THEN kids[s[2]] ELSE f[s]
  PROVE  /\ Cardinality(Naming(n, kids, m)) \in Nat
         /\ Cardinality(Users(g, m)) =
               Cardinality(Users(f, m)) + Cardinality(Naming(n, kids, m))
<1> DEFINE A == Naming(n, kids, m)
<1>1. Slots(n) \subseteq Site
  BY DEF Slots, Site
<1>2. Users(g, m) = Users(f, m) \cup A
  BY <1>1, HeapAssumption DEF Users, Naming
<1>3. Users(f, m) \cap A = {}
  BY HeapAssumption DEF Users, Naming
<1>4. IsFiniteSet(A)
  <2>1. A \in SUBSET Site
    BY <1>1 DEF Naming
  <2> QED
    BY <2>1, SitesFinite, FS_Subset
<1>5. IsFiniteSet(Users(f, m)) /\ Cardinality(Users(f, m)) \in Nat
  BY UsersFinite
<1>6. Cardinality(A) \in Nat /\ Cardinality({}) = 0
  BY <1>4, FS_CardinalityType, FS_EmptySet
<1>7. Cardinality(Users(g, m)) = Cardinality(Users(f, m)) + Cardinality(A) - 0
  BY <1>2, <1>3, <1>4, <1>5, <1>6, FS_Union
<1> QED
  BY <1>5, <1>6, <1>7

\* In a consistent heap every pointer to a cell is to a live one.
LEMMA PointersLive ==
  ASSUME IInv
  PROVE  NoDangling
<1> SUFFICES ASSUME NEW s \in Site, ref[s] \in Cell
             PROVE  cell[ref[s]] = "live"
  BY DEF NoDangling, IInv
<1>1. s \in Refs(ref[s])
  BY DEF Refs, Users
<1>2. Cardinality(Refs(ref[s])) \in Nat /\ Cardinality(Refs(ref[s])) # 0
  BY <1>1, UsersFinite DEF Refs
<1> QED
  BY <1>2 DEF IInv, CountExact

\* What the effects on counts and cells keep; MethodsStep has the rest.
Counted == TypeOK /\ CountExact /\ StackSound

-----------------------------------------------------------------------------
(* The initial state and the effects every action is made of.              *)

LEMMA InitIInv == Init => IInv
<1> SUFFICES ASSUME Init PROVE IInv
  OBVIOUS
<1>1. TypeOK
  BY EmptySeq DEF Init, TypeOK, Pointer, Sort
<1>2. \A n \in Cell : Users(ref, n) = {}
  BY HeapAssumption DEF Init, Users
<1>3. CountExact
  <2>1. \A n \in Cell : Cardinality(Refs(n)) = 0
    BY <1>2, FS_EmptySet DEF Refs
  <2> QED
    BY <2>1 DEF Init, CountExact
<1>4. StackSound
  BY EmptySeq DEF Init, StackSound, Pending, Site
<1>5. MethodsLive
  BY DEF Init, MethodsLive
<1> QED
  BY <1>1, <1>3, <1>4, <1>5 DEF IInv

\* Taking a reference to a pointer that is held elsewhere.
LEMMA AcquireStep ==
  ASSUME IInv, NEW s \in Root, NEW u \in Site, ref[s] = NULL,
         Acquire(s, ref[u]), UNCHANGED <<cell, sort, meth, stack, finalized>>
  PROVE  Counted'
<1> DEFINE p == ref[u]
<1>0. TypeOK /\ s \in Site /\ p \in Pointer /\ ref \in [Site -> Pointer]
  BY DEF IInv, TypeOK, Site
<1>1. TypeOK'
  BY <1>0 DEF TypeOK, Acquire, Pointer
<1>2. CountExact'
  <2> SUFFICES ASSUME NEW n \in Cell
               PROVE  /\ refcnt'[n] = Cardinality(Users(ref', n))
                      /\ cell'[n] = "live" <=> refcnt'[n] > 0
    BY DEF CountExact, Refs
  <2>1. /\ refcnt[n] = Cardinality(Users(ref, n))
        /\ cell[n] = "live" <=> refcnt[n] > 0
        /\ refcnt[n] \in Nat
    BY <1>0 DEF IInv, CountExact, Refs, TypeOK
  <2>2. Cardinality(Users(ref', n)) =
          Cardinality(Users(ref, n)) + (IF p = n THEN 1 ELSE 0)
    <3>1. /\ ref[s] # n
          /\ ref'[s] = p /\ \A x \in Site : x # s => ref'[x] = ref[x]
      BY <1>0, HeapAssumption DEF Acquire
    <3>2. Cardinality(Users(ref', n)) = Cardinality(Users(ref, n))
            - (IF ref[s] = n THEN 1 ELSE 0) + (IF p = n THEN 1 ELSE 0)
      BY <1>0, <3>1, UsersUpdate
    <3> QED
      BY <2>1, <3>1, <3>2
  <2>3. p = n => cell[n] = "live"
    BY PointersLive DEF NoDangling
  <2>4. refcnt'[n] = refcnt[n] + (IF p = n THEN 1 ELSE 0)
    BY <1>0, <2>1 DEF Acquire, TypeOK
  <2> QED
    BY <2>1, <2>2, <2>3, <2>4
<1>3. StackSound'
  BY <1>0, HeapAssumption DEF IInv, StackSound, Pending, Acquire, Site, Kid
<1> QED
  BY <1>1, <1>2, <1>3 DEF Counted

\* A live cell enters ndt_del.
LEMMA PushStep ==
  ASSUME IInv, NEW p \in Cell, cell[p] = "live", stack' = Append(stack, p),
         cell' = [cell EXCEPT ![p] = "dying"],
         \A n \in Cell : cell'[n] = "free" => Pending(n)' = {}
  PROVE  stack' \in Seq(Cell) /\ StackSound'
<1>0. /\ cell \in [Cell -> {"free", "live", "dying"}] /\ stack \in Seq(Cell)
      /\ \A n \in Cell : cell[n] = "dying" <=> \E i \in 1..Len(stack) : stack[i] = n
      /\ \A i, j \in 1..Len(stack) : stack[i] = stack[j] => i = j
  BY DEF IInv, TypeOK, StackSound
<1>1. /\ Len(stack') = Len(stack) + 1
      /\ \A i \in 1..Len(stack) : stack'[i] = stack[i]
      /\ stack'[Len(stack) + 1] = p
      /\ Len(stack) \in Nat /\ stack' \in Seq(Cell)
  BY <1>0, AppendProperties, LenProperties
<1>2. \A i \in 1..Len(stack) : stack[i] # p
  BY <1>0
<1>3. \A n \in Cell : cell'[n] = "dying" <=> n = p \/ cell[n] = "dying"
  BY <1>0
<1>4. \A n \in Cell : cell'[n] = "dying" <=> \E i \in 1..Len(stack') : stack'[i] = n
  BY <1>0, <1>1, <1>3
<1>5. \A i, j \in 1..Len(stack') : stack'[i] = stack'[j] => i = j
  BY <1>0, <1>1, <1>2
<1> QED
  BY <1>1, <1>4, <1>5 DEF StackSound

\* Giving up a reference, from a variable, a typedef or a child slot.
LEMMA DecrefStep ==
  ASSUME IInv, NEW s \in Site, ndt_decref(s), UNCHANGED <<sort, meth>>, finalized' \in BOOLEAN,
         \A n \in Cell : cell[n] = "free" => s \notin Slots(n)
  PROVE  Counted'
<1> DEFINE p == ref[s]
<1>0. /\ TypeOK /\ p \in Pointer /\ ref \in [Site -> Pointer]
      /\ refcnt \in [Cell -> Nat] /\ stack \in Seq(Cell)
      /\ cell \in [Cell -> {"free", "live", "dying"}] /\ NULL \in Pointer
  BY DEF IInv, TypeOK, Pointer
<1>1. /\ ref' \in [Site -> Pointer]
      /\ ref'[s] = NULL /\ \A x \in Site : x # s => ref'[x] = ref[x]
  BY <1>0 DEF ndt_decref
<1>2. p \in Cell => refcnt[p] > 0 /\ cell[p] = "live"
  BY PointersLive DEF NoDangling, IInv, CountExact
<1>3. \A n \in Cell : refcnt'[n] = refcnt[n] - (IF p = n THEN 1 ELSE 0)
  BY <1>0 DEF ndt_decref
<1>4. /\ refcnt' \in [Cell -> Nat]
      /\ cell' \in [Cell -> {"free", "live", "dying"}]
  <2>1. CASE p \in Cell
    <3>1. refcnt[p] - 1 \in Nat
      BY <1>0, <1>2, <2>1
    <3>2. /\ refcnt' = [refcnt EXCEPT ![p] = refcnt[p] - 1]
          /\ cell' = cell \/ cell' = [cell EXCEPT ![p] = "dying"]
      BY <2>1 DEF ndt_decref
    <3> QED
      BY <1>0, <2>1, <3>1, <3>2
  <2>2. CASE p \notin Cell
    BY <1>0, <2>2 DEF ndt_decref
  <2> QED
    BY <2>1, <2>2
<1>5. /\ p \in Cell /\ refcnt[p] = 1 => /\ stack' = Append(stack, p)
                                       /\ cell' = [cell EXCEPT ![p] = "dying"]
      /\ ~(p \in Cell /\ refcnt[p] = 1) => stack' = stack /\ cell' = cell
  BY <1>0 DEF ndt_decref
<1>6. stack' \in Seq(Cell)
  <2>1. p \in Cell => Append(stack, p) \in Seq(Cell)
    BY <1>0, AppendProperties
  <2> QED
    BY <1>0, <1>5, <2>1
<1>7. TypeOK'
  BY <1>0, <1>1, <1>4, <1>6 DEF TypeOK
<1>8. CountExact'
  <2> SUFFICES ASSUME NEW n \in Cell
               PROVE  /\ refcnt'[n] = Cardinality(Users(ref', n))
                      /\ cell'[n] = "live" <=> refcnt'[n] > 0
    BY DEF CountExact, Refs
  <2>1. /\ refcnt[n] = Cardinality(Users(ref, n))
        /\ cell[n] = "live" <=> refcnt[n] > 0
        /\ refcnt[n] \in Nat
    BY <1>0 DEF IInv, CountExact, Refs
  <2>2. Cardinality(Users(ref', n)) = Cardinality(Users(ref, n))
          - (IF ref[s] = n THEN 1 ELSE 0) + (IF NULL = n THEN 1 ELSE 0)
    BY <1>0, <1>1, UsersUpdate
  <2>3. refcnt'[n] = Cardinality(Users(ref', n))
    BY <1>3, <2>1, <2>2, HeapAssumption
  <2>4. cell'[n] = "live" <=> refcnt'[n] > 0
    BY <1>0, <1>3, <1>5, <2>1
  <2> QED
    BY <2>3, <2>4
<1>9. StackSound'
  <2>1. \A n \in Cell : cell'[n] = "free" => Pending(n)' = {}
    BY <1>0, <1>1, <1>5 DEF IInv, StackSound, Pending, Slots, Site
  <2>2. CASE p \in Cell /\ refcnt[p] = 1
    BY <1>2, <1>5, <2>1, <2>2, PushStep
  <2>3. CASE ~(p \in Cell /\ refcnt[p] = 1)
    BY <1>5, <2>1, <2>3 DEF IInv, StackSound
  <2> QED
    BY <2>2, <2>3
<1> QED
  BY <1>7, <1>8, <1>9 DEF Counted

\* One variable hands its reference over to another, which drops its own.
LEMMA MoveStep ==
  ASSUME IInv, NEW dst \in Var, NEW src \in Var, ndt_move(dst, src)
  PROVE  Counted'
<1> DEFINE p == ref[dst]
           q == ref[src]
           f == [ref EXCEPT ![dst] = q]
           drops == p \in Cell /\ refcnt[p] = 1
<1>0. /\ TypeOK /\ p \in Pointer /\ q \in Pointer /\ ref \in [Site -> Pointer]
      /\ refcnt \in [Cell -> Nat] /\ stack \in Seq(Cell)
      /\ cell \in [Cell -> {"free", "live", "dying"}] /\ NULL \in Pointer
      /\ dst \in Site /\ src \in Site /\ dst # src
  BY DEF IInv, TypeOK, Pointer, Site, Root, ndt_move
<1>1. /\ f \in [Site -> Pointer] /\ ref' \in [Site -> Pointer]
      /\ f[dst] = q /\ \A x \in Site : x # dst => f[x] = ref[x]
      /\ f[src] = q
      /\ ref'[src] = NULL /\ \A x \in Site : x # src => ref'[x] = f[x]
  BY <1>0 DEF ndt_move
<1>2. p \in Cell => refcnt[p] > 0 /\ cell[p] = "live"
  BY <1>0, PointersLive DEF NoDangling, IInv, CountExact
<1>3. \A n \in Cell : refcnt'[n] = refcnt[n] - (IF p = n THEN 1 ELSE 0)
  BY <1>0 DEF ndt_move
<1>4. /\ drops => stack' = Append(stack, p) /\ cell' = [cell EXCEPT ![p] = "dying"]
      /\ ~drops => stack' = stack /\ cell' = cell
  BY DEF ndt_move
<1>5. refcnt' \in [Cell -> Nat]
  <2>1. p \in Cell => refcnt[p] - 1 \in Nat
    BY <1>0, <1>2
  <2>2. /\ p \in Cell => refcnt' = [refcnt EXCEPT ![p] = refcnt[p] - 1]
        /\ p \notin Cell => refcnt' = refcnt
    BY DEF ndt_move
  <2> QED
    BY <1>0, <2>1, <2>2
<1>6. \A n \in Cell : cell'[n] = "free" => Pending(n)' = {}
  <2>1. \A n \in Cell, k \in Kid : <<n, k>> \in Site /\ ref'[<<n, k>>] = ref[<<n, k>>]
    BY <1>1, HeapAssumption DEF Site, Root
  <2> QED
    BY <1>0, <1>4, <2>1 DEF IInv, StackSound, Pending
<1>7. stack' \in Seq(Cell) /\ StackSound'
  <2>1. CASE drops
    BY <1>2, <1>4, <1>6, <2>1, PushStep
  <2>2. CASE ~drops
    BY <1>0, <1>4, <1>6, <2>2 DEF IInv, StackSound
  <2> QED
    BY <2>1, <2>2
<1>8. TypeOK'
  <2>1. cell' \in [Cell -> {"free", "live", "dying"}]
    BY <1>0, <1>4
  <2> QED
    BY <1>0, <1>1, <1>5, <1>7, <2>1 DEF TypeOK, ndt_move
<1>9. CountExact'
  <2> SUFFICES ASSUME NEW n \in Cell
               PROVE  /\ refcnt'[n] = Cardinality(Users(ref', n))
                      /\ cell'[n] = "live" <=> refcnt'[n] > 0
    BY DEF CountExact, Refs
  <2>1. /\ refcnt[n] = Cardinality(Users(ref, n))
        /\ cell[n] = "live" <=> refcnt[n] > 0
        /\ refcnt[n] \in Nat
    BY <1>0 DEF IInv, CountExact, Refs
  <2>2. Cardinality(Users(f, n)) = Cardinality(Users(ref, n))
          - (IF p = n THEN 1 ELSE 0) + (IF q = n THEN 1 ELSE 0)
    <3>1. /\ ref \in [Site -> Pointer] /\ dst \in Site /\ q \in Pointer
          /\ f[dst] = q /\ \A x \in Site : x # dst => f[x] = ref[x]
      BY <1>0, <1>1
    <3> HIDE DEF f, q
    <3> QED
      BY <3>1, UsersUpdate
  <2>3. Cardinality(Users(ref', n)) = Cardinality(Users(f, n))
          - (IF q = n THEN 1 ELSE 0) + (IF NULL = n THEN 1 ELSE 0)
    <3>1. /\ f \in [Site -> Pointer] /\ src \in Site /\ NULL \in Pointer
          /\ ref'[src] = NULL /\ \A x \in Site : x # src => ref'[x] = f[x]
      BY <1>0, <1>1
    <3>2. f[src] = q
      BY <1>1
    <3> HIDE DEF f, q
    <3>3. Cardinality(Users(ref', n)) = Cardinality(Users(f, n))
            - (IF f[src] = n THEN 1 ELSE 0) + (IF NULL = n THEN 1 ELSE 0)
      BY <3>1, UsersUpdate
    <3> QED
      BY <3>2, <3>3
  <2>4. Cardinality(Users(f, n)) \in Nat
    BY UsersFinite
  <2>5. refcnt'[n] = Cardinality(Users(ref', n))
    <3> HIDE DEF f
    <3> QED  BY <1>3, <2>1, <2>2, <2>3, <2>4, HeapAssumption
  <2>6. cell'[n] = "live" <=> refcnt'[n] > 0
    BY <1>0, <1>3, <1>4, <2>1
  <2> QED
    BY <2>5, <2>6
<1> QED
  BY <1>7, <1>8, <1>9 DEF Counted

\* The entries of the typedef table, and none.
Defined == {d \in Name : ref[d] # NULL} \cup {NULL}

\* What may be stored in the slots of a new cell: references that the
\* caller holds, and null pointers.
Held(kids) ==
    /\ kids \in [Kid -> Pointer]
    /\ \A k \in Kid : kids[k] \in Cell => cell[kids[k]] = "live"

LEMMA NewStep ==
  ASSUME IInv, NEW v \in Var, NEW n \in Cell, NEW t \in Sort, NEW kids,
         NEW d \in Defined, Held(kids), New(v, n, t, kids, d)
  PROVE  Counted'
<1>0. /\ TypeOK /\ ref \in [Site -> Pointer] /\ refcnt \in [Cell -> Nat]
      /\ cell \in [Cell -> {"free", "live", "dying"}]
      /\ v \in Site /\ n \in Pointer /\ NULL \in Pointer
  BY DEF IInv, TypeOK, Pointer, Site, Root
<1>1. \A s \in Slots(n) : s \in Site /\ s # v /\ s[2] \in Kid /\ ref[s] = NULL
  BY HeapAssumption DEF Slots, Site, Root, New, IInv, StackSound, Pending
<1>2. /\ ref' = [s \in Site |-> IF s = v THEN n
                                ELSE IF s \in Slots(n) THEN kids[s[2]] ELSE ref[s]]
      /\ cell[n] = "free" /\ ref[v] = NULL
      /\ cell' = [cell EXCEPT ![n] = "live"]
  BY DEF New
<1>3. ref' \in [Site -> Pointer]
  BY <1>0, <1>1, <1>2 DEF Held
<1>4. \A m \in Cell :
         /\ refcnt[m] = Cardinality(Users(ref, m))
         /\ cell[m] = "live" <=> refcnt[m] > 0
         /\ refcnt[m] \in Nat
  BY <1>0 DEF IInv, CountExact, Refs
<1> DEFINE A(m) == Naming(n, kids, m)
           g == [s \in Site |-> IF s \in Slots(n) THEN kids[s[2]] ELSE ref[s]]
<1>5. ASSUME NEW m \in Cell
      PROVE  /\ Cardinality(A(m)) \in Nat
             /\ Cardinality(Users(g, m)) = Cardinality(Users(ref, m)) + Cardinality(A(m))
  <2>1. /\ \A s \in Slots(n) : ref[s] = NULL
        /\ \A s \in Site : g[s] = IF s \in Slots(n) THEN kids[s[2]] ELSE ref[s]
    BY <1>1
  <2>2. ref \in [Site -> Pointer]
    BY <1>0
  <2> HIDE DEF g
  <2> QED
    BY <2>1, <2>2, UsersFill
<1>6. ASSUME NEW m \in Cell
      PROVE  Cardinality(Users(ref', m)) = Cardinality(Users(g, m)) + (IF n = m THEN 1 ELSE 0)
  <2>1. g \in [Site -> Pointer]
    BY <1>0, <1>1 DEF Held
  <2>2. ref'[v] = n /\ \A x \in Site : x # v => ref'[x] = g[x]
    BY <1>0, <1>2
  <2>3. g[v] = NULL
    BY <1>0, <1>1, <1>2
  <2>4. Cardinality(Users(ref', m)) = Cardinality(Users(g, m))
          - (IF g[v] = m THEN 1 ELSE 0) + (IF n = m THEN 1 ELSE 0)
    <3> HIDE DEF g
    <3> QED  BY <1>0, <2>1, <2>2, UsersUpdate
  <2>5. Cardinality(Users(g, m)) \in Nat
    BY UsersFinite
  <2> QED
    BY <2>3, <2>4, <2>5, HeapAssumption
<1>7. A(n) = {}
  BY <1>1, <1>2 DEF Held, Naming
<1>8. Cardinality(A(n)) = 0
  BY <1>7, FS_EmptySet
<1>9. \A m \in Cell : refcnt'[m] = IF m = n THEN 1 ELSE refcnt[m] + Cardinality(A(m))
  BY DEF New
<1>10. TypeOK'
  <2>1. refcnt' \in [Cell -> Nat]
    <3>1. \A m \in Cell : refcnt'[m] \in Nat
      <4> HIDE DEF A, g
      <4> QED  BY <1>4, <1>5, <1>9
    <3>2. refcnt' = [m \in Cell |-> refcnt'[m]]
      BY DEF New
    <3> QED
      BY <3>1, <3>2
  <2>2. meth' \in [Cell -> Name \cup {NULL}]
    BY <1>0 DEF TypeOK, New, Defined
  <2> QED
    BY <1>0, <1>2, <1>3, <2>1, <2>2 DEF TypeOK, New
<1>11. CountExact'
  <2> SUFFICES ASSUME NEW m \in Cell
               PROVE  /\ refcnt'[m] = Cardinality(Users(ref', m))
                      /\ cell'[m] = "live" <=> refcnt'[m] > 0
    BY DEF CountExact, Refs
  <2>1. CASE m = n
    <3> HIDE DEF A, g
    <3> QED  BY <1>0, <1>2, <1>4, <1>5, <1>6, <1>8, <1>9, <2>1
  <2>2. CASE m # n
    <3>1. Cardinality(A(m)) > 0 => cell[m] = "live"
      <4>1. A(m) # {} => cell[m] = "live"
        BY <1>1, <2>2 DEF Held, Naming
      <4>2. Cardinality({}) = 0
        BY FS_EmptySet
      <4> HIDE DEF A
      <4> QED
        BY <4>1, <4>2
    <3> HIDE DEF A, g
    <3> QED  BY <1>0, <1>2, <1>4, <1>5, <1>6, <1>9, <2>2, <3>1
  <2> QED
    BY <2>1, <2>2
<1>12. StackSound'
  <2>1. stack' = stack /\ \A m \in Cell : cell'[m] = "dying" <=> cell[m] = "dying"
    BY <1>0, <1>2 DEF New
  <2>2. \A m \in Cell : cell'[m] = "free" => m # n /\ cell[m] = "free"
    BY <1>0, <1>2
  <2>3. \A m \in Cell, k \in Kid : m # n => <<m, k>> \in Site /\ <<m, k>> # v /\ <<m, k>> \notin Slots(n)
    BY HeapAssumption DEF Site, Root, Slots
  <2>4. \A m \in Cell : cell'[m] = "free" => Pending(m)' = {}
    BY <1>2, <2>2, <2>3 DEF IInv, StackSound, Pending
  <2> QED
    BY <2>1, <2>4 DEF IInv, StackSound
<1> QED
  BY <1>10, <1>11, <1>12 DEF Counted

LEMMA AbandonStep ==
  ASSUME IInv, NEW n \in Cell, NEW kids, Held(kids), Abandon(n, kids)
  PROVE  Counted'
<1>0. /\ TypeOK /\ ref \in [Site -> Pointer] /\ refcnt \in [Cell -> Nat]
      /\ cell \in [Cell -> {"free", "live", "dying"}]
      /\ NULL \in Pointer /\ stack = <<>> /\ stack' = <<n>>
      /\ cell[n] = "free" /\ cell' = [cell EXCEPT ![n] = "dying"]
  BY DEF IInv, TypeOK, Pointer, Abandon, Idle
<1>1. \A s \in Slots(n) : s \in Site /\ s[2] \in Kid /\ ref[s] = NULL
  BY <1>0 DEF Slots, Site, IInv, StackSound, Pending
<1>2. \A s \in Site : ref'[s] = IF s \in Slots(n) THEN kids[s[2]] ELSE ref[s]
  BY DEF Abandon
<1>3. ref' \in [Site -> Pointer]
  BY <1>0, <1>1 DEF Held, Abandon
<1>4. \A m \in Cell :
         /\ refcnt[m] = Cardinality(Users(ref, m))
         /\ cell[m] = "live" <=> refcnt[m] > 0
         /\ refcnt[m] \in Nat
  BY <1>0 DEF IInv, CountExact, Refs
<1>5. ASSUME NEW m \in Cell
      PROVE  /\ Cardinality(Naming(n, kids, m)) \in Nat
             /\ Cardinality(Users(ref', m)) =
                   Cardinality(Users(ref, m)) + Cardinality(Naming(n, kids, m))
  <2>1. ref \in [Site -> Pointer] /\ \A s \in Slots(n) : ref[s] = NULL
    BY <1>0, <1>1
  <2> QED
    BY <1>2, <2>1, UsersFill
<1>6. Naming(n, kids, n) = {}
  BY <1>0, <1>1 DEF Held, Naming
<1>7. Cardinality({}) = 0
  BY FS_EmptySet
<1>8. \A m \in Cell :
         refcnt'[m] = IF m = n THEN 0 ELSE refcnt[m] + Cardinality(Naming(n, kids, m))
  BY DEF Abandon
<1>9. TypeOK'
  <2>1. \A m \in Cell : refcnt'[m] \in Nat
    BY <1>4, <1>5, <1>8
  <2>2. refcnt' = [m \in Cell |-> refcnt'[m]]
    BY DEF Abandon
  <2>3. refcnt' \in [Cell -> Nat]
    BY <2>1, <2>2
  <2> QED
    BY <1>0, <1>3, <2>3 DEF TypeOK, Abandon
<1>10. CountExact'
  <2> SUFFICES ASSUME NEW m \in Cell
               PROVE  /\ refcnt'[m] = Cardinality(Users(ref', m))
                      /\ cell'[m] = "live" <=> refcnt'[m] > 0
    BY DEF CountExact, Refs
  <2>1. CASE m = n
    <3>1. refcnt'[n] = 0 /\ cell'[n] = "dying"
      BY <1>0, <1>8
    <3>2. refcnt[n] = 0
      BY <1>0, <1>4
    <3>3. Cardinality(Naming(n, kids, n)) = 0
      BY <1>6, <1>7
    <3>4. Cardinality(Users(ref', n)) = Cardinality(Users(ref, n)) + 0
      BY <1>5, <3>3
    <3>5. Cardinality(Users(ref', n)) = 0
      BY <1>4, <3>2, <3>4
    <3> QED
      BY <2>1, <3>1, <3>5
  <2>2. CASE m # n
    <3>1. Naming(n, kids, m) # {} => cell[m] = "live"
      BY <1>1, <2>2 DEF Held, Naming
    <3>2. cell'[m] = cell[m] /\ refcnt'[m] = refcnt[m] + Cardinality(Naming(n, kids, m))
      BY <1>0, <1>8, <2>2
    <3> QED
      BY <1>4, <1>5, <1>7, <3>1, <3>2
  <2> QED
    BY <2>1, <2>2
<1>11. StackSound'
  <2>1. \A m \in Cell : cell[m] # "dying"
    BY <1>0 DEF IInv, StackSound
  <2>2. Len(stack') = 1 /\ stack'[1] = n
    BY <1>0
  <2>3. \A m \in Cell : cell'[m] = "dying" <=> m = n
    BY <1>0, <2>1
  <2>4. \A m \in Cell : cell'[m] = "free" => m # n /\ cell[m] = "free"
    BY <1>0
  <2>5. \A m \in Cell, k \in Kid : m # n => <<m, k>> \in Site /\ <<m, k>> \notin Slots(n)
    BY DEF Site, Slots
  <2>6. \A m \in Cell : cell'[m] = "free" => Pending(m)' = {}
    BY <1>2, <2>4, <2>5 DEF IInv, StackSound, Pending
  <2> QED
    BY <2>2, <2>3, <2>6 DEF StackSound
<1> QED
  BY <1>9, <1>10, <1>11 DEF Counted

\* Freeing the cell on top of the stack, whose slots are empty.
LEMMA FreeStep ==
  ASSUME IInv, DelFree
  PROVE  Counted'
<1> DEFINE n == stack[Len(stack)]
           last == Len(stack)
<1>0. /\ TypeOK /\ stack \in Seq(Cell) /\ stack # <<>>
      /\ cell \in [Cell -> {"free", "live", "dying"}]
      /\ ref' = ref /\ refcnt' = refcnt /\ finalized' = finalized
      /\ cell' = [cell EXCEPT ![n] = "free"] /\ sort' = [sort EXCEPT ![n] = "type"]
      /\ stack' = SubSeq(stack, 1, last - 1) /\ Pending(n) = {}
  BY DEF IInv, TypeOK, DelFree, Idle
<1>1. last \in Nat /\ last > 0 /\ \A i \in 1..last : stack[i] \in Cell
  BY <1>0, EmptySeq, LenProperties, ElementOfSeq
<1>2. n \in Cell
  BY <1>1
<1>3. cell[n] = "dying"
  BY <1>1, <1>2 DEF IInv, StackSound
<1>4. /\ stack' \in Seq(Cell) /\ Len(stack') = last - 1
      /\ \A i \in 1..(last - 1) : stack'[i] = stack[i]
  <2>1. \A i \in 1..(last - 1) : stack[i] \in Cell
    BY <1>1
  <2> HIDE DEF last
  <2>2. /\ SubSeq(stack, 1, last - 1) \in Seq(Cell)
        /\ Len(SubSeq(stack, 1, last - 1)) = IF 1 <= last - 1 THEN last - 1 - 1 + 1 ELSE 0
        /\ \A i \in 1..(last - 1 - 1 + 1) : SubSeq(stack, 1, last - 1)[i] = stack[1 + i - 1]
    BY <1>1, <2>1, SubSeqProperties
  <2> QED
    BY <1>0, <1>1, <2>2
<1>5. TypeOK'
  <2>1. meth' \in [Cell -> Name \cup {NULL}]
    BY <1>0, <1>2 DEF TypeOK, DelFree
  <2>2. sort' \in [Cell -> Sort]
    BY <1>0, <1>2 DEF TypeOK, Sort
  <2> QED
    BY <1>0, <1>2, <1>4, <2>1, <2>2 DEF TypeOK
<1>6. CountExact'
  BY <1>0, <1>3 DEF IInv, CountExact, Refs
<1>7. StackSound'
  <2>1. /\ \A m \in Cell : cell[m] = "dying" <=> \E i \in 1..last : stack[i] = m
        /\ \A i, j \in 1..last : stack[i] = stack[j] => i = j
        /\ \A m \in Cell : cell[m] = "free" => Pending(m) = {}
    BY DEF IInv, StackSound
  <2>2. \A i \in 1..last : stack[i] # n <=> i \in 1..(last - 1)
    BY <1>1, <2>1
  <2>3. \A m \in Cell : cell'[m] = "dying" <=> m # n /\ cell[m] = "dying"
    BY <1>0, <1>2
  <2>4. \A m \in Cell : cell'[m] = "dying" <=> \E i \in 1..(last - 1) : stack[i] = m
    BY <1>1, <2>1, <2>2, <2>3
  <2>5. \A m \in Cell : cell'[m] = "free" => Pending(m)' = {}
    BY <1>0, <1>2, <2>1 DEF Pending
  <2> HIDE DEF last
  <2> QED
    BY <1>1, <1>4, <2>1, <2>4, <2>5 DEF StackSound
<1> QED
  BY <1>5, <1>6, <1>7 DEF Counted

-----------------------------------------------------------------------------
(* The steps of the specification.                                         *)

\* What a constructor stores: types of its caller and of the typedef table,
\* and null pointers.
Given == [Kid -> {ref[r] : r \in Root} \cup {NULL}]

LEMMA GivenHeld ==
  ASSUME IInv, NEW kids \in Given
  PROVE  Held(kids)
<1>1. \A k \in Kid : kids[k] = NULL \/ \E r \in Root : kids[k] = ref[r]
  BY DEF Given
<1>2. \A r \in Root : r \in Site /\ ref[r] \in Pointer
  BY DEF IInv, TypeOK, Site
<1>3. NULL \notin Cell /\ NULL \in Pointer
  BY HeapAssumption DEF Pointer
<1>4. \A k \in Kid : kids[k] \in Pointer /\ (kids[k] \in Cell => cell[kids[k]] = "live")
  BY <1>1, <1>2, <1>3, PointersLive DEF NoDangling
<1>5. kids = [k \in Kid |-> kids[k]]
  BY DEF Given
<1> QED
  BY <1>4, <1>5 DEF Held

LEMMA KidsGiven ==
  ASSUME NEW len \in Nat, NEW w, \A k \in 1..len : w[k] \in Var
  PROVE  Kids(w, len) \in Given
<1>1. \A k \in Kid : k <= len => w[k] \in Root
  BY HeapAssumption DEF Kid, Root
<1> QED
  BY <1>1 DEF Given, Kids

\* Every constructor makes a new cell for its caller, or gives one up.
LEMMA ConstructCases ==
  ASSUME NEW v \in Var, NEW n \in Cell, Construct(v, n)
  PROVE  \E t \in Sort, kids \in Given, d \in Defined :
            New(v, n, t, kids, d) \/ Abandon(n, kids)
<1>0. Arity \in Nat /\ 1 <= Arity /\ "type" \in Sort /\ "offsets" \in Sort /\ NULL \in Defined
  BY HeapAssumption DEF Sort, Defined
<1>1. [k \in Kid |-> NULL] \in Given
  BY DEF Given
<1>2. CASE ndt_leaf(v, n) \/ ndt_offsets_new(v, n)
  BY <1>0, <1>1, <1>2 DEF ndt_leaf, ndt_offsets_new
<1>3. CASE ndt_fixed_dim(v, n)
  <2>1. PICK w \in TypeArgs(1) : \/ New(v, n, "type", Kids(w, 1), NULL)
                                \/ Abandon(n, Kids(w, 1))
    BY <1>3 DEF ndt_fixed_dim
  <2>2. Kids(w, 1) \in Given
    BY KidsGiven DEF TypeArgs
  <2> QED
    BY <1>0, <2>1, <2>2
<1>4. CASE ndt_var_dim(v, n)
  <2>1. PICK t \in Var, o \in Var : New(v, n, "type", Kids(<<t, o>>, 2), NULL)
    BY <1>4 DEF ndt_var_dim
  <2>2. \A k \in 1..2 : <<t, o>>[k] \in Var
    OBVIOUS
  <2>3. Kids(<<t, o>>, 2) \in Given
    BY <2>2, KidsGiven
  <2> QED
    BY <1>0, <2>1, <2>3
<1>5. CASE ndt_function(v, n) \/ ndt_tuple(v, n)
  <2>1. PICK len \in 0..Arity : \E w \in TypeArgs(len) : New(v, n, "type", Kids(w, len), NULL)
    BY <1>5 DEF ndt_function, ndt_tuple
  <2>2. PICK w \in TypeArgs(len) : New(v, n, "type", Kids(w, len), NULL)
    BY <2>1
  <2>3. Kids(w, len) \in Given
    BY KidsGiven DEF TypeArgs
  <2> QED
    BY <1>0, <2>2, <2>3
<1>6. CASE ndt_record(v, n)
  <2>1. PICK len \in 0..Arity : \E w \in TypeArgs(len) :
           \/ New(v, n, "type", Kids(w, len), NULL)
           \/ \E done \in 0..(len - 1) : Abandon(n, Kids(w, done))
    BY <1>6 DEF ndt_record
  <2>2. PICK w \in TypeArgs(len) :
           \/ New(v, n, "type", Kids(w, len), NULL)
           \/ \E done \in 0..(len - 1) : Abandon(n, Kids(w, done))
    BY <2>1
  <2>3. \A k \in 0..len : Kids(w, k) \in Given
    <3>1. \A k \in 1..len : w[k] \in Var
      BY DEF TypeArgs
    <3> QED
      BY <3>1, KidsGiven
  <2> QED
    BY <1>0, <2>2, <2>3
<1>7. ASSUME NEW d \in Name, ndt_nominal(v, n, d)
      PROVE  \E t \in Sort, kids \in Given, e \in Defined : New(v, n, t, kids, e)
  <2>1. PICK r \in Root : New(v, n, "type", [k \in Kid |-> IF k = 1 THEN ref[r] ELSE NULL], d)
    BY <1>7 DEF ndt_nominal, Root
  <2>2. [k \in Kid |-> IF k = 1 THEN ref[r] ELSE NULL] \in Given
    BY DEF Given
  <2>3. d \in Defined
    BY <1>7 DEF ndt_nominal, Defined
  <2> QED
    BY <1>0, <2>1, <2>2, <2>3
<1> QED
  BY <1>2, <1>3, <1>4, <1>5, <1>6, <1>7 DEF Construct

LEMMA ConstructStep ==
  ASSUME IInv, NEW v \in Var, NEW n \in Cell, Construct(v, n)
  PROVE  Counted'
<1>1. PICK t \in Sort, kids \in Given, d \in Defined : New(v, n, t, kids, d) \/ Abandon(n, kids)
  BY ConstructCases
<1> QED
  BY <1>1, GivenHeld, NewStep, AbandonStep

LEMMA StepCounted == IInv /\ [Next]_vars => Counted'
<1> SUFFICES ASSUME IInv, [Next]_vars PROVE Counted'
  OBVIOUS
<1>1. ASSUME NEW v \in Var, NEW n \in Cell, Construct(v, n) PROVE Counted'
  BY <1>1, ConstructStep
<1>2. ASSUME NEW v \in Var, ndt_primitive(v) PROVE Counted'
  <2>1. /\ v \in Site /\ ref \in [Site -> Pointer] /\ Static \in Pointer
        /\ ref' = [ref EXCEPT ![v] = Static] /\ ref[v] = NULL
        /\ UNCHANGED <<refcnt, cell, sort, meth, stack, finalized>>
    BY <1>2 DEF IInv, TypeOK, Site, Root, Pointer, ndt_primitive
  <2>2. TypeOK'
    BY <2>1 DEF IInv, TypeOK
  <2>3. \A m \in Cell : Users(ref', m) = Users(ref, m)
    BY <2>1, HeapAssumption DEF Users
  <2>4. CountExact'
    BY <2>1, <2>3 DEF IInv, CountExact, Refs
  <2>5. \A m \in Cell, k \in Kid : ref'[<<m, k>>] = ref[<<m, k>>]
    BY <1>2, <2>1, HeapAssumption DEF Site, Root
  <2>6. StackSound'
    BY <2>1, <2>5 DEF IInv, StackSound, Pending
  <2> QED
    BY <2>2, <2>4, <2>6 DEF Counted
<1>3. ASSUME NEW v \in Var, Release(v) PROVE Counted'
  <2>1. v \in Site /\ \A n \in Cell : v \notin Slots(n)
    BY HeapAssumption DEF Site, Root, Slots
  <2> QED
    BY <1>3, <2>1, DecrefStep DEF Release, IInv, TypeOK
<1>4. ASSUME NEW v \in Var, NEW w \in Var, Share(v, w) PROVE Counted'
  BY <1>4, AcquireStep DEF Share, Site, Root
<1>5. ASSUME NEW v \in Var, NEW w \in Var, ndt_move(v, w) PROVE Counted'
  BY <1>5, MoveStep
<1>6. ASSUME NEW d \in Name, NEW v \in Var, ndt_typedef_add(d, v) PROVE Counted'
  BY <1>6, AcquireStep DEF ndt_typedef_add, Site, Root
<1>7. ASSUME NEW d \in Name, ndt_finalize(d) PROVE Counted'
  <2>1. d \in Site /\ \A n \in Cell : d \notin Slots(n)
    BY HeapAssumption DEF Site, Root, Slots
  <2> QED
    BY <1>7, <2>1, DecrefStep DEF ndt_finalize
<1>8. ASSUME DelChild PROVE Counted'
  <2> DEFINE n == stack[Len(stack)]
  <2>1. PICK k \in Kid : ndt_decref(<<n, k>>)
    BY <1>8 DEF DelChild, Pending
  <2>2. n \in Cell /\ cell[n] = "dying"
    <3>1. Len(stack) \in 1..Len(stack)
      BY <1>8, EmptySeq, LenProperties DEF DelChild, Idle, IInv, TypeOK
    <3> QED
      BY <3>1, ElementOfSeq DEF IInv, TypeOK, StackSound
  <2>3. <<n, k>> \in Site /\ \A m \in Cell : cell[m] = "free" => <<n, k>> \notin Slots(m)
    BY <2>2 DEF Site, Slots
  <2> QED
    BY <1>8, <2>1, <2>3, DecrefStep DEF DelChild, IInv, TypeOK
<1>9. ASSUME DelFree PROVE Counted'
  BY <1>9, FreeStep
<1>10. CASE UNCHANGED vars
  <2>1. /\ ref' = ref /\ refcnt' = refcnt /\ cell' = cell /\ sort' = sort
        /\ meth' = meth /\ stack' = stack /\ finalized' = finalized
    BY <1>10 DEF vars
  <2>2. TypeOK'
    BY <2>1 DEF IInv, TypeOK
  <2>3. CountExact'
    BY <2>1 DEF IInv, CountExact, Refs
  <2>4. StackSound'
    BY <2>1 DEF IInv, StackSound, Pending
  <2> QED
    BY <2>2, <2>3, <2>4 DEF Counted
<1> QED
  BY <1>1, <1>2, <1>3, <1>4, <1>5, <1>6, <1>7, <1>8, <1>9, <1>10 DEF Next, ndt_del

\* Until ndt_finalize begins no entry leaves the typedef table, and no other
\* than a nominal type comes to point to one.
LEMMA MethodsStep == IInv /\ [Next]_vars => MethodsLive'
<1> SUFFICES ASSUME IInv, [Next]_vars, ~finalized' PROVE MethodsLive'
  BY DEF MethodsLive
<1>0. /\ ref \in [Site -> Pointer] /\ meth \in [Cell -> Name \cup {NULL}]
      /\ \A d \in Name : d \in Site /\ d \notin Var /\ \A n \in Cell, k \in Kid : d # <<n, k>>
      /\ NULL \notin Name
  BY HeapAssumption DEF IInv, TypeOK, Site, Root
<1>1. ~finalized => \A n \in Cell : meth[n] # NULL => ref[meth[n]] # NULL
  BY DEF IInv, MethodsLive
<1>2. ASSUME ~finalized, \A d \in Name : ref[d] # NULL => ref'[d] # NULL,
             NEW n \in Cell, NEW d \in Defined, meth' = meth \/ meth' = [meth EXCEPT ![n] = d]
      PROVE  MethodsLive'
  BY <1>0, <1>1, <1>2 DEF MethodsLive, Defined
<1>3. ASSUME ~finalized, \A d \in Name : ref[d] # NULL => ref'[d] # NULL, meth' = meth
      PROVE  MethodsLive'
  BY <1>0, <1>1, <1>3 DEF MethodsLive
<1>4. ASSUME NEW v \in Var, NEW n \in Cell, Construct(v, n) PROVE MethodsLive'
  <2>1. PICK t \in Sort, kids \in Given, d \in Defined : New(v, n, t, kids, d) \/ Abandon(n, kids)
    BY <1>4, ConstructCases
  <2>2. ~finalized /\ (meth' = meth \/ meth' = [meth EXCEPT ![n] = d])
    BY <2>1 DEF New, Abandon
  <2>3. \A e \in Name : e \in Site /\ e # v /\ e \notin Slots(n)
    BY <1>0 DEF Slots
  <2>4. \A e \in Name : ref'[e] = ref[e]
    BY <2>1, <2>3 DEF New, Abandon
  <2> QED
    BY <1>2, <2>2, <2>4
<1>5. ASSUME NEW s \in Site, s \notin Name, ndt_decref(s), UNCHANGED <<meth, finalized>> PROVE MethodsLive'
  <2>1. \A d \in Name : ref'[d] = ref[d]
    BY <1>0, <1>5 DEF ndt_decref
  <2> QED
    BY <1>3, <1>5, <2>1
<1>6. ASSUME NEW v \in Var, ndt_primitive(v) \/ Release(v) \/ \E w \in Var : Share(v, w) \/ ndt_move(v, w)
      PROVE  MethodsLive'
  <2>1. ~finalized /\ meth' = meth
    BY <1>6 DEF ndt_primitive, Release, Share, ndt_move
  <2>2. \A d \in Name : ref'[d] = ref[d]
    BY <1>0, <1>6 DEF ndt_primitive, Release, Share, ndt_move, Acquire, ndt_decref
  <2> QED
    BY <1>3, <2>1, <2>2
<1>7. ASSUME NEW d \in Name, NEW v \in Var, ndt_typedef_add(d, v) PROVE MethodsLive'
  <2>1. ref[v] # NULL
    BY <1>7, HeapAssumption DEF ndt_typedef_add, IsType
  <2>2. \A e \in Name : ref[e] # NULL => ref'[e] # NULL
    BY <1>0, <1>7, <2>1 DEF ndt_typedef_add, Acquire
  <2> QED
    BY <1>3, <1>7, <2>2 DEF ndt_typedef_add
<1>8. ASSUME NEW d \in Name PROVE ~ndt_finalize(d)
  BY DEF ndt_finalize
<1>9. Idle \/ stack[Len(stack)] \in Cell
  <2>1. ~Idle => Len(stack) \in 1..Len(stack)
    BY EmptySeq, LenProperties DEF Idle, IInv, TypeOK
  <2> QED
    BY <2>1, ElementOfSeq DEF IInv, TypeOK
<1>10. ASSUME DelChild PROVE MethodsLive'
  <2>1. PICK k \in Kid : ndt_decref(<<stack[Len(stack)], k>>)
    BY <1>10 DEF DelChild, Pending
  <2>2. <<stack[Len(stack)], k>> \in Site /\ <<stack[Len(stack)], k>> \notin Name
    BY <1>0, <1>9, <1>10 DEF DelChild, Site
  <2> QED
    BY <1>5, <1>10, <2>1, <2>2 DEF DelChild
<1>11. ASSUME DelFree PROVE MethodsLive'
  <2>1. stack[Len(stack)] \in Cell /\ NULL \in Defined
    BY <1>9, <1>11 DEF DelFree, Defined
  <2>2. /\ ~finalized /\ ref' = ref
        /\ meth' = [meth EXCEPT ![stack[Len(stack)]] = NULL]
    BY <1>11 DEF DelFree
  <2> QED
    BY <1>2, <2>1, <2>2
<1>12. CASE UNCHANGED vars
  BY <1>3, <1>12 DEF vars
<1> QED
  BY <1>4, <1>6, <1>7, <1>8, <1>10, <1>11, <1>12 DEF Next, ndt_del

LEMMA StepIInv == IInv /\ [Next]_vars => IInv'
BY StepCounted, MethodsStep DEF IInv, Counted

LEMMA Invariance == Spec => []IInv
<1> QED
  BY InitIInv, StepIInv, PTL DEF Spec

\* In every reachable state of a heap of any size the variables have their
\* types.
THEOREM TypeCorrect == Spec => []TypeOK
<1>1. IInv => TypeOK
  BY DEF IInv
<1> QED
  BY Invariance, <1>1, PTL

\* The reference count of every type and offset array is the number of
\* pointers to it, whatever constructors fail and whatever ndt_del has
\* taken apart so far.
THEOREM CountsAreExact == Spec => []CountExact
<1>1. IInv => CountExact
  BY DEF IInv
<1> QED
  BY Invariance, <1>1, PTL

\* No pointer to a type outlives it, and until ndt_finalize begins no nominal
\* type points to the methods of a typedef that is gone.
THEOREM NothingDangles == Spec => []NoDangling
<1>1. IInv => NoDangling
  BY PointersLive
<1> QED
  BY Invariance, <1>1, PTL

\* No cell is in two calls of ndt_del, none is freed while it has children.
THEOREM NothingFreedTwice == Spec => []StackSound
<1>1. IInv => StackSound
  BY DEF IInv
<1> QED
  BY Invariance, <1>1, PTL

-----------------------------------------------------------------------------
(* Nothing leaks.  A live cell that cannot be reached has a user, which is  *)
(* a cell that cannot be reached either; since types are built from the     *)
(* bottom up this does not go on for ever.                                  *)

\* An action that moves no child keeps the heap acyclic, and so does one
\* that drops some.
LEMMA FewerChildren ==
  ASSUME Acyclic,
         \A m \in Cell, k \in Kid : ref'[<<m, k>>] \in {ref[<<m, k>>], NULL}
  PROVE  Acyclic'
BY HeapAssumption DEF Acyclic

\* A cell that nobody points to may be given children.
LEMMA FilledCell ==
  ASSUME IInv, Acyclic, NEW n \in Cell, NEW kids, Held(kids), cell[n] = "free",
         \A m \in Cell, k \in Kid :
            ref'[<<m, k>>] = IF m = n THEN kids[k] ELSE ref[<<m, k>>]
  PROVE  Acyclic'
<1> SUFFICES ASSUME NEW S \in SUBSET Cell, S # {}
             PROVE  \E x \in S : \A m \in S, k \in Kid : ref'[<<m, k>>] # x
  BY DEF Acyclic
<1>1. CASE n \in S
  <2>1. \A m \in Cell, k \in Kid : ref[<<m, k>>] # n
    BY PointersLive DEF NoDangling, Site
  <2>2. \A k \in Kid : kids[k] # n
    BY DEF Held
  <2> QED
    BY <1>1, <2>1, <2>2
<1>2. CASE n \notin S
  <2>1. PICK x \in S : \A m \in S, k \in Kid : ref[<<m, k>>] # x
    BY DEF Acyclic
  <2>2. \A m \in S, k \in Kid : ref'[<<m, k>>] = ref[<<m, k>>]
    BY <1>2
  <2> QED
    BY <2>1, <2>2
<1> QED
  BY <1>1, <1>2

LEMMA StepAcyclic == IInv /\ Acyclic /\ [Next]_vars => Acyclic'
<1> SUFFICES ASSUME IInv, Acyclic, [Next]_vars PROVE Acyclic'
  OBVIOUS
<1>0. /\ ref \in [Site -> Pointer] /\ Root \subseteq Site
      /\ \A m \in Cell, k \in Kid : <<m, k>> \in Site /\ <<m, k>> \notin Root
  BY HeapAssumption DEF IInv, TypeOK, Site
<1>1. ASSUME NEW v \in Var, NEW n \in Cell, Construct(v, n) PROVE Acyclic'
  <2>1. PICK t \in Sort, kids \in Given, d \in Defined : New(v, n, t, kids, d) \/ Abandon(n, kids)
    BY <1>1, ConstructCases
  <2>2. \A m \in Cell, k \in Kid :
           ref'[<<m, k>>] = IF m = n THEN kids[k] ELSE ref[<<m, k>>]
    <3>1. \A m \in Cell, k \in Kid : /\ <<m, k>> \in Slots(n) <=> m = n
                                     /\ <<m, k>>[2] = k /\ <<m, k>> # v
      BY <1>0 DEF Slots, Root
    <3>2. ASSUME NEW s \in Site, s # v
          PROVE  ref'[s] = IF s \in Slots(n) THEN kids[s[2]] ELSE ref[s]
      <4>1. CASE New(v, n, t, kids, d)
        BY <3>2, <4>1 DEF New
      <4>2. CASE Abandon(n, kids)
        BY <3>2, <4>2 DEF Abandon
      <4> QED
        BY <2>1, <4>1, <4>2
    <3> QED
      BY <1>0, <3>1, <3>2
  <2>3. Held(kids) /\ cell[n] = "free"
    BY <2>1, GivenHeld DEF New, Abandon
  <2> QED
    BY <2>2, <2>3, FilledCell
<1>2. ASSUME NEW s \in Site, ndt_decref(s) PROVE Acyclic'
  <2>1. ref' = [ref EXCEPT ![s] = NULL]
    BY <1>2 DEF ndt_decref
  <2> QED
    BY <1>0, <2>1, FewerChildren
<1>3. ASSUME \E r, q \in Root, x, y \in Pointer :
                 \/ ref' = [ref EXCEPT ![r] = x]
                 \/ ref' = [ref EXCEPT ![r] = x, ![q] = y]
      PROVE  Acyclic'
  <2>1. \A m \in Cell, k \in Kid : ref'[<<m, k>>] = ref[<<m, k>>]
    BY <1>0, <1>3
  <2> QED
    BY <2>1, FewerChildren
<1>4. \A r \in Root : ref[r] \in Pointer
  BY <1>0
<1>5. ASSUME NEW v \in Var, ndt_primitive(v) PROVE Acyclic'
  BY <1>3, <1>5 DEF ndt_primitive, Root, Pointer
<1>6. ASSUME NEW v \in Var, Release(v) PROVE Acyclic'
  BY <1>0, <1>2, <1>6 DEF Release, Root
<1>7. ASSUME NEW v \in Var, NEW w \in Var, Share(v, w) PROVE Acyclic'
  BY <1>3, <1>4, <1>7 DEF Share, Acquire, Root
<1>8. ASSUME NEW v \in Var, NEW w \in Var, ndt_move(v, w) PROVE Acyclic'
  <2>1. v \in Root /\ w \in Root /\ NULL \in Pointer
    BY DEF Root, Pointer
  <2>2. ref' = [ref EXCEPT ![v] = ref[w], ![w] = NULL]
    BY <1>8 DEF ndt_move
  <2> QED
    BY <1>3, <1>4, <2>1, <2>2
<1>9. ASSUME NEW d \in Name, NEW v \in Var, ndt_typedef_add(d, v) PROVE Acyclic'
  BY <1>3, <1>4, <1>9 DEF ndt_typedef_add, Acquire, Root
<1>10. ASSUME NEW d \in Name, ndt_finalize(d) PROVE Acyclic'
  BY <1>0, <1>2, <1>10 DEF ndt_finalize, Root
<1>11. ASSUME DelChild PROVE Acyclic'
  <2> DEFINE n == stack[Len(stack)]
  <2>1. PICK k \in Kid : ndt_decref(<<n, k>>)
    BY <1>11 DEF DelChild, Pending
  <2>2. n \in Cell
    <3>1. Len(stack) \in 1..Len(stack)
      BY <1>11, EmptySeq, LenProperties DEF DelChild, Idle, IInv, TypeOK
    <3> QED
      BY <3>1, ElementOfSeq DEF IInv, TypeOK
  <2> QED
    BY <1>0, <1>2, <2>1, <2>2
<1>12. CASE ref' = ref
  BY <1>12, FewerChildren
<1> QED
  BY <1>1, <1>5, <1>6, <1>7, <1>8, <1>9, <1>10, <1>11, <1>12
     DEF Next, ndt_del, DelFree, vars

LEMMA AlwaysAcyclic == Spec => []Acyclic
<1>1. Init => Acyclic
  BY HeapAssumption DEF Init, Acyclic, Site
<1> QED
  BY Invariance, StepAcyclic, <1>1, PTL DEF Spec

\* The cells that can be reached: every live cell that a holder or one of
\* them points to is one of them, and they are no others.
LEMMA ReachableCells ==
  ASSUME IInv
  PROVE  /\ \A n \in Reachable : n \in Cell /\ cell[n] = "live"
         /\ \A r \in Root : ref[r] \in Cell => ref[r] \in Reachable
         /\ \A m \in Reachable, k \in Kid :
               ref[<<m, k>>] \in Cell => ref[<<m, k>>] \in Reachable
<1> DEFINE N == Cardinality(Cell)
           base == {ref[r] : r \in Root} \cap Cell
           grow == [S \in SUBSET Cell |-> S \cup Succ(S)]
           steps == [i \in 1..N |-> grow]
           reach[i \in 0..N] ==
               IF i = 0 THEN {ref[r] : r \in Root} \cap Cell
               ELSE reach[i - 1] \cup Succ(reach[i - 1])
<1>0. N \in Nat /\ IsFiniteSet(Cell)
  BY HeapAssumption, FS_CardinalityType
<1>1. \E g \in [0..N -> SUBSET Cell] :
         g[0] = base /\ \A i \in 1..N : g[i] = g[i - 1] \cup Succ(g[i - 1])
  <2> DEFINE V == SUBSET Cell
  <2>1. base \in V /\ steps \in [1..N -> [V -> V]]
    BY DEF Succ
  <2>2. PICK g \in [0..N -> V] :
           g[0] = base /\ \A i \in 1..N : g[i] = steps[i][g[i - 1]]
    <3> HIDE DEF N, base, grow, steps, reach, V
    <3> QED  BY <1>0, <2>1, Recursion
  <2> HIDE DEF N, base, reach
  <2>3. \A i \in 1..N : g[i - 1] \in SUBSET Cell
    BY <1>0, <2>2
  <2> QED
    BY <2>2, <2>3 DEF steps, grow
<1>2. /\ reach[0] = base
      /\ \A i \in 1..N : reach[i] = reach[i - 1] \cup Succ(reach[i - 1])
  <2> DEFINE E(g) == [i \in 0..N |-> IF i = 0 THEN {ref[r] : r \in Root} \cap Cell
                                     ELSE g[i - 1] \cup Succ(g[i - 1])]
  <2>1. PICK g \in [0..N -> SUBSET Cell] :
           g[0] = base /\ \A i \in 1..N : g[i] = g[i - 1] \cup Succ(g[i - 1])
    BY <1>1
  <2>2. g = E(g)
    BY <1>0, <2>1
  <2>3. reach = CHOOSE f : f = E(f)
    OBVIOUS
  <2>4. reach = E(reach)
    <3> HIDE DEF E, reach
    <3> QED  BY <2>2, <2>3
  <2>5. \A i \in 0..N : reach[i] = IF i = 0 THEN base ELSE reach[i - 1] \cup Succ(reach[i - 1])
    <3>1. reach = [i \in 0..N |-> IF i = 0 THEN base ELSE reach[i - 1] \cup Succ(reach[i - 1])]
      BY <2>4
    <3> HIDE DEF reach, base, N
    <3> QED  BY <3>1
  <2> HIDE DEF reach, base, N, E
  <2>6. 0 \in 0..N /\ \A i \in 1..N : i \in 0..N /\ i # 0
    BY <1>0
  <2>7. reach[0] = base
    BY <2>5, <2>6
  <2>8. ASSUME NEW i \in 1..N PROVE reach[i] = reach[i - 1] \cup Succ(reach[i - 1])
    BY <2>5, <2>6
  <2> QED
    BY <2>7, <2>8
<1>3. Reachable = reach[N]
  BY DEF Reachable
<1> HIDE DEF reach, grow, steps
<1> DEFINE Live == {n \in Cell : cell[n] = "live"}
<1>4. \A i \in Nat : i \in {j \in Nat : j <= N => reach[j] \subseteq Live}
  <2> DEFINE T == {j \in Nat : j <= N => reach[j] \subseteq Live}
  <2>1. 0 \in T
    BY <1>2, PointersLive DEF NoDangling, Site
  <2>2. ASSUME NEW j \in Nat, j \in T PROVE j + 1 \in T
    <3> SUFFICES ASSUME j + 1 <= N PROVE reach[j + 1] \subseteq Live
      OBVIOUS
    <3>1. reach[j] \subseteq Live /\ reach[j + 1] = reach[j] \cup Succ(reach[j])
      <4>1. j <= N /\ j + 1 \in 1..N /\ (j + 1) - 1 = j
        BY <1>0
      <4> HIDE DEF N, Live
      <4> QED  BY <1>2, <2>2, <4>1
    <3>2. Succ(reach[j]) \subseteq Live
      BY <3>1, PointersLive DEF NoDangling, Site, Succ
    <3> QED
      BY <3>1, <3>2
  <2> HIDE DEF T
  <2>3. \A i \in Nat : i \in T
    BY <2>1, <2>2, NatSetInduction
  <2> QED
    BY <2>3 DEF T
<1>5. \A i \in Nat : i \in {j \in Nat : j <= N => base \subseteq reach[j]}
  <2> DEFINE T == {j \in Nat : j <= N => base \subseteq reach[j]}
  <2>1. 0 \in T
    BY <1>2
  <2>2. ASSUME NEW j \in Nat, j \in T PROVE j + 1 \in T
    <3>1. j + 1 <= N => j <= N /\ j + 1 \in 1..N /\ (j + 1) - 1 = j
      BY <1>0
    <3> HIDE DEF N, base
    <3> QED
      BY <1>2, <2>2, <3>1
  <2> HIDE DEF T
  <2>3. \A i \in Nat : i \in T
    BY <2>1, <2>2, NatSetInduction
  <2> QED
    BY <2>3 DEF T
\* Each step reaches a new cell until there is none.
<1>6. \A i \in Nat : i \in {j \in Nat : j <= N => \/ Succ(reach[j]) \subseteq reach[j]
                                               \/ Cardinality(reach[j]) >= j}
  <2> DEFINE T == {j \in Nat : j <= N => \/ Succ(reach[j]) \subseteq reach[j]
                                        \/ Cardinality(reach[j]) >= j}
  <2>0. \A j \in 0..N : reach[j] \in SUBSET Cell
    BY <1>4
  <2>1. 0 \in T
    <3>1. Cardinality(reach[0]) \in Nat
      BY <1>0, <2>0, FS_Subset, FS_CardinalityType
    <3> QED
      BY <3>1
  <2>2. ASSUME NEW j \in Nat, j \in T PROVE j + 1 \in T
    <3> SUFFICES ASSUME j + 1 <= N
                 PROVE  \/ Succ(reach[j + 1]) \subseteq reach[j + 1]
                        \/ Cardinality(reach[j + 1]) >= j + 1
      OBVIOUS
    <3>1. j \in 0..N /\ j + 1 \in 0..N /\ j + 1 \in 1..N /\ (j + 1) - 1 = j
      BY <1>0
    <3>2. reach[j + 1] = reach[j] \cup Succ(reach[j])
      <4> HIDE DEF N
      <4> QED  BY <1>2, <3>1
    <3>3. CASE Succ(reach[j]) \subseteq reach[j]
      <4>1. reach[j + 1] = reach[j]
        BY <3>2, <3>3
      <4> QED
        BY <3>3, <4>1
    <3>4. CASE ~(Succ(reach[j]) \subseteq reach[j])
      <4> DEFINE A == reach[j]
                 B == reach[j + 1]
      <4>1. Cardinality(A) >= j
        BY <2>2, <3>1, <3>4
      <4>2. A \in SUBSET B /\ A # B /\ B \in SUBSET Cell
        BY <2>0, <3>1, <3>2, <3>4
      <4> HIDE DEF A, B, T, N
      <4>3. IsFiniteSet(B) /\ Cardinality(B) \in Nat
        BY <1>0, <4>2, FS_Subset, FS_CardinalityType
      <4>4. Cardinality(A) <= Cardinality(B) /\ Cardinality(A) # Cardinality(B)
        BY <4>2, <4>3, FS_Subset
      <4>5. Cardinality(A) \in Nat
        BY <4>2, <4>3, FS_Subset, FS_CardinalityType
      <4>6. Cardinality(B) >= j + 1
        BY <4>1, <4>3, <4>4, <4>5
      <4> QED
        BY <4>6 DEF B
    <3> QED
      BY <3>3, <3>4
  <2> HIDE DEF T
  <2>3. \A i \in Nat : i \in T
    BY <2>1, <2>2, NatSetInduction
  <2> QED
    BY <2>3 DEF T
<1> DEFINE R == reach[N]
<1>7. R \in SUBSET Cell /\ R \subseteq Live /\ base \subseteq R
  BY <1>0, <1>2, <1>4, <1>5
<1>8. Succ(R) \subseteq R
  <2>1. CASE Cardinality(R) >= N
    <3>1. Cardinality(R) = N => R = Cell
      BY <1>0, <1>7, FS_Subset
    <3>2. Cardinality(R) <= N /\ Cardinality(R) \in Nat
      BY <1>0, <1>7, FS_Subset, FS_CardinalityType
    <3>3. R = Cell
      BY <1>0, <2>1, <3>1, <3>2
    <3> QED
      BY <3>3 DEF Succ
  <2> QED
    BY <1>0, <1>6, <2>1
<1> HIDE DEF R
<1>9. \A m \in R, k \in Kid : ref[<<m, k>>] \in Cell => ref[<<m, k>>] \in Succ(R)
  BY DEF Succ
<1> QED
  BY <1>3, <1>7, <1>8, <1>9 DEF R

\* When ndt_del has returned, the cells in use are those that a caller or a
\* typedef reaches: no constructor that fails and no type that is taken apart
\* leaves memory behind.
THEOREM NothingLeaks == Spec => []NoLeak
<1>1. IInv /\ Acyclic => NoLeak
  <2> SUFFICES ASSUME IInv, Acyclic, Idle
               PROVE  {n \in Cell : cell[n] # "free"} = Reachable
    BY DEF NoLeak
  <2> DEFINE Lost == {n \in Cell : cell[n] # "free" /\ n \notin Reachable}
  <2>1. \A n \in Cell : cell[n] # "free" => cell[n] = "live" /\ Refs(n) # {}
    <3> SUFFICES ASSUME NEW n \in Cell, cell[n] # "free"
                 PROVE  cell[n] = "live" /\ Refs(n) # {}
      OBVIOUS
    <3>1. cell[n] \in {"free", "live", "dying"} /\ cell[n] # "dying"
      BY EmptySeq DEF IInv, TypeOK, StackSound, Idle
    <3>2. Cardinality(Refs(n)) # 0
      BY <3>1 DEF IInv, CountExact
    <3> QED
      BY <3>1, <3>2, FS_EmptySet
  <2>2. ASSUME Lost # {} PROVE FALSE
    <3>1. PICK n \in Lost : \A m \in Lost, k \in Kid : ref[<<m, k>>] # n
      BY <2>2 DEF Acyclic
    <3>2. PICK s \in Site : ref[s] = n
      BY <2>1, <3>1 DEF Refs, Users
    <3>3. s \notin Root
      BY <3>1, <3>2, ReachableCells
    <3>4. PICK m \in Cell : \E k \in Kid : s = <<m, k>>
      BY <3>2, <3>3 DEF Site
    <3>5. PICK k \in Kid : s = <<m, k>>
      BY <3>4
    <3>6. m \notin Reachable
      BY <3>1, <3>2, <3>5, ReachableCells
    <3>7. cell[m] # "free"
      BY <3>1, <3>2, <3>5, HeapAssumption DEF IInv, StackSound, Pending
    <3> QED
      BY <3>1, <3>2, <3>5, <3>6, <3>7
  <2> QED
    BY <2>2, ReachableCells
<1> QED
  BY Invariance, AlwaysAcyclic, <1>1, PTL

-----------------------------------------------------------------------------
(* Types are values.                                                       *)

\* What the recursive definition of Unfold computes.
Level(f, s, d, p) ==
    IF p \notin Cell \/ d = 0 THEN p
    ELSE [sort |-> s[p], kids |-> [k \in Kid |-> Unfold(f, s)[d - 1][f[<<p, k>>]]]]

LEMMA UnfoldEquation ==
  ASSUME NEW f, NEW s, NEW d \in 0..Cardinality(Cell), NEW p \in Pointer
  PROVE  Unfold(f, s)[d][p] = Level(f, s, d, p)
<1> DEFINE N == Cardinality(Cell)
           Row(g, e) == [q \in Pointer |->
                           IF q \notin Cell \/ e = 0 THEN q
                           ELSE [sort |-> s[q],
                                 kids |-> [k \in Kid |-> g[e - 1][f[<<q, k>>]]]]]
           E(g) == [e \in 0..N |-> Row(g, e)]
           type[depth \in 0..N] ==
             [q \in Pointer |->
                IF q \notin Cell \/ depth = 0 THEN q
                ELSE [sort |-> s[q],
                      kids |-> [k \in Kid |-> type[depth - 1][f[<<q, k>>]]]]]
<1>0. N \in Nat
  BY HeapAssumption, FS_CardinalityType
<1>1. \E g : g = E(g)
  <2> DEFINE Good(n, g) == g = [e \in 0..n |-> Row(g, e)]
             T == {n \in Nat : \E g : Good(n, g)}
  <2>1. 0 \in T
    <3> DEFINE g == [e \in 0..0 |-> [q \in Pointer |-> q]]
    <3>1. Row(g, 0) = [q \in Pointer |-> q]
      OBVIOUS
    <3>2. Good(0, g)
      BY <3>1
    <3> QED
      BY <3>2
  <2>2. ASSUME NEW n \in Nat, n \in T PROVE n + 1 \in T
    <3>1. PICK g : Good(n, g)
      BY <2>2
    <3> DEFINE h == [e \in 0..(n + 1) |-> IF e = n + 1 THEN Row(g, n + 1) ELSE g[e]]
    <3>2. ASSUME NEW e \in 0..(n + 1) PROVE h[e] = Row(h, e)
      <4>1. e # 0 => e - 1 \in 0..n /\ h[e - 1] = g[e - 1]
        OBVIOUS
      <4>2. Row(h, e) = Row(g, e)
        <5> HIDE DEF h
        <5> QED  BY <4>1
      <4>3. h[e] = IF e = n + 1 THEN Row(g, n + 1) ELSE g[e]
        OBVIOUS
      <4>4. e # n + 1 => e \in 0..n
        OBVIOUS
      <4>5. e \in 0..n => g[e] = Row(g, e)
        <5> HIDE DEF Row
        <5> QED  BY <3>1
      <4> HIDE DEF Row, h
      <4> QED
        BY <4>2, <4>3, <4>4, <4>5
    <3>3. Good(n + 1, h)
      <4> DEFINE k == [e \in 0..(n + 1) |-> Row(h, e)]
      <4>1. h = [e \in 0..(n + 1) |-> h[e]]
        OBVIOUS
      <4> HIDE DEF Row, h
      <4> QED
        BY <3>2, <4>1
    <3> HIDE DEF Good
    <3> QED
      BY <3>3
  <2> HIDE DEF T
  <2>3. \A n \in Nat : n \in T
    BY <2>1, <2>2, NatSetInduction
  <2> QED
    BY <1>0, <2>3 DEF T
<1>2. type = CHOOSE g : g = E(g)
  OBVIOUS
<1>3. type = E(type)
  <2> HIDE DEF E, type
  <2> QED  BY <1>1, <1>2
<1>4. Unfold(f, s) = type
  BY DEF Unfold
<1>5. type[d] = Row(type, d)
  <2> HIDE DEF Row, type
  <2> QED  BY <1>3
<1>6. Level(f, s, d, p) = Row(type, d)[p]
  <2> HIDE DEF type
  <2> QED  BY <1>4 DEF Level
<1> HIDE DEF type, Row
<1> QED
  BY <1>4, <1>5, <1>6

\* What a pointer stands for depends on the cells below it only.
Agree(f, s, g, t, L) ==
    \A m \in L : s[m] = t[m] /\ \A k \in Kid : f[<<m, k>>] = g[<<m, k>>]

Closed(f, L) == \A m \in L, k \in Kid : f[<<m, k>>] \in Cell => f[<<m, k>>] \in L

LEMMA UnfoldSame ==
  ASSUME NEW f \in [Site -> Pointer], NEW s, NEW g \in [Site -> Pointer], NEW t,
         NEW L \in SUBSET Cell, Agree(f, s, g, t, L), Closed(f, L)
  PROVE  \A d \in 0..Cardinality(Cell), p \in Pointer :
            (p \in Cell => p \in L) => Unfold(f, s)[d][p] = Unfold(g, t)[d][p]
<1> DEFINE N == Cardinality(Cell)
           U == Unfold(f, s)
           W == Unfold(g, t)
           T == {d \in Nat : d <= N => \A p \in Pointer :
                               (p \in Cell => p \in L) => U[d][p] = W[d][p]}
<1>0. N \in Nat
  BY HeapAssumption, FS_CardinalityType
<1>1. 0 \in T
  <2>1. \A p \in Pointer : U[0][p] = Level(f, s, 0, p) /\ W[0][p] = Level(g, t, 0, p)
    BY <1>0, UnfoldEquation
  <2> HIDE DEF U, W, N
  <2> QED
    BY <2>1 DEF Level
<1>2. ASSUME NEW d \in Nat, d \in T PROVE d + 1 \in T
  <2> SUFFICES ASSUME d + 1 <= N, NEW p \in Pointer, p \in Cell => p \in L
               PROVE  U[d + 1][p] = W[d + 1][p]
    OBVIOUS
  <2>1. d + 1 \in 0..N /\ d + 1 # 0 /\ (d + 1) - 1 = d /\ d <= N
    BY <1>0
  <2>2. U[d + 1][p] = Level(f, s, d + 1, p) /\ W[d + 1][p] = Level(g, t, d + 1, p)
    BY <2>1, UnfoldEquation
  <2>4. /\ Level(f, s, d + 1, p) =
              IF p \notin Cell THEN p
              ELSE [sort |-> s[p], kids |-> [k \in Kid |-> U[d][f[<<p, k>>]]]]
        /\ Level(g, t, d + 1, p) =
              IF p \notin Cell THEN p
              ELSE [sort |-> t[p], kids |-> [k \in Kid |-> W[d][g[<<p, k>>]]]]
    BY <2>1 DEF Level
  <2>3. p \in L => s[p] = t[p] /\ \A k \in Kid : U[d][f[<<p, k>>]] = W[d][g[<<p, k>>]]
    <3>1. \A k \in Kid : p \in L => /\ f[<<p, k>>] \in Pointer
                                    /\ f[<<p, k>>] = g[<<p, k>>]
                                    /\ f[<<p, k>>] \in Cell => f[<<p, k>>] \in L
      BY DEF Site, Agree, Closed
    <3>2. p \in L => s[p] = t[p]
      BY DEF Agree
    <3>3. \A q \in Pointer : (q \in Cell => q \in L) => U[d][q] = W[d][q]
      <4> HIDE DEF U, W, N
      <4> QED  BY <1>2, <2>1
    <3>4. ASSUME p \in L, NEW k \in Kid PROVE U[d][f[<<p, k>>]] = W[d][g[<<p, k>>]]
      <4> DEFINE q == f[<<p, k>>]
      <4>1. q \in Pointer /\ (q \in Cell => q \in L) /\ g[<<p, k>>] = q
        BY <3>1, <3>4
      <4> HIDE DEF q, U, W, N
      <4>2. U[d][q] = W[d][q]
        BY <3>3, <4>1
      <4> QED
        BY <4>1, <4>2 DEF q
    <3> QED
      BY <3>2, <3>4
  <2> HIDE DEF U, W, N
  <2> QED
    BY <2>2, <2>3, <2>4
<1> HIDE DEF T
<1>3. \A d \in Nat : d \in T
  BY <1>1, <1>2, NatSetInduction
<1> QED
  BY <1>0, <1>3 DEF T

\* A set of cells that is closed under children and acyclic is unfolded
\* completely at a depth of its size.
Grounded(f) ==
    \A S \in SUBSET Cell : S # {} =>
        \E n \in S : \A m \in S, k \in Kid : f[<<m, k>>] # n

LEMMA UnfoldDeep ==
  ASSUME NEW f \in [Site -> Pointer], NEW s, Grounded(f),
         NEW L \in SUBSET Cell, Closed(f, L),
         NEW d \in Nat, Cardinality(L) <= d, d + 1 <= Cardinality(Cell),
         NEW p \in Pointer, p \in Cell => p \in L
  PROVE  Unfold(f, s)[d + 1][p] = Unfold(f, s)[d][p]
<1> DEFINE N == Cardinality(Cell)
           U == Unfold(f, s)
           Deep(S, e) == \A q \in Pointer : (q \in Cell => q \in S) => U[e + 1][q] = U[e][q]
           T == {c \in Nat : \A S \in SUBSET Cell : Closed(f, S) /\ Cardinality(S) <= c =>
                              \A e \in Nat : c <= e /\ e + 1 <= N => Deep(S, e)}
<1>0. N \in Nat /\ IsFiniteSet(Cell)
  BY HeapAssumption, FS_CardinalityType
<1>1. \A S \in SUBSET Cell : IsFiniteSet(S) /\ Cardinality(S) \in Nat
  BY <1>0, FS_Subset, FS_CardinalityType
<1>2. \A e \in 0..N, q \in Pointer : q \notin Cell => U[e][q] = q
  <2>1. \A e \in 0..N, q \in Pointer : U[e][q] = Level(f, s, e, q)
    BY UnfoldEquation
  <2> HIDE DEF U, N
  <2> QED
    BY <2>1 DEF Level
<1>3. 0 \in T
  <2> SUFFICES ASSUME NEW S \in SUBSET Cell, Cardinality(S) <= 0, NEW e \in Nat, e + 1 <= N
               PROVE  Deep(S, e)
    OBVIOUS
  <2>1. S = {}
    BY <1>1, FS_EmptySet
  <2>2. e \in 0..N /\ e + 1 \in 0..N
    BY <1>0
  <2> HIDE DEF U, N
  <2> QED
    BY <1>2, <2>1, <2>2
<1>4. ASSUME NEW c \in Nat, c \in T PROVE c + 1 \in T
  <2> SUFFICES ASSUME NEW S \in SUBSET Cell, Closed(f, S), Cardinality(S) <= c + 1,
                      NEW e \in Nat, c + 1 <= e, e + 1 <= N,
                      NEW q \in Pointer, q \in Cell => q \in S
               PROVE  U[e + 1][q] = U[e][q]
    OBVIOUS
  <2>0. /\ e \in 0..N /\ e + 1 \in 0..N /\ e # 0 /\ e + 1 # 0 /\ (e + 1) - 1 = e
        /\ e - 1 \in Nat /\ (e - 1) + 1 = e /\ c <= e - 1 /\ (e - 1) + 1 <= N
    BY <1>0
  <2>1. CASE q \notin Cell
    <3> HIDE DEF U, N
    <3> QED  BY <1>2, <2>0, <2>1
  <2>2. CASE q \in Cell
    <3>1. PICK n \in S : \A m \in S, k \in Kid : f[<<m, k>>] # n
      BY <2>2 DEF Grounded
    <3> DEFINE R == S \ {n}
    <3>2. R \in SUBSET Cell /\ Closed(f, R)
      BY <3>1 DEF Closed
    <3>3. Cardinality(R) <= c
      <4>1. Cardinality(R) = Cardinality(S) - 1
        BY <1>1, <3>1, FS_RemoveElement
      <4> QED
        BY <1>1, <4>1
    <3>4. Deep(R, e - 1)
      <4> HIDE DEF R, Deep, N
      <4> QED  BY <1>4, <2>0, <3>2, <3>3
    <3>5. \A k \in Kid : /\ f[<<q, k>>] \in Pointer
                         /\ f[<<q, k>>] \in Cell => f[<<q, k>>] \in R
      BY <2>2, <3>1 DEF Site, Closed
    <3>6. \A k \in Kid : U[e][f[<<q, k>>]] = U[e - 1][f[<<q, k>>]]
      <4> HIDE DEF U, R
      <4> QED  BY <2>0, <3>4, <3>5
    <3>7. U[e + 1][q] = Level(f, s, e + 1, q) /\ U[e][q] = Level(f, s, e, q)
      BY <2>0, UnfoldEquation
    <3>8. /\ Level(f, s, e + 1, q) = [sort |-> s[q], kids |-> [k \in Kid |-> U[e][f[<<q, k>>]]]]
          /\ Level(f, s, e, q) = [sort |-> s[q], kids |-> [k \in Kid |-> U[e - 1][f[<<q, k>>]]]]
      BY <2>0, <2>2 DEF Level
    <3> HIDE DEF U
    <3> QED
      BY <3>6, <3>7, <3>8
  <2> QED
    BY <2>1, <2>2
<1> HIDE DEF T
<1>5. Cardinality(L) \in T
  BY <1>1, <1>3, <1>4, NatSetInduction
<1>6. Deep(L, d)
  <2>1. Closed(f, L) /\ Cardinality(L) <= Cardinality(L) /\ d + 1 <= N
    BY <1>1
  <2> HIDE DEF Deep, N
  <2> QED  BY <1>5, <2>1 DEF T
<1> QED
  BY <1>6

\* A null pointer and a static type stand for themselves.
LEMMA ValueOther ==
  ASSUME NEW p \in Pointer, p \notin Cell
  PROVE  Value[p] = p
<1>1. Cardinality(Cell) \in 0..Cardinality(Cell)
  BY HeapAssumption, FS_CardinalityType
<1>2. Value[p] = Level(ref, sort, Cardinality(Cell), p)
  BY <1>1, UnfoldEquation DEF Value
<1> QED
  BY <1>2 DEF Level

\* A step that leaves the live cells alone, and lets the holders point to
\* such cells only, leaves the types alone.
LEMMA TypesKept ==
  ASSUME IInv, IInv',
         \A m \in Cell, k \in Kid : cell[m] = "live" =>
            sort'[m] = sort[m] /\ ref'[<<m, k>>] = ref[<<m, k>>]
  PROVE  \A p \in Pointer : (p \in Cell => cell[p] = "live") => Value'[p] = Value[p]
<1> DEFINE L == {m \in Cell : cell[m] = "live"}
<1>1. /\ ref \in [Site -> Pointer] /\ ref' \in [Site -> Pointer]
      /\ Cardinality(Cell) \in 0..Cardinality(Cell)
  BY HeapAssumption, FS_CardinalityType DEF IInv, TypeOK
<1>2. Closed(ref, L)
  BY PointersLive DEF NoDangling, Site, Closed
<1>3. Agree(ref, sort, ref', sort', L)
  <2>1. Kid # {}
    BY HeapAssumption DEF Kid
  <2> QED
    BY <2>1 DEF Agree
<1>4. \A p \in Pointer : (p \in Cell => p \in L) =>
         Unfold(ref, sort)[Cardinality(Cell)][p] = Unfold(ref', sort')[Cardinality(Cell)][p]
  <2>1. L \in SUBSET Cell
    OBVIOUS
  <2> HIDE DEF L
  <2> QED
    BY <1>1, <1>2, <1>3, <2>1, UnfoldSame
<1>5. Value' = Unfold(ref', sort')[Cardinality(Cell)]
  BY DEF Value
<1> QED
  BY <1>4, <1>5 DEF Value

\* A new cell stands for a type whose children are those it was given.
LEMMA NewValue ==
  ASSUME IInv, IInv', Acyclic', NEW v \in Var, NEW n \in Cell, NEW t \in Sort,
         NEW kids \in Given, NEW d \in Defined, New(v, n, t, kids, d)
  PROVE  types' = [types EXCEPT ![v] =
                     [sort |-> t, kids |-> [k \in Kid |-> Value[kids[k]]]]]
<1> DEFINE N == Cardinality(Cell)
           L == {m \in Cell : cell[m] = "live"}
           U == Unfold(ref', sort')
<1>1. /\ ref \in [Site -> Pointer] /\ ref' \in [Site -> Pointer]
      /\ cell[n] = "free" /\ n \notin L /\ sort' = [sort EXCEPT ![n] = t]
      /\ sort \in [Cell -> Sort] /\ v \in Root /\ v \in Site /\ n \in Pointer
  BY DEF IInv, TypeOK, New, Site, Root, Pointer
<1>2. /\ \A m \in Cell, k \in Kid :
           ref'[<<m, k>>] = IF m = n THEN kids[k] ELSE ref[<<m, k>>]
      /\ \A r \in Root : ref'[r] = IF r = v THEN n ELSE ref[r]
  BY HeapAssumption DEF New, Slots, Site, Root
<1>3. \A k \in Kid : kids[k] \in Pointer /\ (kids[k] \in Cell => kids[k] \in L)
  BY GivenHeld DEF Held
<1>4. \A p \in Pointer : (p \in Cell => cell[p] = "live") => Value'[p] = Value[p]
  <2>1. \A m \in Cell, k \in Kid : cell[m] = "live" =>
           sort'[m] = sort[m] /\ ref'[<<m, k>>] = ref[<<m, k>>]
    BY <1>1, <1>2
  <2> QED
    BY <2>1, TypesKept
<1>5. N \in Nat /\ N \in 0..N /\ N # 0 /\ N - 1 \in Nat /\ Cardinality(L) <= N - 1
  <2>1. IsFiniteSet(Cell) /\ N \in Nat
    BY HeapAssumption, FS_CardinalityType
  <2>2. Cardinality(Cell \ {n}) = N - 1 /\ IsFiniteSet(Cell \ {n})
    BY <2>1, FS_RemoveElement
  <2>3. L \in SUBSET (Cell \ {n})
    BY <1>1
  <2>4. Cardinality(L) <= Cardinality(Cell \ {n})
    <3> HIDE DEF L
    <3> QED  BY <2>2, <2>3, FS_Subset
  <2>5. N # 0
    BY <2>1, FS_EmptySet
  <2> QED
    BY <2>1, <2>2, <2>4, <2>5
<1>6. \A k \in Kid : U[N - 1][kids[k]] = U[N][kids[k]]
  <2> SUFFICES ASSUME NEW k \in Kid PROVE U[N - 1][kids[k]] = U[N][kids[k]]
    OBVIOUS
  <2>1. Closed(ref', L)
    BY <1>1, <1>2, PointersLive DEF NoDangling, Site, Closed
  <2>2. Grounded(ref')
    BY DEF Acyclic, Grounded
  <2>3. (N - 1) + 1 = N /\ (N - 1) + 1 <= Cardinality(Cell) /\ L \in SUBSET Cell
    BY <1>5
  <2>4. Unfold(ref', sort')[(N - 1) + 1][kids[k]] = Unfold(ref', sort')[N - 1][kids[k]]
    <3> HIDE DEF L, N
    <3> QED
      BY <1>1, <1>3, <1>5, <2>1, <2>2, <2>3, UnfoldDeep
  <2> QED
    BY <2>3, <2>4
<1>7. Value'[n] = [sort |-> t, kids |-> [k \in Kid |-> Value[kids[k]]]]
  <2>1. U[N][n] = [sort |-> sort'[n], kids |-> [k \in Kid |-> U[N - 1][ref'[<<n, k>>]]]]
    <3>1. U[N][n] = Level(ref', sort', N, n)
      BY <1>1, <1>5, UnfoldEquation
    <3> QED
      BY <1>5, <3>1 DEF Level
  <2>2. Value' = U[N]
    BY DEF Value
  <2>3. sort'[n] = t
    BY <1>1
  <2>4. \A k \in Kid : U[N - 1][ref'[<<n, k>>]] = Value[kids[k]]
    <3>1. \A k \in Kid : ref'[<<n, k>>] = kids[k] /\ Value'[kids[k]] = Value[kids[k]]
      BY <1>2, <1>3, <1>4
    <3> HIDE DEF U, N
    <3> QED
      BY <1>6, <2>2, <3>1
  <2> HIDE DEF U, N
  <2> QED
    BY <2>1, <2>2, <2>3, <2>4
<1>8. \A r \in Root : r # v => Value'[ref'[r]] = Value[ref[r]]
  <2>1. \A r \in Root : ref[r] \in Pointer /\ (ref[r] \in Cell => cell[ref[r]] = "live")
    BY <1>1, PointersLive DEF NoDangling, Site
  <2> QED
    BY <1>2, <1>4, <2>1
<1>9. types' = [r \in Root |-> Value'[ref'[r]]]
  BY DEF types
<1> QED
  BY <1>1, <1>2, <1>7, <1>8, <1>9 DEF types

LEMMA ValuesStep ==
  ASSUME IInv, IInv', Acyclic', [Next]_vars
  PROVE  [Values!Next]_types
<1>0. /\ ref \in [Site -> Pointer] /\ ref' \in [Site -> Pointer] /\ Root \subseteq Site
      /\ \A m \in Cell, k \in Kid : <<m, k>> \in Site /\ <<m, k>> \notin Root
      /\ NULL \in Pointer /\ NULL \notin Cell /\ Static \in Pointer /\ Static \notin Cell
      /\ sort \in [Cell -> Sort]
  BY HeapAssumption DEF IInv, TypeOK, Site, Pointer
<1>1. /\ \A r \in Root : ref[r] \in Pointer /\ (ref[r] \in Cell => cell[ref[r]] = "live")
      /\ Value[NULL] = NULL /\ Value[Static] = Static
      /\ types = [r \in Root |-> Value[ref[r]]]
      /\ types' = [r \in Root |-> Value'[ref'[r]]]
  BY <1>0, ValueOther, PointersLive DEF NoDangling, types
<1> DEFINE Keeps == \A m \in Cell, k \in Kid : cell[m] = "live" =>
                       sort'[m] = sort[m] /\ ref'[<<m, k>>] = ref[<<m, k>>]
\* The holders after a step that changes no live cell.
<1>2. ASSUME Keeps, NEW r \in Root, NEW p \in Pointer, p \in Cell => cell[p] = "live",
             ref' = [ref EXCEPT ![r] = p]
      PROVE  types' = [types EXCEPT ![r] = Value[p]]
  <2>1. \A q \in Pointer : (q \in Cell => cell[q] = "live") => Value'[q] = Value[q]
    BY <1>2, TypesKept
  <2>2. \A q \in Root : ref'[q] = IF q = r THEN p ELSE ref[q]
    BY <1>0, <1>2
  <2>3. \A q \in Root : Value'[ref'[q]] = IF q = r THEN Value[p] ELSE Value[ref[q]]
    BY <1>1, <1>2, <2>1, <2>2
  <2> QED
    BY <1>1, <2>3
<1>3. ASSUME Keeps, \A r \in Root : ref'[r] = ref[r]
      PROVE  types' = types
  <2>1. \A q \in Pointer : (q \in Cell => cell[q] = "live") => Value'[q] = Value[q]
    BY <1>3, TypesKept
  <2> QED
    BY <1>1, <1>3, <2>1
<1>4. ASSUME NEW r \in Root, NEW p \in Pointer, ref' = [ref EXCEPT ![r] = p], UNCHANGED sort
      PROVE  Keeps
  BY <1>0, <1>4
<1>5. ASSUME NEW v \in Var, NEW n \in Cell, Construct(v, n) PROVE Values!Next \/ UNCHANGED types
  <2>1. PICK t \in Sort, kids \in Given, d \in Defined : New(v, n, t, kids, d) \/ Abandon(n, kids)
    BY <1>5, ConstructCases
  <2>2. CASE New(v, n, t, kids, d)
    <3> DEFINE K == [k \in Kid |-> Value[kids[k]]]
    <3>1. types' = [types EXCEPT ![v] = [sort |-> t, kids |-> K]]
      BY <2>2, NewValue
    <3>2. K \in [Kid -> {types[q] : q \in Root} \cup {NULL}]
      <4>1. \A k \in Kid : kids[k] = NULL \/ \E q \in Root : kids[k] = ref[q]
        BY DEF Given
      <4> QED
        BY <1>1, <4>1
    <3>3. v \in Root /\ types[v] = NULL
      BY <1>1, <2>2 DEF New, Root
    <3> HIDE DEF K
    <3>4. Values!Make(v)
      BY <3>1, <3>2, <3>3 DEF Values!Make
    <3> QED
      BY <3>3, <3>4 DEF Values!Next
  <2>3. CASE Abandon(n, kids)
    <3>1. Keeps
      BY <1>0, <2>3 DEF Abandon, Slots
    <3>2. \A r \in Root : ref'[r] = ref[r]
      BY <1>0, <2>3 DEF Abandon, Slots
    <3> QED
      BY <1>3, <3>1, <3>2
  <2> QED
    BY <2>1, <2>2, <2>3
<1>6. ASSUME NEW v \in Var, ndt_primitive(v) PROVE Values!Next
  <2>1. v \in Root /\ ref[v] = NULL /\ ref' = [ref EXCEPT ![v] = Static] /\ sort' = sort
    BY <1>6 DEF ndt_primitive, Root
  <2>2. types' = [types EXCEPT ![v] = Static]
    <3>1. Keeps
      BY <1>0, <1>4, <2>1
    <3> HIDE DEF Keeps
    <3>2. types' = [types EXCEPT ![v] = Value[Static]]
      BY <1>0, <1>2, <2>1, <3>1
    <3> QED
      BY <1>1, <3>2
  <2>3. Values!Borrow(v)
    BY <1>1, <2>1, <2>2 DEF Values!Borrow
  <2> QED
    BY <2>1, <2>3 DEF Values!Next
<1>7. ASSUME NEW r \in Root, ndt_decref(r), UNCHANGED sort PROVE Values!Next
  <2>1. ref' = [ref EXCEPT ![r] = NULL]
    BY <1>7 DEF ndt_decref
  <2>2. types' = [types EXCEPT ![r] = NULL]
    <3>1. Keeps
      BY <1>0, <1>4, <1>7, <2>1
    <3> HIDE DEF Keeps
    <3>2. types' = [types EXCEPT ![r] = Value[NULL]]
      BY <1>0, <1>2, <2>1, <3>1
    <3> QED
      BY <1>1, <3>2
  <2> QED
    BY <2>2 DEF Values!Next, Values!Drop
<1>8. ASSUME NEW r \in Root, NEW q \in Root, ref[r] = NULL, Acquire(r, ref[q]), UNCHANGED sort
      PROVE  Values!Next
  <2>1. ref' = [ref EXCEPT ![r] = ref[q]]
    BY <1>8 DEF Acquire
  <2>2. types' = [types EXCEPT ![r] = types[q]]
    BY <1>1, <1>2, <1>4, <1>8, <2>1
  <2>3. Values!Borrow(r)
    BY <1>1, <1>8, <2>2 DEF Values!Borrow
  <2> QED
    BY <2>3 DEF Values!Next
<1>9. ASSUME NEW v \in Var, NEW w \in Var, ndt_move(v, w) PROVE Values!Next
  <2>1. /\ v \in Root /\ w \in Root /\ v # w /\ sort' = sort
        /\ ref' = [ref EXCEPT ![v] = ref[w], ![w] = NULL]
    BY <1>9 DEF ndt_move, Root
  <2>2. \A q \in Root : ref'[q] = IF q = w THEN NULL ELSE IF q = v THEN ref[w] ELSE ref[q]
    BY <1>0, <2>1
  <2>3. Keeps
    BY <1>0, <2>1
  <2>4. \A q \in Pointer : (q \in Cell => cell[q] = "live") => Value'[q] = Value[q]
    BY <2>3, TypesKept
  <2>5. \A q \in Root : Value'[ref'[q]] = IF q = w THEN NULL ELSE
                                         IF q = v THEN Value[ref[w]] ELSE Value[ref[q]]
    BY <1>0, <1>1, <2>1, <2>2, <2>4
  <2>6. types' = [types EXCEPT ![v] = types[w], ![w] = NULL]
    BY <1>1, <2>1, <2>5
  <2> QED
    BY <2>1, <2>6 DEF Values!Next, Values!Hand
<1>10. ASSUME DelChild PROVE UNCHANGED types
  <2> DEFINE n == stack[Len(stack)]
  <2>1. PICK k \in Kid : ndt_decref(<<n, k>>)
    BY <1>10 DEF DelChild, Pending
  <2>2. n \in Cell /\ cell[n] = "dying"
    <3>1. Len(stack) \in 1..Len(stack)
      BY <1>10, EmptySeq, LenProperties DEF DelChild, Idle, IInv, TypeOK
    <3> QED
      BY <3>1, ElementOfSeq DEF IInv, TypeOK, StackSound
  <2>3. ref' = [ref EXCEPT ![<<n, k>>] = NULL] /\ sort' = sort
    BY <1>10, <2>1 DEF ndt_decref, DelChild
  <2>4. Keeps /\ \A r \in Root : ref'[r] = ref[r]
    BY <1>0, <2>2, <2>3
  <2> QED
    BY <1>3, <2>4
<1>11. ASSUME DelFree PROVE UNCHANGED types
  <2> DEFINE n == stack[Len(stack)]
  <2>1. n \in Cell /\ cell[n] = "dying"
    <3>1. Len(stack) \in 1..Len(stack)
      BY <1>11, EmptySeq, LenProperties DEF DelFree, Idle, IInv, TypeOK
    <3> QED
      BY <3>1, ElementOfSeq DEF IInv, TypeOK, StackSound
  <2>2. ref' = ref /\ sort' = [sort EXCEPT ![n] = "type"]
    BY <1>11 DEF DelFree
  <2>3. Keeps /\ \A r \in Root : ref'[r] = ref[r]
    BY <1>0, <2>1, <2>2
  <2> QED
    BY <1>3, <2>3
<1>12. CASE UNCHANGED vars
  BY <1>3, <1>12 DEF vars
<1>13. ASSUME NEW v \in Var, NEW w \in Var, Share(v, w) PROVE Values!Next
  BY <1>8, <1>13 DEF Share, Root
<1>14. ASSUME NEW d \in Name, NEW v \in Var, ndt_typedef_add(d, v) PROVE Values!Next
  BY <1>8, <1>14 DEF ndt_typedef_add, Root
<1>15. ASSUME NEW v \in Var, Release(v) PROVE Values!Next
  BY <1>7, <1>15 DEF Release, Root
<1>16. ASSUME NEW d \in Name, ndt_finalize(d) PROVE Values!Next
  BY <1>7, <1>16 DEF ndt_finalize, Root
<1> QED
  BY <1>5, <1>6, <1>9, <1>10, <1>11, <1>12, <1>13, <1>14, <1>15, <1>16 DEF Next, ndt_del

\* The heap, with its counts and its sharing, implements types as values: no
\* operation changes a type that somebody else holds.
THEOREM ValuesImplemented == Spec => ImplementsValues
<1>1. Init => Values!Init
  <2> SUFFICES ASSUME Init PROVE Values!Init
    OBVIOUS
  <2>1. \A r \in Root : ref[r] = NULL
    BY DEF Init, Site
  <2>2. Value[NULL] = NULL
    BY ValueOther, HeapAssumption DEF Pointer
  <2> QED
    BY <2>1, <2>2 DEF Values!Init, types
<1> QED
  BY <1>1, Invariance, AlwaysAcyclic, ValuesStep, PTL
     DEF Spec, ImplementsValues, Values!Spec
=============================================================================
