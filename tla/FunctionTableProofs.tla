------------------------- MODULE FunctionTableProofs ------------------------
(***************************************************************************)
(* The table of multimethods owns what it holds, never changes a selection *)
(* and implements the registry, for all names, signatures and limits.      *)
(*                                                                         *)
(* The proof goes through the effects a step can have on the trie as a map *)
(* from prefixes to functions: it is the same map (SameTable), with more   *)
(* nodes perhaps, or has one more entry (OneMore).                         *)
(***************************************************************************)
EXTENDS FunctionTable, FiniteSetTheorems, SequenceTheorems, Induction

Entry(p) == IF p \in DOMAIN tbl THEN tbl[p] ELSE NULL

SameTable(t) ==
  /\ DOMAIN tbl \subseteq DOMAIN t
  /\ \A p \in DOMAIN t : t[p] = Entry(p)

OneMore(t, name, f) ==
  /\ DOMAIN tbl \subseteq DOMAIN t /\ name \in DOMAIN t
  /\ \A p \in DOMAIN t : t[p] = IF p = name THEN f ELSE Entry(p)

IsTable(t) == \A p \in DOMAIN t : t[p] \in Func \cup {NULL}

LEMMA Assumed ==
  /\ Name \subseteq Seq(STRING) /\ MaxKernels \in Nat /\ MaxKernels > 0 /\ MaxFuncs \in Nat
  /\ NULL \notin Func /\ NULL \notin Name /\ NULL \notin Seq(Sig)
BY TableAssumption DEF Func

-----------------------------------------------------------------------------
(* gm_tbl_add.                                                             *)

\* Following a name adds nodes without functions.
LEMMA WalkKeeps ==
  ASSUME NEW key, NEW n
  PROVE  SameTable(Walk(key, n)) /\ DOMAIN Walk(key, n) = DOMAIN tbl \cup PrefixesOf(key, n)
BY DEF SameTable, Walk, Entry

LEMMA WholeIsPrefix ==
  ASSUME NEW key \in Name
  PROVE  key \in PrefixesOf(key, Len(key))
<1>1. key \in Seq(STRING)
  BY Assumed
<1>2. Len(key) \in 0..Len(key)
  BY <1>1
<1>3. SubSeq(key, 1, Len(key)) = key
  BY <1>1, SubSeqFull
<1> QED
  BY <1>2, <1>3 DEF PrefixesOf

\* It fails and no name has another function, or the name was free.
LEMMA TblAdd ==
  ASSUME NEW key \in Name, NEW value, NEW r \in gm_tbl_add(key, value)
  PROVE  \/ r.ok = FALSE /\ SameTable(r.tbl)
         \/ r.ok = TRUE /\ OneMore(r.tbl, key, value) /\ Valid(key) /\ Entry(key) = NULL
<1>1. ASSUME NEW n \in Stops(key), r = [ok |-> FALSE, tbl |-> Walk(key, n)]
      PROVE  r.ok = FALSE /\ SameTable(r.tbl)
  <2>1. r.ok = FALSE /\ r.tbl = Walk(key, n)
    BY <1>1
  <2> QED
    BY <2>1, WalkKeeps
<1>2. CASE r = [ok |-> FALSE, tbl |-> tbl]
  BY <1>2 DEF SameTable, Entry
<1>3. CASE /\ Valid(key) /\ gm_tbl_find(key) = NULL
           /\ r = [ok |-> TRUE, tbl |-> [Walk(key, Len(key)) EXCEPT ![key] = value]]
  <2> DEFINE w == Walk(key, Len(key))
  <2>1. SameTable(w) /\ key \in DOMAIN w
    BY WalkKeeps, WholeIsPrefix
  <2>2. OneMore([w EXCEPT ![key] = value], key, value)
    <3> HIDE DEF w
    <3> QED
      BY <2>1 DEF SameTable, OneMore
  <2>3. r.ok = TRUE /\ r.tbl = [w EXCEPT ![key] = value]
    BY <1>3
  <2> QED
    BY <1>3, <2>2, <2>3 DEF gm_tbl_find, Entry
<1>4. \/ \E n \in Stops(key) : r = [ok |-> FALSE, tbl |-> Walk(key, n)]
      \/ r = [ok |-> FALSE, tbl |-> tbl]
      \/ /\ Valid(key) /\ gm_tbl_find(key) = NULL
         /\ r = [ok |-> TRUE, tbl |-> [Walk(key, Len(key)) EXCEPT ![key] = value]]
  BY Zenon DEF gm_tbl_add
<1> QED
  BY <1>1, <1>2, <1>3, <1>4

-----------------------------------------------------------------------------
(* The effects of a step on the functions.                                 *)

\* g has a function f with this name and these kernels, and is func otherwise.
Put(g, f, name, kernels, dels) ==
  /\ g = [h \in Func |-> g[h]]
  /\ \E typecheck : g[f] = [name |-> name, typecheck |-> typecheck, kernels |-> kernels,
                           dels |-> dels]
  /\ \A h \in Func : h # f => g[h] = func[h]

\* The outcomes of gm_add_func.
Nothing(t, g) == SameTable(t) /\ g = func
Deleted(t, g, name) ==
  \E f \in Func : func[f] = Unused /\ SameTable(t) /\ Put(g, f, name, <<>>, 2)
Made(t, g, name, f, kernels) ==
  /\ func[f] = Unused /\ Valid(name) /\ Entry(name) = NULL
  /\ OneMore(t, name, f) /\ Put(g, f, name, kernels, 0)

LEMMA NewFunction ==
  ASSUME func = [h \in Func |-> func[h]], NEW f \in Func, NEW name, NEW dels, NEW g,
         g = [func EXCEPT ![f] = gm_func_new(name, dels)]
  PROVE  Put(g, f, name, <<>>, dels)
<1>1. g[f] = gm_func_new(name, dels) /\ g = [h \in Func |-> g[h]]
      /\ \A h \in Func : h # f => g[h] = func[h]
  OBVIOUS
<1> QED
  BY <1>1 DEF Put, gm_func_new

LEMMA FuncAdd ==
  ASSUME func = [h \in Func |-> func[h]], NEW name \in Name, NEW r \in gm_add_func(name)
  PROVE  \/ r.ok = FALSE /\ (Nothing(r.tbl, r.func) \/ Deleted(r.tbl, r.func, name))
         \/ r.ok = TRUE /\ \E f \in Func : Made(r.tbl, r.func, name, f, <<>>)
<1>1. CASE r = [ok |-> FALSE, tbl |-> tbl, func |-> func]
  BY <1>1 DEF Nothing, SameTable, Entry
<1>2. ASSUME Memory, NEW q \in gm_tbl_add(name, NewFunc),
             r = [ok |-> q.ok, tbl |-> q.tbl,
                  func |-> [func EXCEPT ![NewFunc] = gm_func_new(name, IF q.ok THEN 0 ELSE 2)]]
      PROVE  \/ r.ok = FALSE /\ Deleted(r.tbl, r.func, name)
             \/ r.ok = TRUE /\ \E f \in Func : Made(r.tbl, r.func, name, f, <<>>)
  <2>1. NewFunc \in Func /\ func[NewFunc] = Unused
    BY <1>2 DEF Memory, NewFunc
  <2>2. PICK f \in Func : f = NewFunc
    BY <2>1
  <2>3. \/ q.ok = FALSE /\ SameTable(q.tbl)
        \/ q.ok = TRUE /\ OneMore(q.tbl, name, f) /\ Valid(name) /\ Entry(name) = NULL
    BY <1>2, <2>2, TblAdd
  <2>4. r.ok = q.ok /\ r.tbl = q.tbl
        /\ r.func = [func EXCEPT ![f] = gm_func_new(name, IF q.ok THEN 0 ELSE 2)]
    BY <1>2, <2>2
  <2>5. CASE q.ok = FALSE
    <3>1. r.func = [func EXCEPT ![f] = gm_func_new(name, 2)]
      BY <2>4, <2>5
    <3>2. Put(r.func, f, name, <<>>, 2)
      BY <3>1, NewFunction
    <3> QED
      BY <2>1, <2>2, <2>3, <2>4, <2>5, <3>2 DEF Deleted
  <2>6. CASE q.ok = TRUE
    <3>1. r.func = [func EXCEPT ![f] = gm_func_new(name, 0)]
      BY <2>4, <2>6
    <3>2. Put(r.func, f, name, <<>>, 0)
      BY <3>1, NewFunction
    <3>3. Made(r.tbl, r.func, name, f, <<>>)
      BY <2>1, <2>2, <2>3, <2>4, <2>6, <3>2 DEF Made
    <3> QED
      BY <2>4, <2>6, <3>3
  <2> QED
    BY <2>3, <2>5, <2>6
<1> QED
  BY <1>1, <1>2 DEF gm_add_func

LEMMA PutFields ==
  ASSUME NEW g, NEW f, NEW name, NEW kernels, NEW dels, Put(g, f, name, kernels, dels)
  PROVE  g[f].name = name /\ g[f].kernels = kernels /\ g[f].dels = dels
BY DEF Put

LEMMA PutCheck ==
  ASSUME NEW g, NEW f \in Func, NEW name, NEW kernels, NEW dels, Put(g, f, name, kernels, dels),
         NEW typecheck, NEW k, k = [g EXCEPT ![f].typecheck = typecheck]
  PROVE  Put(k, f, name, kernels, dels)
<1>1. PICK t : g[f] = [name |-> name, typecheck |-> t, kernels |-> kernels, dels |-> dels]
  BY DEF Put
<1>2. k[f] = [name |-> name, typecheck |-> typecheck, kernels |-> kernels, dels |-> dels]
      /\ k = [h \in Func |-> k[h]] /\ \A h \in Func : h # f => k[h] = func[h]
  BY <1>1 DEF Put
<1> QED
  BY <1>2 DEF Put

LEMMA PutKernel ==
  ASSUME NEW g, NEW f \in Func, NEW name, NEW kernels, NEW dels, Put(g, f, name, kernels, dels),
         NEW sig, NEW k, k = [g EXCEPT ![f].kernels = Insert(@, sig)]
  PROVE  Put(k, f, name, Append(kernels, sig), dels)
<1>1. PICK t : g[f] = [name |-> name, typecheck |-> t, kernels |-> kernels, dels |-> dels]
  BY DEF Put
<1>2. k[f] = [name |-> name, typecheck |-> t, kernels |-> Insert(kernels, sig), dels |-> dels]
      /\ k = [h \in Func |-> k[h]] /\ \A h \in Func : h # f => k[h] = func[h]
  BY <1>1 DEF Put
<1>3. Insert(kernels, sig) = Append(kernels, sig)
  BY DEF Insert
<1> QED
  BY <1>2, <1>3 DEF Put

-----------------------------------------------------------------------------
(* The shape of the state.                                                 *)

Record(f) ==
  \E typecheck : func[f] = [name |-> func[f].name, typecheck |-> typecheck,
                            kernels |-> func[f].kernels, dels |-> func[f].dels]

IsList(kernels) == kernels \in Seq(Sig)

TypeOK ==
  /\ IsTable(tbl)
  /\ func = [f \in Func |-> func[f]]
  /\ \A f \in Func : Record(f) /\ func[f].name \in Name \cup {NULL} /\ IsList(func[f].kernels)

LEMMA PutItself ==
  ASSUME TypeOK, NEW f \in Func
  PROVE  Put(func, f, func[f].name, func[f].kernels, func[f].dels)
BY DEF TypeOK, Put, Record

-----------------------------------------------------------------------------
(* The steps.                                                              *)

Grown(name, f, sig) ==
  /\ Valid(name) /\ f = Entry(name) /\ Len(func[f].kernels) < MaxKernels
  /\ tbl' = tbl
  /\ Put(func', f, func[f].name, Append(func[f].kernels, sig), func[f].dels)

Effect(name) ==
  \/ Nothing(tbl', func') /\ types' = types
  \/ Deleted(tbl', func', name) /\ types' = types
  \/ \E f \in Func : Made(tbl', func', name, f, <<>>) /\ types' = types
  \/ \E f \in Func, sig \in Sig : Made(tbl', func', name, f, <<sig>>) /\ types' = types + 1
  \/ \E f \in Func, sig \in Sig : Grown(name, f, sig) /\ types' = types + 1

LEMMA AddFuncEffect ==
  ASSUME TypeOK, NEW name \in Name, AddFunc(name)
  PROVE  Effect(name)
<1>1. PICK r \in gm_add_func(name) : tbl' = r.tbl /\ func' = r.func /\ types' = types
  BY DEF AddFunc
<1>2. \/ Nothing(tbl', func') \/ Deleted(tbl', func', name)
      \/ \E f \in Func : Made(tbl', func', name, f, <<>>)
  BY <1>1, FuncAdd DEF TypeOK
<1> QED
  BY <1>1, <1>2 DEF Effect

\* gm_add_kernel for a function that exists.
LEMMA ExistingEffect ==
  ASSUME TypeOK, NEW name \in Name, NEW sig \in Sig, gm_tbl_find(name) # NULL,
         NEW f, f = tbl[name], tbl' = tbl,
         \/ /\ Room(func[f].kernels)
            /\ func' = [func EXCEPT ![f].kernels = Insert(@, sig)] /\ types' = types + 1
         \/ func' = func /\ types' = types
  PROVE  Effect(name)
<1>1. Valid(name) /\ f = Entry(name) /\ f \in Func
  BY DEF gm_tbl_find, Entry, TypeOK, IsTable
<1>2. CASE func' = func /\ types' = types
  BY <1>2 DEF Effect, Nothing, SameTable, Entry
<1>3. CASE /\ Room(func[f].kernels)
           /\ func' = [func EXCEPT ![f].kernels = Insert(@, sig)] /\ types' = types + 1
  <2>1. Put(func', f, func[f].name, Append(func[f].kernels, sig), func[f].dels)
    BY <1>1, <1>3, PutItself, PutKernel
  <2>2. Grown(name, f, sig)
    BY <1>1, <1>3, <2>1 DEF Grown, Room
  <2> QED
    BY <1>1, <1>3, <2>2 DEF Effect
<1> QED
  BY <1>2, <1>3

\* gm_add_kernel for a function it has created.
LEMMA CreatedEffect ==
  ASSUME TypeOK, NEW name \in Name, NEW sig \in Sig, NEW g, NEW checked,
         NEW f \in Func, Made(tbl', g, name, f, <<>>),
         NEW typecheck, checked = [g EXCEPT ![f].typecheck = typecheck],
         \/ func' = [checked EXCEPT ![f].kernels = Insert(@, sig)] /\ types' = types + 1
         \/ func' = checked /\ types' = types
  PROVE  Effect(name)
<1>1. Put(checked, f, name, <<>>, 0)
  BY PutCheck DEF Made
<1>2. CASE func' = checked /\ types' = types
  <2>1. Made(tbl', func', name, f, <<>>)
    BY <1>1, <1>2 DEF Made
  <2> QED
    BY <1>2, <2>1 DEF Effect
<1>3. CASE func' = [checked EXCEPT ![f].kernels = Insert(@, sig)] /\ types' = types + 1
  <2>1. Put(func', f, name, Append(<<>>, sig), 0)
    BY <1>1, <1>3, PutKernel
  <2>2. Append(<<>>, sig) = <<sig>>
    OBVIOUS
  <2>3. Made(tbl', func', name, f, <<sig>>)
    BY <2>1, <2>2 DEF Made
  <2> QED
    BY <1>3, <2>3 DEF Effect
<1> QED
  BY <1>2, <1>3

LEMMA AddKernelEffect ==
  ASSUME TypeOK, NEW name \in Name, NEW sig \in Sig, NEW typecheck, AddKernel(name, sig, typecheck)
  PROVE  Effect(name)
<1> DEFINE start == IF gm_tbl_find(name) # NULL THEN {[ok |-> TRUE, tbl |-> tbl, func |-> func]}
                    ELSE gm_add_func(name)
           Created(r) == r.ok /\ gm_tbl_find(name) = NULL
           Checked(r) == IF Created(r) THEN [r.func EXCEPT ![r.tbl[name]].typecheck = typecheck]
                         ELSE r.func
           Added(r) == /\ r.ok /\ Parses(sig) /\ Room(Checked(r)[r.tbl[name]].kernels)
                       /\ func' = [Checked(r) EXCEPT ![r.tbl[name]].kernels = Insert(@, sig)]
                       /\ types' = types + 1
           Failed(r) == func' = Checked(r) /\ types' = types
<1>1. PICK r \in start : tbl' = r.tbl /\ (Added(r) \/ Failed(r))
  BY Zenon DEF AddKernel
<1>2. CASE gm_tbl_find(name) # NULL
  <2>1. r.ok = TRUE /\ r.tbl = tbl /\ r.func = func
    BY <1>1, <1>2
  <2>2. Checked(r) = func
    BY <1>2, <2>1
  <2>3. \/ /\ Room(func[tbl[name]].kernels)
           /\ func' = [func EXCEPT ![tbl[name]].kernels = Insert(@, sig)] /\ types' = types + 1
        \/ func' = func /\ types' = types
    BY <1>1, <2>1, <2>2, Zenon
  <2> QED
    BY <1>1, <1>2, <2>1, <2>3, ExistingEffect
<1>3. CASE gm_tbl_find(name) = NULL
  <2>1. r \in gm_add_func(name)
    BY <1>1, <1>3
  <2>2. CASE r.ok = FALSE
    <3>1. func' = r.func /\ types' = types
      BY <1>1, <2>2
    <3>2. Nothing(tbl', func') \/ Deleted(tbl', func', name)
      BY <1>1, <2>1, <2>2, <3>1, FuncAdd DEF TypeOK
    <3> QED
      BY <3>1, <3>2 DEF Effect
  <2>3. CASE r.ok = TRUE
    <3>1. PICK f \in Func : Made(tbl', r.func, name, f, <<>>)
      BY <1>1, <2>1, <2>3, FuncAdd DEF TypeOK
    <3>2. f = r.tbl[name]
      BY <1>1, <3>1 DEF Made, OneMore
    <3>3. Checked(r) = [r.func EXCEPT ![f].typecheck = typecheck]
      BY <1>3, <2>3, <3>2
    <3>4. \/ func' = [Checked(r) EXCEPT ![f].kernels = Insert(@, sig)] /\ types' = types + 1
          \/ func' = Checked(r) /\ types' = types
      BY <1>1, <3>2, Zenon
    <3> HIDE DEF Checked
    <3> QED
      BY <3>1, <3>3, <3>4, CreatedEffect
  <2>4. r.ok = TRUE \/ r.ok = FALSE
    BY <2>1, FuncAdd DEF TypeOK
  <2> QED
    BY <2>2, <2>3, <2>4
<1> QED
  BY <1>2, <1>3

-----------------------------------------------------------------------------
(* Functions and their kernels.                                            *)

Owned ==
  {x \in Func \X (1..MaxKernels) : Live(x[1]) /\ x[2] <= Len(func[x[1]].kernels)}

LEMMA OwnedFinite == IsFiniteSet(Owned)
<1>1. IsFiniteSet(Func) /\ IsFiniteSet(1..MaxKernels)
  BY Assumed, FS_Interval DEF Func
<1>2. IsFiniteSet(Func \X (1..MaxKernels))
  BY <1>1, FS_Product
<1> QED
  BY <1>2, FS_Subset DEF Owned

\* The kernels a function has that counts.
KernelCount(f) == IF Live(f) THEN Len(func[f].kernels) ELSE 0

LEMMA OwnedPairs == \A x \in Owned : x = <<x[1], x[2]>> /\ x[1] \in Func /\ x[2] \in 1..MaxKernels
BY DEF Owned

LEMMA CountsAreNumbers ==
  ASSUME TypeOK
  PROVE  \A f \in Func : KernelCount(f) \in Nat /\ Len(func[f].kernels) \in Nat
<1> SUFFICES ASSUME NEW f \in Func
             PROVE  KernelCount(f) \in Nat /\ Len(func[f].kernels) \in Nat
  OBVIOUS
<1>1. Len(func[f].kernels) \in Nat
  BY DEF TypeOK, IsList
<1> QED
  BY <1>1 DEF KernelCount

OwnedCounted ==
  \A h \in Func, k \in 1..MaxKernels : <<h, k>> \in Owned <=> k <= KernelCount(h)

LEMMA OwnedElement ==
  ASSUME TypeOK
  PROVE  OwnedCounted
<1> SUFFICES ASSUME NEW h \in Func, NEW k \in 1..MaxKernels
             PROVE  <<h, k>> \in Owned <=> k <= KernelCount(h)
  BY DEF OwnedCounted
<1>1. CASE Live(h)
  BY <1>1 DEF Owned, KernelCount
<1>2. CASE ~Live(h)
  BY <1>2, Assumed DEF Owned, KernelCount
<1> QED
  BY <1>1, <1>2

\* One kernel more, or none, is one signature more, or none.
LEMMA OwnedCounts ==
  ASSUME TypeOK, TypeOK', NEW f \in Func, KernelCount(f)' \in KernelCount(f)..MaxKernels,
         KernelCount(f)' <= KernelCount(f) + 1,
         \A h \in Func : h # f => KernelCount(h)' = KernelCount(h)
  PROVE  Cardinality(Owned)' = Cardinality(Owned) + KernelCount(f)' - KernelCount(f)
         /\ Cardinality(Owned) \in Nat
<1> DEFINE n == KernelCount(f)
<1>0. MaxKernels \in Nat /\ MaxKernels > 0 /\ n \in Nat /\ KernelCount(f)' \in Nat
  BY Assumed, CountsAreNumbers
<1>1. IsFiniteSet(Owned) /\ Cardinality(Owned) \in Nat
  BY OwnedFinite, FS_CardinalityType
<1>2. \A h \in Func, k \in 1..MaxKernels :
         /\ <<h, k>> \in Owned <=> k <= KernelCount(h)
         /\ <<h, k>> \in Owned' <=> k <= KernelCount(h)'
  <2>1. OwnedCounted
    BY OwnedElement
  <2>2. OwnedCounted'
    BY OwnedElement, PTL
  <2> QED
    BY <2>1, <2>2 DEF OwnedCounted
<1>3. /\ \A x \in Owned : x = <<x[1], x[2]>> /\ x[1] \in Func /\ x[2] \in 1..MaxKernels
      /\ \A x \in Owned' : x = <<x[1], x[2]>> /\ x[1] \in Func /\ x[2] \in 1..MaxKernels
  BY OwnedPairs DEF Owned
<1>4. CASE KernelCount(f)' = n
  <2>1. \A h \in Func : KernelCount(h)' = KernelCount(h)
    BY <1>4
  <2>2. \A h \in Func, k \in 1..MaxKernels : <<h, k>> \in Owned' <=> <<h, k>> \in Owned
    BY <1>2, <2>1
  <2>3. Owned' = Owned
    BY <1>3, <2>2
  <2> QED
    BY <1>0, <1>1, <1>4, <2>3
<1>5. CASE KernelCount(f)' = n + 1
  <2>1. n + 1 \in 1..MaxKernels
    BY <1>0, <1>5
  <2>2. <<f, n + 1>> \notin Owned /\ <<f, n + 1>> \in Owned'
    BY <1>0, <1>2, <1>5, <2>1
  <2>3. \A h \in Func, k \in 1..MaxKernels :
           <<h, k>> \in Owned' <=> <<h, k>> \in Owned \/ <<h, k>> = <<f, n + 1>>
    <3> TAKE h \in Func, k \in 1..MaxKernels
    <3>1. CASE h = f
      <4>1. k <= n + 1 <=> k <= n \/ k = n + 1
        BY <1>0
      <4> QED
        BY <1>2, <1>5, <3>1, <4>1
    <3>2. CASE h # f
      <4>1. KernelCount(h)' = KernelCount(h)
        BY <3>2
      <4>2. <<h, k>> # <<f, n + 1>>
        BY <3>2
      <4> QED
        BY <1>2, <4>1, <4>2
    <3> QED
      BY <3>1, <3>2
  <2>4. Owned' = Owned \cup {<<f, n + 1>>}
    BY <1>3, <2>2, <2>3
  <2>5. Cardinality(Owned') = Cardinality(Owned) + 1
    BY <1>1, <2>2, <2>4, FS_AddElement
  <2> QED
    BY <1>0, <1>1, <1>5, <2>5
<1>6. KernelCount(f)' = n \/ KernelCount(f)' = n + 1
  BY <1>0
<1> QED
  BY <1>4, <1>5, <1>6

-----------------------------------------------------------------------------
(* The invariant.                                                          *)

EntriesOK ==
  \A p : Entry(p) # NULL =>
           Entry(p) \in Func /\ p \in Name /\ Valid(p) /\ func[Entry(p)].name = p

LiveFound == \A f \in Func : Live(f) <=> \E p : Entry(p) = f

\* What was never allocated is unused; only names that can be found have functions.
TableInv ==
  /\ TypeOK /\ EntriesOK /\ LiveFound
  /\ \A f \in Func : func[f].name = NULL => func[f] = Unused
  /\ \A f \in Func : Len(func[f].kernels) <= MaxKernels
  /\ types = Cardinality(Owned)

LEMMA EntrySame ==
  ASSUME SameTable(tbl')
  PROVE  \A p : Entry(p)' = Entry(p)
BY DEF SameTable, Entry

LEMMA EntryMore ==
  ASSUME NEW name, NEW f, OneMore(tbl', name, f)
  PROVE  \A p : Entry(p)' = IF p = name THEN f ELSE Entry(p)
BY DEF OneMore, Entry

LEMMA TableStays ==
  ASSUME IsTable(tbl), NEW f \in Func, NEW name,
         SameTable(tbl') \/ OneMore(tbl', name, f)
  PROVE  IsTable(tbl')
BY DEF IsTable, SameTable, OneMore, Entry

LEMMA UnusedFields ==
  ASSUME NEW f, func[f] = Unused
  PROVE  func[f].name = NULL /\ func[f].kernels = <<>> /\ func[f].dels = 0
BY DEF Unused, gm_func_new

\* The fields of all functions after one of them was put in place.
LEMMA PutAll ==
  ASSUME TypeOK, NEW f \in Func, NEW name \in Name \cup {NULL}, NEW kernels, IsList(kernels),
         NEW dels, Put(func', f, name, kernels, dels)
  PROVE  /\ func' = [h \in Func |-> func'[h]]
         /\ \A h \in Func : /\ Record(h)' /\ func'[h].name \in Name \cup {NULL}
                            /\ IsList(func'[h].kernels)
         /\ \A h \in Func : h # f => func'[h] = func[h]
         /\ func'[f].name = name /\ func'[f].kernels = kernels /\ func'[f].dels = dels
<1>1. /\ func' = [h \in Func |-> func'[h]] /\ \A h \in Func : h # f => func'[h] = func[h]
      /\ func'[f].name = name /\ func'[f].kernels = kernels /\ func'[f].dels = dels
  BY PutFields DEF Put
<1>2. Record(f)'
  BY <1>1 DEF Record, Put
<1>3. ASSUME NEW h \in Func, h # f
      PROVE  Record(h)' /\ func'[h].name \in Name \cup {NULL} /\ IsList(func'[h].kernels)
  <2>1. func'[h] = func[h] /\ Record(h)
    BY <1>1, <1>3 DEF TypeOK
  <2> QED
    BY <2>1 DEF Record, TypeOK
<1> QED
  BY <1>1, <1>2, <1>3

LEMMA InitTable == Init => TableInv
<1> SUFFICES ASSUME Init PROVE TableInv
  OBVIOUS
<1>1. tbl = [p \in {<<>>} |-> NULL] /\ func = [f \in Func |-> Unused] /\ types = 0
  BY DEF Init
<1>2. \A f \in Func : func[f] = Unused
  BY <1>1
<1>3. \A f \in Func : func[f].name = NULL /\ func[f].kernels = <<>> /\ func[f].dels = 0
  BY <1>2, UnusedFields
<1>4. \A p : Entry(p) = NULL
  BY <1>1 DEF Entry
<1>5. IsTable(tbl)
  BY <1>1 DEF IsTable
<1>6. ASSUME NEW f \in Func PROVE Record(f)
  <2>1. func[f] = [name |-> NULL, typecheck |-> FALSE, kernels |-> <<>>, dels |-> 0]
    BY <1>2 DEF Unused, gm_func_new
  <2> QED
    BY <2>1 DEF Record
<1>7. IsList(<<>>) /\ Len(<<>>) = 0
  BY DEF IsList
<1>8. TypeOK
  BY <1>1, <1>2, <1>3, <1>5, <1>6, <1>7 DEF TypeOK
<1>9. Owned = {} /\ Cardinality({}) = 0
  BY <1>3, FS_EmptySet DEF Owned, Live
<1> QED
  BY <1>1, <1>2, <1>3, <1>4, <1>7, <1>8, <1>9, Assumed DEF TableInv, EntriesOK, LiveFound, Live

LEMMA NothingKeeps ==
  ASSUME TableInv, Nothing(tbl', func'), types' = types
  PROVE  TableInv'
<1>1. func' = func /\ SameTable(tbl')
  BY DEF Nothing
<1>2. \A p : Entry(p)' = Entry(p)
  BY <1>1, EntrySame
<1>3. IsTable(tbl')
  BY <1>1 DEF IsTable, SameTable, Entry, TableInv, TypeOK
<1>4. TypeOK'
  BY <1>1, <1>3 DEF TableInv, TypeOK, Record
<1>5. EntriesOK' /\ LiveFound'
  BY <1>1, <1>2 DEF TableInv, EntriesOK, LiveFound, Live
<1>6. Owned' = Owned
  BY <1>1 DEF Owned, Live
<1> QED
  BY <1>1, <1>4, <1>5, <1>6 DEF TableInv

LEMMA OthersCount ==
  ASSUME NEW h, func'[h] = func[h]
  PROVE  (Live(h)' <=> Live(h)) /\ KernelCount(h)' = KernelCount(h)
<1>1. Live(h)' <=> Live(h)
  BY DEF Live
<1> QED
  BY <1>1 DEF KernelCount

\* One function is put in place; the table stays in order if the name is.
LEMMA PutKeeps ==
  ASSUME TableInv, NEW f \in Func, NEW name \in Name, NEW kernels, IsList(kernels), NEW dels,
         Put(func', f, name, kernels, dels), IsTable(tbl'), EntriesOK', LiveFound',
         Len(kernels) <= MaxKernels, NEW n \in {0, 1}, types' = types + n,
         KernelCount(f)' = KernelCount(f) + n
  PROVE  TableInv'
<1>1. TypeOK
  BY DEF TableInv
<1>2. /\ func' = [h \in Func |-> func'[h]]
      /\ \A h \in Func : /\ Record(h)' /\ func'[h].name \in Name \cup {NULL}
                         /\ IsList(func'[h].kernels)
      /\ \A h \in Func : h # f => func'[h] = func[h]
      /\ func'[f].name = name /\ func'[f].kernels = kernels /\ func'[f].dels = dels
  BY <1>1, PutAll
<1>3. TypeOK'
  BY <1>2 DEF TypeOK
<1>4. \A h \in Func : h # f => KernelCount(h)' = KernelCount(h)
  BY <1>2, OthersCount
<1>5. /\ \A h \in Func : Len(func[h].kernels) <= MaxKernels
      /\ \A h \in Func : func[h].name = NULL => func[h] = Unused
      /\ types = Cardinality(Owned)
  BY DEF TableInv
<1>6. \A h \in Func : Len(func'[h].kernels) <= MaxKernels
  BY <1>2, <1>5
<1>7. \A h \in Func : func'[h].name = NULL => func'[h] = Unused
  BY <1>2, <1>5, Assumed
<1>8. KernelCount(f) \in Nat /\ MaxKernels \in Nat /\ KernelCount(f)' <= MaxKernels
      /\ KernelCount(f)' \in Nat
  <2>1. KernelCount(f) \in Nat /\ MaxKernels \in Nat /\ MaxKernels > 0
    BY <1>1, CountsAreNumbers, Assumed
  <2>2. CASE Live(f)'
    BY <1>6, <2>1, <2>2 DEF KernelCount
  <2>3. CASE ~Live(f)'
    BY <2>1, <2>3 DEF KernelCount
  <2> QED
    BY <2>1, <2>2, <2>3
<1>9. Cardinality(Owned)' = Cardinality(Owned) + n
  <2>1. KernelCount(f)' \in KernelCount(f)..MaxKernels /\ KernelCount(f)' <= KernelCount(f) + 1
    BY <1>8
  <2>2. Cardinality(Owned)' = Cardinality(Owned) + KernelCount(f)' - KernelCount(f)
        /\ Cardinality(Owned) \in Nat
    BY <1>1, <1>3, <1>4, <2>1, OwnedCounts
  <2> QED
    BY <1>8, <2>2
<1> QED
  BY <1>3, <1>5, <1>6, <1>7, <1>9 DEF TableInv

LEMMA EmptyList == IsList(<<>>) /\ Len(<<>>) = 0
BY DEF IsList

LEMMA DeletedKeeps ==
  ASSUME TableInv, NEW name \in Name, Deleted(tbl', func', name), types' = types
  PROVE  TableInv'
<1>1. PICK f \in Func : func[f] = Unused /\ SameTable(tbl') /\ Put(func', f, name, <<>>, 2)
  BY DEF Deleted
<1>2. /\ func[f].name = NULL /\ func'[f].name = name /\ func'[f].dels = 2
      /\ \A h \in Func : h # f => func'[h] = func[h]
  BY <1>1, UnusedFields, PutFields DEF Put
<1>3. ~Live(f) /\ ~Live(f)'
  BY <1>2 DEF Live
<1>4. \A p : Entry(p)' = Entry(p)
  BY <1>1, EntrySame
<1>5. \A p : Entry(p) # f
  BY <1>2, Assumed DEF TableInv, EntriesOK
<1>6. EntriesOK'
  BY <1>2, <1>4, <1>5 DEF TableInv, EntriesOK
<1>7. LiveFound'
  <2>1. ASSUME NEW h \in Func, h # f
        PROVE  Live(h)' <=> \E p : Entry(p)' = h
    BY <1>2, <1>4, <2>1, OthersCount DEF TableInv, LiveFound
  <2>2. Live(f)' <=> \E p : Entry(p)' = f
    BY <1>3, <1>4, <1>5
  <2> QED
    BY <2>1, <2>2 DEF LiveFound
<1>8. KernelCount(f)' = KernelCount(f) + 0
  BY <1>3 DEF KernelCount
<1>9. IsTable(tbl')
  BY <1>1 DEF IsTable, SameTable, Entry, TableInv, TypeOK
<1>10. 0 \in {0, 1} /\ types' = types + 0 /\ Len(<<>>) <= MaxKernels
  BY EmptyList, Assumed, OwnedFinite, FS_CardinalityType DEF TableInv
<1> QED
  BY <1>1, <1>6, <1>7, <1>8, <1>9, <1>10, EmptyList, PutKeeps

LEMMA MadeKeeps ==
  ASSUME TableInv, NEW name \in Name, NEW f \in Func, NEW kernels, IsList(kernels),
         NEW n \in {0, 1}, Len(kernels) = n, Made(tbl', func', name, f, kernels),
         types' = types + n
  PROVE  TableInv'
<1>1. /\ func[f] = Unused /\ Valid(name) /\ Entry(name) = NULL
      /\ OneMore(tbl', name, f) /\ Put(func', f, name, kernels, 0)
  BY DEF Made
<1>2. /\ func[f].name = NULL /\ func[f].dels = 0
      /\ func'[f].name = name /\ func'[f].kernels = kernels /\ func'[f].dels = 0
      /\ \A h \in Func : h # f => func'[h] = func[h]
  BY <1>1, UnusedFields, PutFields DEF Put
<1>3. ~Live(f) /\ Live(f)'
  BY <1>2, Assumed DEF Live
<1>4. \A p : Entry(p)' = IF p = name THEN f ELSE Entry(p)
  BY <1>1, EntryMore
<1>5. \A p : Entry(p) # f
  BY <1>2, Assumed DEF TableInv, EntriesOK
<1>6. EntriesOK'
  BY <1>1, <1>2, <1>4, <1>5 DEF TableInv, EntriesOK, Valid
<1>7. LiveFound'
  <2>1. ASSUME NEW h \in Func, h # f
        PROVE  Live(h)' <=> \E p : Entry(p)' = h
    <3>1. Live(h)' <=> \E p : Entry(p) = h
      BY <1>2, <2>1, OthersCount DEF TableInv, LiveFound
    <3>2. Entry(name) # h
      BY <1>1, Assumed
    <3>3. (\E p : Entry(p)' = h) <=> (\E p : Entry(p) = h)
      BY <1>4, <2>1, <3>2
    <3> QED
      BY <3>1, <3>3
  <2>2. Live(f)' <=> \E p : Entry(p)' = f
    BY <1>3, <1>4
  <2> QED
    BY <2>1, <2>2 DEF LiveFound
<1>8. KernelCount(f)' = KernelCount(f) + n
  BY <1>2, <1>3 DEF KernelCount
<1>9. IsTable(tbl')
  BY <1>1 DEF IsTable, OneMore, Entry, TableInv, TypeOK
<1>10. Len(kernels) <= MaxKernels
  BY Assumed
<1> QED
  BY <1>1, <1>6, <1>7, <1>8, <1>9, <1>10, PutKeeps

LEMMA GrownKeeps ==
  ASSUME TableInv, NEW name \in Name, NEW f \in Func, NEW sig \in Sig, Grown(name, f, sig),
         types' = types + 1
  PROVE  TableInv'
<1> DEFINE kernels == Append(func[f].kernels, sig)
<1>1. /\ Valid(name) /\ f = Entry(name) /\ Len(func[f].kernels) < MaxKernels
      /\ tbl' = tbl /\ Put(func', f, func[f].name, kernels, func[f].dels)
  BY DEF Grown
<1>2. func[f].name = name /\ TypeOK
  BY <1>1, Assumed DEF TableInv, EntriesOK
<1>3. IsList(kernels) /\ Len(kernels) = Len(func[f].kernels) + 1
      /\ Len(func[f].kernels) \in Nat
  <2>1. func[f].kernels \in Seq(Sig)
    BY <1>2 DEF TypeOK, IsList
  <2> QED
    BY <2>1, AppendProperties DEF IsList
<1> HIDE DEF kernels
<1>4. /\ func'[f].name = name /\ func'[f].kernels = kernels /\ func'[f].dels = func[f].dels
      /\ \A h \in Func : h # f => func'[h] = func[h]
  BY <1>1, <1>2, PutFields DEF Put
<1>5. Live(f) /\ Live(f)'
  <2>1. Live(f)
    BY <1>1 DEF TableInv, LiveFound
  <2> QED
    BY <1>2, <1>4, <2>1 DEF Live
<1>6. \A p : Entry(p)' = Entry(p)
  BY <1>1 DEF Entry
<1>7. \A h \in Func : func'[h].name = func[h].name /\ (Live(h)' <=> Live(h))
  BY <1>2, <1>4, <1>5, OthersCount
<1>8. EntriesOK'
  BY <1>6, <1>7 DEF TableInv, EntriesOK
<1>9. LiveFound'
  BY <1>6, <1>7 DEF TableInv, LiveFound
<1>10. KernelCount(f)' = KernelCount(f) + 1
  BY <1>3, <1>4, <1>5 DEF KernelCount
<1>11. Len(kernels) <= MaxKernels
  BY <1>1, <1>3, Assumed
<1>12. IsTable(tbl')
  BY <1>1 DEF TableInv, TypeOK
<1>13. Put(func', f, name, kernels, func[f].dels)
  BY <1>1, <1>2
<1> QED
  BY <1>3, <1>8, <1>9, <1>10, <1>11, <1>12, <1>13, PutKeeps

LEMMA OneKernel ==
  ASSUME NEW sig \in Sig
  PROVE  IsList(<<sig>>) /\ Len(<<sig>>) = 1
BY DEF IsList

LEMMA EffectKeeps ==
  ASSUME TableInv, NEW name \in Name, Effect(name)
  PROVE  TableInv'
<1>1. CASE Nothing(tbl', func') /\ types' = types
  BY <1>1, NothingKeeps
<1>2. CASE Deleted(tbl', func', name) /\ types' = types
  BY <1>2, DeletedKeeps
<1>3. CASE \E f \in Func : Made(tbl', func', name, f, <<>>) /\ types' = types
  <2>1. types' = types + 0
    BY <1>3, OwnedFinite, FS_CardinalityType DEF TableInv
  <2> QED
    BY <1>3, <2>1, EmptyList, MadeKeeps
<1>4. CASE \E f \in Func, sig \in Sig :
              Made(tbl', func', name, f, <<sig>>) /\ types' = types + 1
  BY <1>4, OneKernel, MadeKeeps
<1>5. CASE \E f \in Func, sig \in Sig : Grown(name, f, sig) /\ types' = types + 1
  BY <1>5, GrownKeeps
<1> QED
  BY <1>1, <1>2, <1>3, <1>4, <1>5 DEF Effect

LEMMA NextEffect ==
  ASSUME TableInv, Next
  PROVE  \E name \in Name : Effect(name)
<1>1. PICK name \in Name : \/ AddFunc(name)
                           \/ \E sig \in Sig, typecheck \in BOOLEAN : AddKernel(name, sig, typecheck)
  BY DEF Next
<1>2. TypeOK
  BY DEF TableInv
<1> QED
  BY <1>1, <1>2, AddFuncEffect, AddKernelEffect

LEMMA TableKeeps ==
  ASSUME TableInv, [Next]_vars
  PROVE  TableInv'
<1>1. CASE Next
  BY <1>1, NextEffect, EffectKeeps
<1>2. CASE UNCHANGED vars
  <2>1. tbl' = tbl /\ func' = func /\ types' = types
    BY <1>2 DEF vars
  <2>2. Nothing(tbl', func')
    BY <2>1 DEF Nothing, SameTable, Entry
  <2> QED
    BY <2>1, <2>2, NothingKeeps
<1> QED
  BY <1>1, <1>2

THEOREM TableInvHolds == Spec => []TableInv
  BY InitTable, TableKeeps, PTL DEF Spec

-----------------------------------------------------------------------------
(* The properties.                                                         *)

\* Every function that was not deleted is found under its name alone, every
\* parsed signature is one of its kernels, within GM_MAX_KERNELS.
THEOREM TableOwns == Spec => []TableOwnsAll
<1>1. ASSUME TableInv
      PROVE  TableOwnsAll
  <2>1. \A p \in DOMAIN tbl : Entry(p) = tbl[p]
    BY DEF Entry
  <2>2. \A f \in Func : Live(f) <=> \E p \in DOMAIN tbl : tbl[p] = f
    BY <1>1, Assumed DEF TableInv, LiveFound, Entry
  <2>3. \A p \in DOMAIN tbl : tbl[p] # NULL => func[tbl[p]].name = p
    BY <1>1, <2>1 DEF TableInv, EntriesOK
  <2>4. \A f \in Func : Len(func[f].kernels) <= MaxKernels
    BY <1>1 DEF TableInv
  <2>5. types = Cardinality({x \in Func \X (1..MaxKernels) :
                                Live(x[1]) /\ x[2] <= Len(func[x[1]].kernels)})
    BY <1>1 DEF TableInv, Owned
  <2> QED
    BY <2>2, <2>3, <2>4, <2>5 DEF TableOwnsAll
<1> QED
  BY <1>1, TableInvHolds, PTL

\* Only valid names have functions.
LEMMA FoundEntry ==
  ASSUME TableInv, NEW n
  PROVE  gm_tbl_find(n) = Entry(n)
<1>1. CASE Valid(n)
  BY <1>1 DEF gm_tbl_find, Entry
<1>2. CASE ~Valid(n)
  BY <1>2 DEF gm_tbl_find, TableInv, EntriesOK
<1> QED
  BY <1>1, <1>2

\* The kernels found under a name, NULL if it has no function.
KernelsOf(n) == IF Entry(n) = NULL THEN NULL ELSE func[Entry(n)].kernels

LEMMA EntriesApart ==
  ASSUME TableInv, NEW m, NEW n, Entry(m) # NULL, m # n
  PROVE  Entry(m) # Entry(n)
BY DEF TableInv, EntriesOK

\* A step adds a name, or a kernel at the end of the list of a name, or both.
LEMMA EffectKernels ==
  ASSUME TableInv, NEW name \in Name, Effect(name)
  PROVE  \/ \A n : KernelsOf(n)' = KernelsOf(n)
         \/ /\ \A n : n # name => KernelsOf(n)' = KernelsOf(n)
            /\ \/ KernelsOf(name) = NULL /\ KernelsOf(name)' = <<>>
               \/ \E sig \in Sig : KernelsOf(name) = NULL /\ KernelsOf(name)' = <<sig>>
               \/ \E sig \in Sig : /\ KernelsOf(name) # NULL /\ IsList(KernelsOf(name))
                                   /\ Len(KernelsOf(name)) < MaxKernels
                                   /\ KernelsOf(name)' = Append(KernelsOf(name), sig)
<1>0. \A p : Entry(p) # NULL => Entry(p) \in Func /\ func[Entry(p)].name = p
  BY DEF TableInv, EntriesOK
<1>1. CASE Nothing(tbl', func')
  <2>1. \A n : Entry(n)' = Entry(n)
    BY <1>1, EntrySame DEF Nothing
  <2> QED
    BY <1>1, <2>1 DEF KernelsOf, Nothing
<1>2. CASE Deleted(tbl', func', name)
  <2>1. PICK f \in Func : func[f] = Unused /\ SameTable(tbl') /\ Put(func', f, name, <<>>, 2)
    BY <1>2 DEF Deleted
  <2>2. \A n : Entry(n)' = Entry(n)
    BY <2>1, EntrySame
  <2>3. func[f].name = NULL
    BY <2>1, UnusedFields
  <2>4. \A p : Entry(p) # f
    BY <1>0, <2>3, Assumed DEF TableInv, EntriesOK
  <2>5. \A h \in Func : h # f => func'[h] = func[h]
    BY <2>1 DEF Put
  <2>6. \A n : KernelsOf(n)' = KernelsOf(n)
    BY <1>0, <2>2, <2>4, <2>5 DEF KernelsOf
  <2> QED
    BY <2>6
<1>3. ASSUME NEW f \in Func, NEW kernels, Made(tbl', func', name, f, kernels)
      PROVE  /\ \A n : n # name => KernelsOf(n)' = KernelsOf(n)
             /\ KernelsOf(name) = NULL /\ KernelsOf(name)' = kernels
  <2>1. /\ func[f] = Unused /\ Entry(name) = NULL
        /\ OneMore(tbl', name, f) /\ Put(func', f, name, kernels, 0)
    BY <1>3 DEF Made
  <2>2. \A p : Entry(p)' = IF p = name THEN f ELSE Entry(p)
    BY <2>1, EntryMore
  <2>3. func[f].name = NULL
    BY <2>1, UnusedFields
  <2>4. \A p : Entry(p) # f
    BY <1>0, <2>3, Assumed DEF TableInv, EntriesOK
  <2>5. func'[f].kernels = kernels /\ \A h \in Func : h # f => func'[h] = func[h]
    BY <2>1, PutFields DEF Put
  <2>6. \A n : n # name => KernelsOf(n)' = KernelsOf(n)
    BY <1>0, <2>2, <2>4, <2>5 DEF KernelsOf
  <2>7. KernelsOf(name) = NULL /\ KernelsOf(name)' = kernels
    BY <2>1, <2>2, <2>5, Assumed DEF KernelsOf
  <2> QED
    BY <2>6, <2>7
<1>4. ASSUME NEW f \in Func, NEW sig \in Sig, Grown(name, f, sig)
      PROVE  /\ \A n : n # name => KernelsOf(n)' = KernelsOf(n)
             /\ KernelsOf(name) # NULL /\ IsList(KernelsOf(name))
             /\ Len(KernelsOf(name)) < MaxKernels
             /\ KernelsOf(name)' = Append(KernelsOf(name), sig)
  <2>1. /\ f = Entry(name) /\ Len(func[f].kernels) < MaxKernels /\ tbl' = tbl
        /\ Put(func', f, func[f].name, Append(func[f].kernels, sig), func[f].dels)
    BY <1>4 DEF Grown
  <2>2. \A p : Entry(p)' = Entry(p)
    BY <2>1 DEF Entry
  <2>3. func'[f].kernels = Append(func[f].kernels, sig)
        /\ \A h \in Func : h # f => func'[h] = func[h]
    BY <2>1, PutFields DEF Put
  <2>4. Entry(name) # NULL /\ IsList(func[f].kernels)
    BY <2>1, Assumed DEF TableInv, TypeOK
  <2>5. KernelsOf(name) = func[f].kernels
    BY <2>1, <2>4 DEF KernelsOf
  <2>6. KernelsOf(name)' = func'[f].kernels
    BY <2>1, <2>2, <2>4 DEF KernelsOf
  <2>7. func[f].kernels # NULL
    BY <2>4, Assumed DEF IsList
  <2>8. ASSUME NEW n, n # name
        PROVE  KernelsOf(n)' = KernelsOf(n)
    <3>1. CASE Entry(n) = NULL
      BY <2>2, <3>1 DEF KernelsOf
    <3>2. CASE Entry(n) # NULL
      <4>1. Entry(n) # f /\ Entry(n) \in Func
        BY <1>0, <2>1, <2>8, <3>2, EntriesApart
      <4> QED
        BY <2>2, <2>3, <4>1 DEF KernelsOf
    <3> QED
      BY <3>1, <3>2
  <2> QED
    BY <2>1, <2>3, <2>4, <2>5, <2>6, <2>7, <2>8
<1> QED
  BY <1>1, <1>2, <1>3, <1>4 DEF Effect

-----------------------------------------------------------------------------
(* The selection of a kernel.                                              *)

Accepting(kernels, type) == {i \in 1..Len(kernels) : Accepts(kernels[i], type)}

Chosen(kernels, type) ==
  IF Accepting(kernels, type) # {} THEN Min(Accepting(kernels, type)) ELSE 0

LEMMA SelectChosen ==
  ASSUME NEW name, NEW type
  PROVE  gm_select(name, type) =
            IF gm_tbl_find(name) = NULL THEN 0
            ELSE Chosen(func[gm_tbl_find(name)].kernels, type)
BY DEF gm_select, SelectInSeq, Chosen, Accepting

LEMMA MinIs ==
  ASSUME NEW S, S \subseteq Nat, NEW m \in S, \A j \in S : m <= j
  PROVE  Min(S) = m
<1>1. Min(S) \in S /\ \A j \in S : Min(S) <= j
  BY DEF Min
<1>2. m \in Nat /\ Min(S) \in Nat /\ Min(S) <= m /\ m <= Min(S)
  BY <1>1
<1> QED
  BY <1>2

\* A kernel at the end is chosen only where none was before.
LEMMA ChosenStays ==
  ASSUME NEW kernels, IsList(kernels), NEW sig \in Sig, NEW type, Chosen(kernels, type) # 0
  PROVE  Chosen(Append(kernels, sig), type) = Chosen(kernels, type)
<1> DEFINE S == Accepting(kernels, type)
           T == Accepting(Append(kernels, sig), type)
           n == Len(kernels)
<1>1. /\ n \in Nat /\ Len(Append(kernels, sig)) = n + 1
      /\ \A i \in 1..n : Append(kernels, sig)[i] = kernels[i]
  BY AppendProperties DEF IsList
<1>2. S # {} /\ Chosen(kernels, type) = Min(S)
  BY DEF Chosen
<1>3. S \subseteq 1..n /\ S \subseteq Nat /\ T \subseteq 1..(n + 1)
  BY <1>1 DEF Accepting
<1>4. S \subseteq T /\ T \subseteq S \cup {n + 1}
  <2>1. ASSUME NEW i \in 1..n
        PROVE  i \in S <=> i \in T
    <3>1. i \in 1..(n + 1) /\ Append(kernels, sig)[i] = kernels[i]
      BY <1>1
    <3> QED
      BY <1>1, <3>1 DEF Accepting
  <2>2. \A i \in 1..(n + 1) : i \in 1..n \/ i = n + 1
    BY <1>1
  <2> HIDE DEF S, T
  <2> QED
    BY <1>3, <2>1, <2>2
<1>5. PICK m \in S : \A j \in S : m <= j
  BY <1>2, <1>3, Least
<1>6. m \in T /\ \A j \in T : m <= j
  <2>1. m \in 1..n
    BY <1>3, <1>5
  <2>2. m <= n + 1
    BY <1>1, <2>1
  <2> HIDE DEF S, T
  <2> QED
    BY <1>4, <1>5, <2>2
<1>7. Min(S) = m
  BY <1>3, <1>5, MinIs
<1>8. Min(T) = m /\ T # {}
  <2>1. T \subseteq Nat
    BY <1>1, <1>3
  <2> QED
    BY <1>6, <2>1, MinIs
<1> QED
  BY <1>2, <1>7, <1>8 DEF Chosen

LEMMA SelectKernels ==
  ASSUME TableInv, NEW name, NEW type
  PROVE  gm_select(name, type) =
            IF KernelsOf(name) = NULL THEN 0 ELSE Chosen(KernelsOf(name), type)
<1>1. gm_tbl_find(name) = Entry(name)
  BY FoundEntry
<1>2. Entry(name) # NULL => func[Entry(name)].kernels # NULL
  BY Assumed DEF TableInv, EntriesOK, TypeOK, IsList
<1> QED
  BY <1>1, <1>2, SelectChosen DEF KernelsOf

SelectionFromKernels ==
  \A name, type : gm_select(name, type) =
                     IF KernelsOf(name) = NULL THEN 0 ELSE Chosen(KernelsOf(name), type)

LEMMA SelectionRead == TableInv => SelectionFromKernels
BY SelectKernels DEF SelectionFromKernels

LEMMA SelectionStays ==
  ASSUME TableInv, TableInv', NEW n \in Name, Effect(n), NEW name, NEW type,
         gm_select(name, type) # 0
  PROVE  gm_select(name, type)' = gm_select(name, type)
<1>1. SelectionFromKernels
  BY SelectionRead
<1>2. SelectionFromKernels'
  BY SelectionRead, PTL
<1>3. /\ KernelsOf(name) # NULL /\ Chosen(KernelsOf(name), type) # 0
      /\ gm_select(name, type) = Chosen(KernelsOf(name), type)
  BY <1>1 DEF SelectionFromKernels
<1>4. \/ KernelsOf(name)' = KernelsOf(name)
      \/ \E sig \in Sig : /\ IsList(KernelsOf(name))
                          /\ KernelsOf(name)' = Append(KernelsOf(name), sig)
  BY <1>3, EffectKernels
<1>5. KernelsOf(name)' # NULL
  <2>1. ASSUME NEW kernels, IsList(kernels), NEW sig \in Sig
        PROVE  Append(kernels, sig) # NULL
    BY <2>1, Assumed, AppendProperties DEF IsList
  <2> QED
    BY <1>3, <1>4, <2>1
<1>6. Chosen(KernelsOf(name)', type) = Chosen(KernelsOf(name), type)
  BY <1>3, <1>4, ChosenStays
<1>7. gm_select(name, type)' = Chosen(KernelsOf(name)', type)
  BY <1>2, <1>5 DEF SelectionFromKernels
<1> QED
  BY <1>3, <1>6, <1>7

\* No step changes the kernel of arguments that had one.
THEOREM SelectionIsStable == Spec => SelectionStable
<1> DEFINE A == \A name \in Name, type \in ArgType :
                   gm_select(name, type) # 0 => gm_select(name, type)' = gm_select(name, type)
<1>1. ASSUME TableInv, TableInv', [Next]_vars
      PROVE  [A]_vars
  <2>1. CASE UNCHANGED vars
    BY <2>1
  <2>2. CASE Next
    <3>1. PICK n \in Name : Effect(n)
      BY <1>1, <2>2, NextEffect
    <3> QED
      BY <1>1, <3>1, SelectionStays
  <2> QED
    BY <1>1, <2>1, <2>2
<1>2. SelectionStable <=> [][A]_vars
  BY DEF SelectionStable
<1> HIDE DEF A
<1> QED
  BY <1>1, <1>2, TableInvHolds, PTL DEF Spec

-----------------------------------------------------------------------------
(* The refinement.                                                         *)

RegistryIs == registry = [n \in Name |-> KernelsOf(n)]

LEMMA RegistryRead == TableInv => RegistryIs
<1> SUFFICES ASSUME TableInv PROVE RegistryIs
  OBVIOUS
<1>1. \A n \in Name : gm_tbl_find(n) = Entry(n)
  BY FoundEntry
<1> QED
  BY <1>1 DEF RegistryIs, registry, KernelsOf

LEMMA RegistryInit ==
  ASSUME Init
  PROVE  Registry!Init
<1>1. TableInv
  BY InitTable
<1>2. RegistryIs
  BY <1>1, RegistryRead
<1>3. \A n : Entry(n) = NULL
  BY DEF Init, Entry
<1> QED
  BY <1>2, <1>3 DEF Registry!Init, RegistryIs, KernelsOf

LEMMA RegistryStep ==
  ASSUME TableInv, TableInv', NEW name \in Name, Effect(name)
  PROVE  Registry!Next \/ UNCHANGED registry
<1>1. RegistryIs
  BY RegistryRead
<1>2. RegistryIs'
  BY RegistryRead, PTL
<1>3. CASE \A n : KernelsOf(n)' = KernelsOf(n)
  BY <1>1, <1>2, <1>3 DEF RegistryIs
<1>4. ASSUME NEW kernels, \A n : n # name => KernelsOf(n)' = KernelsOf(n),
             KernelsOf(name)' = kernels
      PROVE  registry' = [registry EXCEPT ![name] = kernels]
  BY <1>1, <1>2, <1>4 DEF RegistryIs
<1>5. registry[name] = KernelsOf(name)
  BY <1>1 DEF RegistryIs
<1>6. ASSUME \A n : n # name => KernelsOf(n)' = KernelsOf(n),
             KernelsOf(name) = NULL, KernelsOf(name)' = <<>>
      PROVE  Registry!Create(name)
  BY <1>4, <1>5, <1>6 DEF Registry!Create
<1>7. ASSUME \A n : n # name => KernelsOf(n)' = KernelsOf(n), NEW sig \in Sig,
             KernelsOf(name) = NULL, KernelsOf(name)' = <<sig>>
      PROVE  Registry!AddKernel(name, sig)
  <2>1. Append(<<>>, sig) = <<sig>> /\ Len(<<>>) < MaxKernels
    BY Assumed
  <2>2. registry' = [registry EXCEPT ![name] = <<sig>>]
    BY <1>4, <1>7
  <2> QED
    BY <1>5, <1>7, <2>1, <2>2 DEF Registry!AddKernel
<1>8. ASSUME \A n : n # name => KernelsOf(n)' = KernelsOf(n), NEW sig \in Sig,
             KernelsOf(name) # NULL, Len(KernelsOf(name)) < MaxKernels,
             KernelsOf(name)' = Append(KernelsOf(name), sig)
      PROVE  Registry!AddKernel(name, sig)
  <2>1. registry' = [registry EXCEPT ![name] = Append(KernelsOf(name), sig)]
    BY <1>4, <1>8
  <2> QED
    BY <1>5, <1>8, <2>1 DEF Registry!AddKernel
<1> QED
  BY <1>3, <1>6, <1>7, <1>8, EffectKernels DEF Registry!Next

\* The table, with its trie and its functions that own their kernels, is a map
\* from names to lists of kernels that only grow.
THEOREM RegistryImplemented == Spec => ImplementsRegistry
<1>1. Init => Registry!Init
  BY RegistryInit
<1>2. TableInv /\ TableInv' /\ [Next]_vars => [Registry!Next]_registry
  <2>1. ASSUME TableInv, TableInv', Next
        PROVE  Registry!Next \/ UNCHANGED registry
    BY <2>1, NextEffect, RegistryStep
  <2>2. ASSUME UNCHANGED vars
        PROVE  UNCHANGED registry
    BY <2>2 DEF vars, registry, gm_tbl_find
  <2> QED
    BY <2>1, <2>2
<1> QED
  BY <1>1, <1>2, TableInvHolds, PTL DEF Spec, ImplementsRegistry, Registry!Spec
=============================================================================
