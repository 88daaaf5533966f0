----------------------------- MODULE XndMemory -----------------------------
(***************************************************************************)
(* Memory blocks with embedded pointers: xnd_new, xnd_init, xnd_clear and  *)
(* xnd_del (xnd.c), assignment of Python values (mblock_init in _xnd.c)    *)
(* and of other containers (xnd_copy).  Memory is a set of blocks of       *)
(* words.  A word is 0, a pointer (a positive block number), or data (a    *)
(* negative number: a scalar, a size, a shape or a union tag); a member of *)
(* a union gives the words that an earlier member left a meaning of its    *)
(* own.  Containers own everything embedded (XND_OWN_EMBEDDED).            *)
(***************************************************************************)
EXTENDS Integers, Sequences, FiniteSets, FiniteSetsExt, SequencesExt, Functions

CONSTANTS Types,        \* the types that containers have, one in a behaviour
          Containers,   \* the xnd containers of each type
          Values,       \* the Python values that are assigned, by type
          EmptyBudgets, \* numbers of allocations that succeed in xnd_empty
          Budgets,      \* and in an assignment
          Copies,       \* pairs of destination and source of an assignment
          MaxBlocks     \* a bound on the block numbers

VARIABLES type,         \* the type of the containers
          mem,          \* the live blocks: number -> words
          root,         \* Containers -> the master block, or 0
          crash,        \* an access through, or a release of, a bad pointer
          done          \* the last call, for the properties

vars == <<type, mem, root, crash, done>>

Sum(s) == FoldLeft(+, 0, s)
RECURSIVE Size(_)
Size(t) ==
    CASE t.tag \in {"Scalar", "String", "Ref"} -> 1
      [] t.tag \in {"Bytes", "Array"} -> 2
      [] t.tag = "FixedDim" -> t.shape * Size(t.type)
      [] t.tag = "Tuple" -> Sum([i \in DOMAIN t.types |-> Size(t.types[i])])
      [] t.tag = "Union" -> 1 + Max({Size(t.types[i]) : i \in DOMAIN t.types})

---------------------------------------------------------------------------
\* A run of the C code on a memory M: the blocks, the allocations that still
\* succeed, whether the last call returned 0, and whether it crashed.
Run(budget) == [mem |-> mem, budget |-> budget, ok |-> TRUE, crash |-> FALSE, new |-> 0]
Crash(M) == [M EXCEPT !.crash = TRUE, !.ok = FALSE]

Mapped(M, p)  == p.b \in DOMAIN M.mem
Word(M, p)    == M.mem[p.b][p.o]
Put(M, p, w)  == [M EXCEPT !.mem[p.b][p.o] = w]
At(p, n)      == [p EXCEPT !.o = @ + n]
Start(b)      == [b |-> b, o |-> 1]

\* A number that no word holds, so that a dangling pointer stays dangling.
Fresh(m) == Min((1 .. MaxBlocks) \ (DOMAIN m \cup UNION {Range(m[b]) : b \in DOMAIN m}))

calloc(M, n) ==
    IF M.crash THEN M
    ELSE IF M.budget = 0 THEN [M EXCEPT !.ok = FALSE]
    ELSE [M EXCEPT !.mem = [b \in DOMAIN @ \cup {Fresh(@)} |->
                               IF b = Fresh(M.mem) THEN [i \in 1 .. n |-> 0] ELSE @[b]],
                   !.budget = @ - 1, !.new = Fresh(M.mem), !.ok = TRUE]

free(M, w) ==
    IF w = 0 \/ M.crash THEN M
    ELSE IF w \in DOMAIN M.mem
      THEN [M EXCEPT !.mem = [b \in DOMAIN @ \ {w} |-> @[b]]]
    ELSE Crash(M)

\* Fields of dimensions and tuples, members of unions, targets of pointers.
Fields(M, t, p) ==
    CASE t.tag = "FixedDim" -> t.shape
      [] t.tag = "Tuple"    -> Len(t.types)
      [] t.tag = "Array"    -> - Word(M, p)
FieldType(t, i) == IF t.tag = "Tuple" THEN t.types[i] ELSE t.type
FieldAt(M, t, p, i) ==
    CASE t.tag = "FixedDim" -> At(p, (i - 1) * Size(t.type))
      [] t.tag = "Tuple" -> At(p, Sum([j \in 1 .. i - 1 |-> Size(t.types[j])]))
      [] t.tag = "Array" -> At(Start(Word(M, At(p, 1))), (i - 1) * Size(t.type))
Member(M, t, p) == t.types[1 - Word(M, p)]
Target(M, p) == Start(Word(M, p))

---------------------------------------------------------------------------
(***************************************************************************)
(* xnd_clear: release what is embedded, and leave NULL pointers.           *)
(***************************************************************************)
clear_pointer_Kept(M, p) == free(M, Word(M, p))
clear_pointer(M, p) == IF M.crash THEN M ELSE Put(free(M, Word(M, p)), p, 0)
clear_sized(M, p) ==                           \* bytes and flexible arrays
    IF M.crash THEN M
    ELSE Put(Put(free(M, Word(M, At(p, 1))), p, 0), At(p, 1), 0)

RECURSIVE xnd_clear(_, _, _), clear_fields(_, _, _, _)
clear_fields(M, t, p, i) ==
    IF M.crash THEN M
    ELSE IF i > Fields(M, t, p) THEN M
    ELSE clear_fields(xnd_clear(M, FieldType(t, i), FieldAt(M, t, p, i)), t, p, i + 1)

xnd_clear(M, t, p) ==
    IF M.crash \/ t.tag = "Scalar" THEN M
    ELSE IF t.tag \in {"FixedDim", "Tuple"} THEN clear_fields(M, t, p, 1)
    ELSE IF ~Mapped(M, p) THEN Crash(M)
    ELSE CASE t.tag = "String" -> clear_pointer(M, p)
           [] t.tag = "Bytes"  -> clear_sized(M, p)
           [] t.tag = "Array"  -> clear_sized(clear_fields(M, t, p, 1), p)
           [] t.tag = "Union"  -> xnd_clear(M, Member(M, t, p), At(p, 1))
           [] t.tag = "Ref"    -> clear_pointer(xnd_clear(M, t.type, Target(M, p)), p)

(***************************************************************************)
(* xnd_init: allocate the targets of references.  A failing member of a    *)
(* tuple, a union or a reference is cleared by its parent.                 *)
(***************************************************************************)
OrClear(M, t, p) == IF M.ok THEN M ELSE [xnd_clear(M, t, p) EXCEPT !.ok = FALSE]

RECURSIVE xnd_init(_, _, _), init_fields(_, _, _, _), init_ref(_, _, _)
init_fields(M, t, p, i) ==
    IF ~M.ok \/ i > Fields(M, t, p) THEN M
    ELSE IF t.tag = "FixedDim"
      THEN init_fields(xnd_init(M, t.type, FieldAt(M, t, p, i)), t, p, i + 1)
      ELSE init_fields(OrClear(xnd_init(M, t.types[i], FieldAt(M, t, p, i)),
                               t.types[i], FieldAt(M, t, p, i)), t, p, i + 1)

init_ref(M, t, p) ==
    IF ~M.ok THEN M
    ELSE OrClear(xnd_init(Put(M, p, M.new), t.type, Start(M.new)), t.type, Start(M.new))

xnd_init(M, t, p) ==
    CASE t.tag \in {"Scalar", "String", "Bytes", "Array"} -> M
      [] t.tag \in {"FixedDim", "Tuple"} -> init_fields(M, t, p, 1)
      [] t.tag = "Union" -> OrClear(xnd_init(M, Member(M, t, p), At(p, 1)),
                                    Member(M, t, p), At(p, 1))
      [] t.tag = "Ref" -> init_ref(calloc(M, Size(t.type)), t, p)

\* xnd_new: the master block, released again when xnd_init fails.
new_init(M) == IF ~M.ok THEN [M EXCEPT !.new = 0]
               ELSE [xnd_init(M, type, Start(M.new)) EXCEPT !.new = M.new]
new_free_Leak(M) == IF M.ok \/ M.crash THEN M ELSE [M EXCEPT !.new = 0, !.ok = FALSE]
new_free(M) == IF M.ok \/ M.crash THEN M ELSE [free(M, M.new) EXCEPT !.new = 0, !.ok = FALSE]
xnd_new(M) == new_free(new_init(calloc(M, Size(type))))

(***************************************************************************)
(* mblock_init: assign a Python value.  A value that does not fit its type *)
(* is not ok; what was assigned before it stays.                           *)
(***************************************************************************)
Fail(M) == [M EXCEPT !.ok = FALSE]

assign_string(M, p) == IF ~M.ok THEN M ELSE Put(free(M, Word(M, p)), p, M.new)
assign_bytes(M, p, n) ==
    IF ~M.ok THEN M
    ELSE Put(Put(free(M, Word(M, At(p, 1))), p, - n), At(p, 1), M.new)

RECURSIVE mblock_init(_, _, _, _), assign_fields(_, _, _, _, _)
assign_fields(M, t, p, v, i) ==
    IF ~M.ok \/ M.crash THEN M
    ELSE IF i > Len(v.items) THEN M
    ELSE assign_fields(mblock_init(M, FieldType(t, i), FieldAt(M, t, p, i), v.items[i]),
                       t, p, v, i + 1)

\* The new member of a union: the old one is cleared, the tag set.
switch(M, t, p, tag) ==
    IF xnd_clear(M, t, p).crash THEN Crash(M) ELSE Put(xnd_clear(M, t, p), p, - tag)

new_array(M, t, p, v) ==
    IF ~M.ok THEN M
    ELSE IF xnd_clear(M, t, p).crash THEN Crash(M)
    ELSE assign_fields(Put(Put(xnd_clear(M, t, p), p, - Len(v.items)), At(p, 1), M.new),
                       t, p, v, 1)

mblock_init(M, t, p, v) ==
    IF ~M.ok \/ M.crash THEN M
    ELSE IF ~v.ok THEN Fail(M)
    ELSE IF t.tag \in {"FixedDim", "Tuple"} THEN assign_fields(M, t, p, v, 1)
    ELSE IF t.tag = "Ref"
      THEN IF Word(M, p) = 0 THEN Fail(M) ELSE mblock_init(M, t.type, Target(M, p), v)
    ELSE CASE t.tag = "Scalar" -> Put(M, p, - v.n)
           [] t.tag = "String" -> assign_string(calloc(M, 0), p)
           [] t.tag = "Bytes"  -> assign_bytes(calloc(M, 0), p, v.n)
           [] t.tag = "Array"  ->
                new_array(calloc(M, Len(v.items) * Size(t.type)), t, p, v)
           [] t.tag = "Union"  ->
                mblock_init(switch(M, t, p, v.n), t.types[v.n + 1], At(p, 1), v.items[1])

(***************************************************************************)
(* xnd_copy, between containers of one type.                               *)
(***************************************************************************)
RECURSIVE xnd_copy(_, _, _, _), copy_fields(_, _, _, _, _)
copy_fields(M, t, y, x, i) ==
    IF ~M.ok \/ M.crash THEN M
    ELSE IF i > Fields(M, t, x) THEN M
    ELSE copy_fields(xnd_copy(M, FieldType(t, i), FieldAt(M, t, y, i), FieldAt(M, t, x, i)),
                     t, y, x, i + 1)

copy_array_ShapeKept(M, t, y, x) ==
    IF ~M.ok THEN M
    ELSE copy_fields(Put(free(M, Word(M, At(y, 1))), At(y, 1), M.new), t, y, x, 1)
copy_array(M, t, y, x) ==
    IF ~M.ok THEN M
    ELSE copy_fields(Put(Put(free(M, Word(M, At(y, 1))), y, Word(M, x)), At(y, 1), M.new),
                     t, y, x, 1)

xnd_copy(M, t, y, x) ==
    IF ~M.ok \/ M.crash THEN M
    ELSE IF t.tag \in {"FixedDim", "Tuple"} THEN copy_fields(M, t, y, x, 1)
    ELSE IF ~Mapped(M, x) \/ ~Mapped(M, y) THEN Fail(M)         \* copy_ref
    ELSE CASE t.tag = "Scalar" -> Put(M, y, Word(M, x))
           [] t.tag = "Ref"    -> xnd_copy(M, t.type, Target(M, y), Target(M, x))
           [] t.tag = "String" ->
                IF Word(M, x) # 0 /\ ~Mapped(M, Target(M, x)) THEN Crash(M)
                ELSE assign_string(calloc(M, 0), y)
           [] t.tag = "Bytes"  ->
                IF Word(M, x) # 0 /\ ~Mapped(M, Target(M, At(x, 1))) THEN Crash(M)
                ELSE assign_bytes(calloc(M, 0), y, - Word(M, x))
           [] t.tag = "Array"  ->
                copy_array(calloc(M, - Word(M, x) * Size(t.type)), t, y, x)
           [] t.tag = "Union"  ->
                xnd_copy(Put(M, y, Word(M, x)), Member(M, t, x), At(y, 1), At(x, 1))

\* xnd_del_buffer.
del(M, b) == LET C == xnd_clear(M, type, Start(b)) IN IF C.crash THEN C ELSE free(C, b)

---------------------------------------------------------------------------
\* The value that reading gives; pointers to strings and bytes are not data.
RECURSIVE Read(_, _, _)
Read(m, t, p) ==
    CASE t.tag = "Scalar" -> <<m[p.b][p.o]>>
      [] t.tag = "String" -> <<>>
      [] t.tag = "Bytes"  -> <<m[p.b][p.o]>>
      [] t.tag = "Ref"    -> Read(m, t.type, Start(m[p.b][p.o]))
      [] t.tag = "Union"  ->
           <<m[p.b][p.o]>> \o Read(m, t.types[1 - m[p.b][p.o]], At(p, 1))
      [] OTHER ->
           LET n == Fields([mem |-> m], t, p)
           IN  FoldLeft(LAMBDA s, i : s \o Read(m, FieldType(t, i),
                                               FieldAt([mem |-> m], t, p, i)),
                        <<n>>, [i \in 1 .. n |-> i])

Nothing == [op |-> "none", c |-> "", want |-> <<>>]

Init == /\ type \in Types /\ mem = << >> /\ root = [c \in Containers[type] |-> 0]
        /\ crash = FALSE /\ done = Nothing

\* The state after a run.
After(M) == mem' = M.mem /\ crash' = M.crash /\ UNCHANGED type

Empty(c, budget) ==
    /\ root[c] = 0
    /\ \E M \in {xnd_new(Run(budget))} :
          After(M) /\ root' = [root EXCEPT ![c] = M.new]
    /\ done' = Nothing

\* An element of a tuple, or the whole container, is assigned (pyxnd_assign).
Places(c) == {[t |-> type, p |-> Start(root[c])]} \cup
             (IF type.tag # "Tuple" THEN {}
              ELSE {[t |-> type.types[i],
                     p |-> FieldAt([mem |-> mem], type, Start(root[c]), i)]
                       : i \in DOMAIN type.types})

Assign(c, budget) ==
    /\ root[c] # 0
    /\ \E at \in Places(c) : \E v \in Values[at.t] :
          \E M \in {mblock_init(Run(budget), at.t, at.p, v)} : After(M)
    /\ done' = Nothing /\ UNCHANGED root

Copy(c, d, budget) ==
    /\ root[c] # 0 /\ root[d] # 0 /\ <<c, d>> \in Copies
    /\ \E M \in {xnd_copy(Run(budget), type, Start(root[c]), Start(root[d]))} :
          /\ After(M)
          /\ done' = IF ~M.ok THEN Nothing
                     ELSE [op |-> "copy", c |-> c, want |-> Read(mem, type, Start(root[d]))]
    /\ UNCHANGED root

Delete(c) ==
    /\ root[c] # 0
    /\ \E M \in {del(Run(0), root[c])} : After(M)
    /\ root' = [root EXCEPT ![c] = 0] /\ done' = Nothing

Next == /\ ~crash
        /\ \/ \E c \in Containers[type], n \in EmptyBudgets : Empty(c, n)
           \/ \E c \in Containers[type], n \in Budgets : Assign(c, n)
           \/ \E c, d \in Containers[type], n \in Budgets : Copy(c, d, n)
           \/ \E c \in Containers[type] : Delete(c)
Spec == Init /\ [][Next]_vars

---------------------------------------------------------------------------
\* The words of a container that its type reads as pointers, NULL left out.
RECURSIVE Owned(_, _, _)
Owned(m, t, p) ==
    LET w(n) == m[p.b][p.o + n]
        Pointer(n) == IF w(n) = 0 THEN <<>> ELSE <<w(n)>>
        Below == LET count == Fields([mem |-> m], t, p)
                    IN  FoldLeft(LAMBDA s, i : s \o Owned(m, FieldType(t, i),
                                                          FieldAt([mem |-> m], t, p, i)),
                                 <<>>, [i \in 1 .. count |-> i])
    IN  CASE t.tag = "Scalar" -> <<>>
          [] t.tag = "String" -> Pointer(0)
          [] t.tag = "Bytes"  -> Pointer(1)
          [] t.tag = "Ref"    ->
               Pointer(0) \o (IF w(0) \in DOMAIN m THEN Owned(m, t.type, Start(w(0))) ELSE <<>>)
          [] t.tag = "Array"  ->
               Pointer(1) \o (IF w(1) \in DOMAIN m THEN Below ELSE <<>>)
          [] t.tag = "Union"  -> Owned(m, t.types[1 - w(0)], At(p, 1))
          [] OTHER            -> Below

Embedded(c) == IF root[c] = 0 THEN <<>> ELSE Owned(mem, type, Start(root[c]))

(***************************************************************************)
(* PointersValid: "At all times the data pointers must be NULL or pointers *)
(* to valid memory" (the comment on xnd_init): after every call, also one  *)
(* that failed half way, whatever the type reads as a pointer is one.      *)
(***************************************************************************)
PointersValid ==
    ~crash => \A c \in Containers[type] : Range(Embedded(c)) \subseteq DOMAIN mem

(***************************************************************************)
(* EachBlockOwnedOnce: every block belongs to one container and is reached *)
(* from it by one pointer, so that xnd_del releases all memory and nothing *)
(* twice, after failures too.                                              *)
(***************************************************************************)
EachBlockOwnedOnce ==
    ~crash =>
      LET roots == SetToSeq({c \in Containers[type] : root[c] # 0})
          all == FoldLeft(LAMBDA s, c : s \o <<root[c]>> \o Embedded(c), <<>>, roots)
      IN  Range(all) = DOMAIN mem /\ Len(all) = Cardinality(DOMAIN mem)

\* NoBadAccess: no call reads or releases through a pointer that is NULL,
\* dangling or not a pointer at all (xnd_clear, mblock_init, xnd_copy).
NoBadAccess == ~crash

(***************************************************************************)
(* CopyKeepsValue: after a copy the destination reads as the source did    *)
(* before it, through references and in every member of a union.           *)
(***************************************************************************)
CopyKeepsValue ==
    done.op = "copy" => Read(mem, type, Start(root[done.c])) = done.want
=============================================================================
