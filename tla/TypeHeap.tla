------------------------------ MODULE TypeHeap ------------------------------
(***************************************************************************)
(* The heap of reference-counted type objects of libndtypes (ndtypes.c,    *)
(* symtable.c).                                                            *)
(*                                                                         *)
(* A cell is a malloc'd ndt_t, or an ndt_offsets_t (the offset array that  *)
(* var dimensions share).  Every pointer to a cell lives in a site: a      *)
(* variable of the calling code that owns a reference, an entry of the     *)
(* typedef table, or one of the child slots of another cell.  ndt_del      *)
(* recurses through ndt_decref; the recursion is the variable stack, one   *)
(* step per iteration of its loops, so an invariant is checked between     *)
(* any two of them.                                                        *)
(*                                                                         *)
(* Abstracted: names, flags, shapes and every other field that no          *)
(* reference count depends on.  A call that fails in a check, or in malloc *)
(* before it has touched a count, changes nothing and is no action.        *)
(***************************************************************************)
EXTENDS Integers, Sequences, FiniteSets

CONSTANTS
    Cell,       \* memory the allocator hands out
    Var,        \* variables of the calling code that own a reference
    Name,       \* names of the typedef table
    Arity,      \* bound: children of one type
    NULL,       \* the null pointer
    Static      \* a statically allocated scalar type (never counted)

Kid == 1..Arity
Root == Var \cup Name
Site == Root \cup (Cell \X Kid)
Pointer == Cell \cup {NULL, Static}

ASSUME HeapAssumption ==
    /\ Arity \in Nat \ {0}
    /\ IsFiniteSet(Cell) /\ IsFiniteSet(Var) /\ IsFiniteSet(Name)
    /\ Var \cap Name = {}
    /\ Root \cap (Cell \X Kid) = {}
    /\ NULL \notin Cell \cup Name /\ Static \notin Cell /\ NULL # Static

VARIABLES
    ref,        \* what every site points to
    refcnt,     \* ndt_t.refcnt, ndt_offsets_t.refcnt
    cell,       \* "free", "live", or "dying" while ndt_del works on it
    sort,       \* what the cell was allocated as: an ndt_t or an ndt_offsets_t
    meth,       \* the typedef whose methods a nominal type borrows, or NULL
    stack,      \* the active calls of ndt_del, innermost last
    finalized   \* ndt_finalize has begun

vars == <<ref, refcnt, cell, sort, meth, stack, finalized>>

Sort == {"type", "offsets"}

Slots(n) == {n} \X Kid
Users(f, n) == {s \in Site : f[s] = n}
Refs(n) == Users(ref, n)
Naming(n, kids, m) == {s \in Slots(n) : kids[s[2]] = m}
Idle == stack = <<>>
IsType(p) == p = Static \/ (p \in Cell /\ sort[p] = "type")
IsOffsets(p) == p \in Cell /\ sort[p] = "offsets"

Init ==
    /\ ref = [s \in Site |-> NULL]
    /\ refcnt = [n \in Cell |-> 0]
    /\ cell = [n \in Cell |-> "free"]
    /\ sort = [n \in Cell |-> "type"]
    /\ meth = [n \in Cell |-> NULL]
    /\ stack = <<>>
    /\ finalized = FALSE

-----------------------------------------------------------------------------
(* ndt_incref and ndt_decref as state changes.                             *)

\* Faulty variant: the pointer is copied, the count forgotten.
Acquire_NoIncref(s, p) == ref' = [ref EXCEPT ![s] = p] /\ UNCHANGED refcnt

\* The site s takes a new reference to p.
Acquire(s, p) ==
    /\ ref' = [ref EXCEPT ![s] = p]
    /\ refcnt' = IF p \in Cell THEN [refcnt EXCEPT ![p] = @ + 1] ELSE refcnt

\* The reference at site s is given up; a count that reaches zero enters
\* ndt_del.
ndt_decref(s) ==
    LET n == ref[s] IN
    /\ ref' = [ref EXCEPT ![s] = NULL]
    /\ IF n \in Cell
       THEN /\ refcnt' = [refcnt EXCEPT ![n] = @ - 1]
            /\ IF refcnt[n] = 1
               THEN /\ cell' = [cell EXCEPT ![n] = "dying"]
                    /\ stack' = Append(stack, n)
               ELSE UNCHANGED <<cell, stack>>
       ELSE UNCHANGED <<refcnt, cell, stack>>

-----------------------------------------------------------------------------
(* The constructors.  They take new references to their arguments; the     *)
(* caller keeps its own.                                                   *)

\* Faulty variant: the children are stored without ndt_incref.
New_NoIncref(v, n, t, kids, d) ==
    /\ Idle /\ cell[n] = "free" /\ ref[v] = NULL
    /\ cell' = [cell EXCEPT ![n] = "live"]
    /\ sort' = [sort EXCEPT ![n] = t]
    /\ meth' = [meth EXCEPT ![n] = d]
    /\ ref' = [s \in Site |-> IF s = v THEN n
                              ELSE IF s \in Slots(n) THEN kids[s[2]]
                              ELSE ref[s]]
    /\ refcnt' = [refcnt EXCEPT ![n] = 1]
    /\ UNCHANGED <<stack, finalized>>

\* ndt_new, ndt_new_extra: a cell with refcnt = 1, its child slots, and for a
\* nominal type the typedef d, to which no reference is taken.
New(v, n, t, kids, d) ==
    /\ Idle /\ cell[n] = "free" /\ ref[v] = NULL
    /\ cell' = [cell EXCEPT ![n] = "live"]
    /\ sort' = [sort EXCEPT ![n] = t]
    /\ meth' = [meth EXCEPT ![n] = d]
    /\ ref' = [s \in Site |-> IF s = v THEN n
                              ELSE IF s \in Slots(n) THEN kids[s[2]]
                              ELSE ref[s]]
    /\ refcnt' = [m \in Cell |->
                    IF m = n THEN 1
                    ELSE refcnt[m] + Cardinality(Naming(n, kids, m))]
    /\ UNCHANGED <<stack, finalized>>

\* Faulty variant: the cell is freed, its references to the children are not
\* given back.
Abandon_FreeOnly(n, kids) ==
    /\ Idle /\ cell[n] = "free"
    /\ refcnt' = [m \in Cell |-> refcnt[m] + Cardinality(Naming(n, kids, m))]
    /\ UNCHANGED <<ref, cell, sort, meth, stack, finalized>>

\* A constructor that gives up after it has stored its children: it calls
\* ndt_decref on the new cell, whose count is 1.
Abandon(n, kids) ==
    /\ Idle /\ cell[n] = "free"
    /\ cell' = [cell EXCEPT ![n] = "dying"]
    /\ ref' = [s \in Site |-> IF s \in Slots(n) THEN kids[s[2]] ELSE ref[s]]
    /\ refcnt' = [m \in Cell |->
                    IF m = n THEN 0
                    ELSE refcnt[m] + Cardinality(Naming(n, kids, m))]
    /\ stack' = <<n>>
    /\ UNCHANGED <<sort, meth, finalized>>

\* The slots of a cell whose first len children are those held by w.
Kids(w, len) == [k \in Kid |-> IF k <= len THEN ref[w[k]] ELSE NULL]
TypeArgs(len) == {w \in [1..len -> Var] : \A k \in 1..len : IsType(ref[w[k]])}

ndt_leaf(v, n) == New(v, n, "type", [k \in Kid |-> NULL], NULL)

ndt_primitive(v) ==
    /\ Idle /\ ref[v] = NULL
    /\ ref' = [ref EXCEPT ![v] = Static]
    /\ UNCHANGED <<refcnt, cell, sort, meth, stack, finalized>>

ndt_offsets_new(v, n) == New(v, n, "offsets", [k \in Kid |-> NULL], NULL)

\* The data size overflows only after the child has been stored.
ndt_fixed_dim(v, n) ==
    \E w \in TypeArgs(1) :
        \/ New(v, n, "type", Kids(w, 1), NULL)
        \/ Abandon(n, Kids(w, 1))

ndt_var_dim(v, n) ==
    \E t, o \in Var :
        /\ IsType(ref[t]) /\ IsOffsets(ref[o])
        /\ New(v, n, "type", Kids(<<t, o>>, 2), NULL)

ndt_function(v, n) ==
    \E len \in 0..Arity : \E w \in TypeArgs(len) :
        New(v, n, "type", Kids(w, len), NULL)

\* All that can fail happens before the first child is stored.
ndt_tuple(v, n) ==
    \E len \in 0..Arity : \E w \in TypeArgs(len) :
        New(v, n, "type", Kids(w, len), NULL)

\* The name of a field is duplicated before its type is stored: a failure
\* leaves a cell with its first children only.
ndt_record(v, n) ==
    \E len \in 0..Arity : \E w \in TypeArgs(len) :
        \/ New(v, n, "type", Kids(w, len), NULL)
        \/ \E done \in 0..(len - 1) : Abandon(n, Kids(w, done))

\* The type of a nominal is the one given or that of the typedef table.  Its
\* methods stay in the table's entry.
ndt_nominal(v, n, d) ==
    /\ ~finalized /\ ref[d] # NULL
    /\ \E p \in {ref[d]} \cup {ref[w] : w \in {u \in Var : IsType(ref[u])}} :
           New(v, n, "type", [k \in Kid |-> IF k = 1 THEN p ELSE NULL], d)

-----------------------------------------------------------------------------
(* The other operations of the callers.                                    *)

Share(v, w) ==
    /\ Idle /\ ref[v] = NULL /\ ref[w] # NULL
    /\ Acquire(v, ref[w])
    /\ UNCHANGED <<cell, sort, meth, stack, finalized>>

Release(v) ==
    /\ Idle /\ ref[v] # NULL
    /\ ndt_decref(v)
    /\ UNCHANGED <<sort, meth, finalized>>

\* Faulty variant: *dst is overwritten without ndt_decref.
ndt_move_NoDecref(dst, src) ==
    /\ Idle /\ dst # src /\ ref[dst] # NULL /\ ref[src] # NULL
    /\ IsType(ref[dst]) /\ IsType(ref[src])
    /\ ref' = [ref EXCEPT ![dst] = ref[src], ![src] = NULL]
    /\ UNCHANGED <<refcnt, cell, sort, meth, stack, finalized>>

\* *dst drops what it holds and takes over the reference of src.
ndt_move(dst, src) ==
    /\ Idle /\ dst # src /\ ref[dst] # NULL /\ ref[src] # NULL
    /\ IsType(ref[dst]) /\ IsType(ref[src])
    /\ LET n == ref[dst] IN
       /\ ref' = [ref EXCEPT ![dst] = ref[src], ![src] = NULL]
       /\ refcnt' = IF n \in Cell THEN [refcnt EXCEPT ![n] = @ - 1] ELSE refcnt
       /\ IF n \in Cell /\ refcnt[n] = 1
          THEN cell' = [cell EXCEPT ![n] = "dying"] /\ stack' = Append(stack, n)
          ELSE UNCHANGED <<cell, stack>>
    /\ UNCHANGED <<sort, meth, finalized>>

\* Faulty variant: the table borrows the type.
ndt_typedef_add_Borrow(d, v) ==
    /\ Idle /\ ~finalized /\ ref[d] = NULL /\ IsType(ref[v])
    /\ ref' = [ref EXCEPT ![d] = ref[v]]
    /\ UNCHANGED <<refcnt, cell, sort, meth, stack, finalized>>

\* The table refuses a name that is taken.
ndt_typedef_add(d, v) ==
    /\ Idle /\ ~finalized /\ ref[d] = NULL /\ IsType(ref[v])
    /\ Acquire(d, ref[v])
    /\ UNCHANGED <<cell, sort, meth, stack, finalized>>

\* typedef_trie_del releases one entry after the other.
ndt_finalize(d) ==
    /\ Idle /\ ref[d] # NULL
    /\ finalized' = TRUE
    /\ ndt_decref(d)
    /\ UNCHANGED <<sort, meth>>

-----------------------------------------------------------------------------
(* ndt_del: the innermost call releases its next child, or frees the cell. *)

Pending(n) == {k \in Kid : ref[<<n, k>>] # NULL}

\* Faulty variant: the loop over the children starts at the second.
DelChild_FromSecond ==
    /\ ~Idle
    /\ LET n == stack[Len(stack)] IN
       \E k \in Pending(n) \ {1} :
          /\ \A j \in Pending(n) \ {1} : k <= j
          /\ ndt_decref(<<n, k>>)
    /\ UNCHANGED <<sort, meth, finalized>>

DelChild ==
    /\ ~Idle
    /\ LET n == stack[Len(stack)] IN
       \E k \in Pending(n) :
          /\ \A j \in Pending(n) : k <= j
          /\ ndt_decref(<<n, k>>)
    /\ UNCHANGED <<sort, meth, finalized>>

\* Faulty variant: the cell is freed before its children are released.
DelFree_Early ==
    /\ ~Idle
    /\ LET n == stack[Len(stack)] IN
       /\ cell' = [cell EXCEPT ![n] = "free"]
       /\ sort' = [sort EXCEPT ![n] = "type"]
       /\ meth' = [meth EXCEPT ![n] = NULL]
    /\ stack' = SubSeq(stack, 1, Len(stack) - 1)
    /\ UNCHANGED <<ref, refcnt, finalized>>

DelFree ==
    /\ ~Idle
    /\ LET n == stack[Len(stack)] IN
       /\ Pending(n) = {}
       /\ cell' = [cell EXCEPT ![n] = "free"]
       /\ sort' = [sort EXCEPT ![n] = "type"]
       /\ meth' = [meth EXCEPT ![n] = NULL]
    /\ stack' = SubSeq(stack, 1, Len(stack) - 1)
    /\ UNCHANGED <<ref, refcnt, finalized>>

ndt_del == DelChild \/ DelFree

Construct(v, n) ==
    \/ ndt_leaf(v, n)
    \/ ndt_offsets_new(v, n)
    \/ ndt_fixed_dim(v, n)
    \/ ndt_var_dim(v, n)
    \/ ndt_function(v, n)
    \/ ndt_tuple(v, n)
    \/ ndt_record(v, n)
    \/ \E d \in Name : ndt_nominal(v, n, d)

Next ==
    \/ \E v \in Var, n \in Cell : Construct(v, n)
    \/ \E v \in Var : ndt_primitive(v) \/ Release(v)
    \/ \E v, w \in Var : Share(v, w) \/ ndt_move(v, w)
    \/ \E d \in Name, v \in Var : ndt_typedef_add(d, v)
    \/ \E d \in Name : ndt_finalize(d)
    \/ ndt_del

Spec == Init /\ [][Next]_vars /\ WF_vars(ndt_del)

-----------------------------------------------------------------------------
(* Properties.                                                             *)

TypeOK ==
    /\ ref \in [Site -> Pointer]
    /\ refcnt \in [Cell -> Nat]
    /\ cell \in [Cell -> {"free", "live", "dying"}]
    /\ sort \in [Cell -> Sort]
    /\ meth \in [Cell -> Name \cup {NULL}]
    /\ stack \in Seq(Cell)
    /\ finalized \in BOOLEAN

(* The count kept in every cell is the number of sites that point to it,   *)
(* and a cell is in use as long as that is positive: on every error path   *)
(* of the constructors, and in the middle of ndt_del.                      *)
CountExact ==
    \A n \in Cell : /\ refcnt[n] = Cardinality(Refs(n))
                    /\ cell[n] = "live" <=> refcnt[n] > 0

\* The entry whose methods a nominal type borrows is in the table.
MethodsLive == ~finalized => \A n \in Cell : meth[n] # NULL => ref[meth[n]] # NULL

(* No caller, typedef or type points to a cell that has been freed or is   *)
(* being freed: ndt_del never runs on a type that somebody still holds.    *)
(* And no nominal type points to the methods of an entry that is gone,     *)
(* although it holds no reference to it, until ndt_finalize begins: that   *)
(* frees the entries whatever types are left.                              *)
NoDangling ==
    /\ \A s \in Site : ref[s] \in Cell => cell[ref[s]] = "live"
    /\ MethodsLive

(* A cell is in one call of ndt_del at most, and only there between its    *)
(* last reference and its free: nothing is freed twice, and a cell that is *)
(* freed has given up all its children.                                    *)
StackSound ==
    /\ \A n \in Cell : cell[n] = "dying" <=> \E i \in 1..Len(stack) : stack[i] = n
    /\ \A i, j \in 1..Len(stack) : stack[i] = stack[j] => i = j
    /\ \A n \in Cell : cell[n] = "free" => Pending(n) = {}

(* A type is built from types that exist: in every set of cells there is   *)
(* one that no other of the set, nor itself, has as a child.               *)
Acyclic ==
    \A S \in SUBSET Cell : S # {} =>
        \E n \in S : \A m \in S, k \in Kid : ref[<<m, k>>] # n

IInv == TypeOK /\ CountExact /\ StackSound /\ MethodsLive

Succ(S) == {ref[s] : s \in S \X Kid} \cap Cell
Reachable ==
    LET reach[i \in 0..Cardinality(Cell)] ==
            IF i = 0 THEN {ref[r] : r \in Root} \cap Cell
            ELSE reach[i - 1] \cup Succ(reach[i - 1])
    IN reach[Cardinality(Cell)]

(* When the library returns to its caller the cells in use are exactly     *)
(* those reachable from a caller or a typedef: nothing leaks, neither on   *)
(* success nor when a constructor fails half way.                          *)
NoLeak == Idle => {n \in Cell : cell[n] # "free"} = Reachable

(* A call that gives up a reference returns: the recursion of ndt_del      *)
(* ends, whatever the sharing between the types it takes apart.            *)
DelReturns == ~Idle ~> Idle

-----------------------------------------------------------------------------
(* The types that the holders of references see.                           *)

\* For the slots f and the sorts s: the type a pointer stands for, taken
\* apart to a depth.
Unfold(f, s) ==
    LET type[depth \in 0..Cardinality(Cell)] ==
            [p \in Pointer |->
                IF p \notin Cell \/ depth = 0 THEN p
                ELSE [sort |-> s[p],
                      kids |-> [k \in Kid |-> type[depth - 1][f[<<p, k>>]]]]]
    IN type

Value == Unfold(ref, sort)[Cardinality(Cell)]
types == [r \in Root |-> Value[ref[r]]]

Values == INSTANCE TypeValues WITH StaticValue <- Static, val <- types

(* The counted heap implements types as values: whatever is shared, freed  *)
(* and reused underneath, a holder's type is the one it built or was given *)
(* until the holder itself gives it up.                                    *)
ImplementsValues == Values!Spec
=============================================================================
