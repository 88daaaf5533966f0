---------------------------- MODULE FunctionTable ---------------------------
(***************************************************************************)
(* Tables of multimethods (libgumath/tbl.c, func.c): a trie from names to  *)
(* functions, each with a list of kernels, and the selection of a kernel   *)
(* by the types of the arguments (gm_select in apply.c).                   *)
(*                                                                         *)
(* A name is a sequence of characters, a node of the trie the prefix that  *)
(* leads to it.  Abstracted: a signature stands for the set of argument    *)
(* types it accepts.  A function with an optimized type check finds its    *)
(* kernels by their position; gm_select treats the others.                 *)
(***************************************************************************)
EXTENDS Integers, Sequences, FiniteSets, SequencesExt

CONSTANTS
    Name,       \* names that callers use, sequences of characters
    Alphabet,   \* the valid characters
    Sig,        \* signatures; some may not parse
    Parses(_),  \* whether a signature does
    ArgType,    \* types of arguments
    Accepts(_, _),  \* whether a signature accepts a type
    MaxKernels, \* GM_MAX_KERNELS
    MaxFuncs,   \* bound: functions that can be allocated
    NULL

ASSUME TableAssumption ==
    /\ Name \subseteq Seq(STRING) /\ MaxKernels \in Nat \ {0} /\ MaxFuncs \in Nat
    /\ NULL \notin 1..MaxFuncs /\ NULL \notin Name /\ NULL \notin Seq(Sig)

Func == 1..MaxFuncs

VARIABLES
    tbl,        \* the nodes of the trie: [prefix -> Func \cup {NULL}]
    func,       \* [Func -> name, typecheck, kernels, dels: how often freed]
    types       \* signature types that were parsed and not released

vars == <<tbl, func, types>>

\* A function without kernels.
gm_func_new(name, dels) ==
    [name |-> name, typecheck |-> FALSE, kernels |-> <<>>, dels |-> dels]

Unused == gm_func_new(NULL, 0)

\* gm_tbl_new
Init ==
    /\ tbl = [p \in {<<>>} |-> NULL]
    /\ func = [f \in Func |-> Unused]
    /\ types = 0

-----------------------------------------------------------------------------
(* The trie.                                                               *)

Valid(key) == \A i \in DOMAIN key : key[i] \in Alphabet
PrefixesOf(key, n) == {SubSeq(key, 1, i) : i \in 0..n}

gm_tbl_find(key) == IF Valid(key) /\ key \in DOMAIN tbl THEN tbl[key] ELSE NULL

\* Faulty variant: nodes that are there are not kept.
Walk_Fresh(key, n) ==
    [p \in DOMAIN tbl \cup PrefixesOf(key, n) |->
        IF p \in DOMAIN tbl \ PrefixesOf(key, n) THEN tbl[p] ELSE NULL]

\* The trie after gm_tbl_add has followed the first n characters of key.
Walk(key, n) ==
    [p \in DOMAIN tbl \cup PrefixesOf(key, n) |-> IF p \in DOMAIN tbl THEN tbl[p] ELSE NULL]

\* Where gm_tbl_add may stop: at an invalid character, or at a node that has
\* to be allocated and cannot be.
Stops(key) ==
    {n \in 0..(Len(key) - 1) :
        /\ Valid(SubSeq(key, 1, n))
        /\ key[n + 1] \notin Alphabet \/ SubSeq(key, 1, n + 1) \notin DOMAIN tbl}

\* Faulty variant: a function that is there is replaced.
gm_tbl_add_Replace(key, value) ==
    {[ok |-> FALSE, tbl |-> Walk(key, n)] : n \in Stops(key)}
    \cup (IF Valid(key) THEN {[ok |-> TRUE, tbl |-> [Walk(key, Len(key)) EXCEPT ![key] = value]]}
          ELSE {})

\* The outcomes of gm_tbl_add; a name that is taken is an error.
gm_tbl_add(key, value) ==
    {[ok |-> FALSE, tbl |-> Walk(key, n)] : n \in Stops(key)}
    \cup (IF ~Valid(key) THEN {}
          ELSE IF gm_tbl_find(key) # NULL THEN {[ok |-> FALSE, tbl |-> tbl]}
          ELSE {[ok |-> TRUE, tbl |-> [Walk(key, Len(key)) EXCEPT ![key] = value]]})

-----------------------------------------------------------------------------
(* Functions and kernels.                                                  *)

Memory == \E f \in Func : func[f] = Unused
NewFunc == CHOOSE f \in Func : func[f] = Unused

\* The outcomes of gm_add_func.  gm_func_new may fail, which changes nothing.
\* When the name cannot be added, gm_tbl_add deletes the function, and
\* gm_add_func deletes it again.
gm_add_func(name) ==
    {[ok |-> FALSE, tbl |-> tbl, func |-> func]}
    \cup {[ok |-> r.ok, tbl |-> r.tbl,
           func |-> [func EXCEPT ![NewFunc] = gm_func_new(name, IF r.ok THEN 0 ELSE 2)]] :
            r \in IF Memory THEN gm_tbl_add(name, NewFunc) ELSE {}}

AddFunc(name) ==
    /\ \E r \in gm_add_func(name) : tbl' = r.tbl /\ func' = r.func
    /\ UNCHANGED types

Room(kernels) == Len(kernels) < MaxKernels

\* Faulty variant: a new kernel comes first.
Insert_First(kernels, sig) == <<sig>> \o kernels

Insert(kernels, sig) == Append(kernels, sig)

\* gm_add_kernel and gm_add_kernel_typecheck.  A function that had to be
\* created stays when the signature does not parse.
AddKernel(name, sig, typecheck) ==
    \E r \in IF gm_tbl_find(name) # NULL THEN {[ok |-> TRUE, tbl |-> tbl, func |-> func]}
             ELSE gm_add_func(name) :
        LET f == r.tbl[name]
            created == r.ok /\ gm_tbl_find(name) = NULL
            checked == IF created THEN [r.func EXCEPT ![f].typecheck = typecheck] ELSE r.func
        IN
        /\ tbl' = r.tbl
        /\ \/ /\ r.ok /\ Parses(sig)
              /\ Room(checked[f].kernels)
              /\ func' = [checked EXCEPT ![f].kernels = Insert(@, sig)]
              /\ types' = types + 1
           \/ \* creation or parsing fails, or the limit is reached
              func' = checked /\ UNCHANGED types

\* What happens after a function was freed twice is undefined.
Undefined == \E f \in Func : func[f].dels > 1

Next ==
    /\ ~Undefined
    /\ \E name \in Name :
          \/ AddFunc(name)
          \/ \E sig \in Sig, typecheck \in BOOLEAN : AddKernel(name, sig, typecheck)

Spec == Init /\ [][Next]_vars

-----------------------------------------------------------------------------
(* gm_select, for functions without a type check of their own: the first   *)
(* kernel that accepts the type, 0 if there is none.                       *)
gm_select(name, type) ==
    LET f == gm_tbl_find(name) IN
    IF f = NULL THEN 0 ELSE SelectInSeq(func[f].kernels, LAMBDA sig : Accepts(sig, type))

-----------------------------------------------------------------------------
(* Properties.                                                             *)

Live(f) == func[f].name # NULL /\ func[f].dels = 0

(* The table owns its functions, and they their signatures: every function *)
(* that was not deleted is found under its own name and under no other,    *)
(* every parsed signature is in one kernel of one of them, and a failed    *)
(* call leaves nothing behind; no function has more than GM_MAX_KERNELS.   *)
TableOwnsAll ==
    /\ \A f \in Func : Live(f) <=> \E p \in DOMAIN tbl : tbl[p] = f
    /\ \A p \in DOMAIN tbl : tbl[p] # NULL => func[tbl[p]].name = p
    /\ \A f \in Func : Len(func[f].kernels) <= MaxKernels
    /\ types = Cardinality({x \in Func \X (1..MaxKernels) :
                                Live(x[1]) /\ x[2] <= Len(func[x[1]].kernels)})

(* Adding functions and kernels never changes the kernel that is selected  *)
(* for arguments that had one.                                             *)
SelectionStable ==
    [][\A name \in Name, type \in ArgType :
          gm_select(name, type) # 0 => gm_select(name, type)' = gm_select(name, type)]_vars

(* The kernels under every name.                                           *)
registry ==
    [n \in Name |-> LET f == gm_tbl_find(n) IN IF f = NULL THEN NULL ELSE func[f].kernels]

(* The table implements the registry of multimethods.                      *)
Registry == INSTANCE FunctionRegistry WITH Absent <- NULL

ImplementsRegistry == Registry!Spec

(* What functions.rst says of gm_add_func: if the name has invalid         *)
(* characters, it returns NULL and sets an error; so it releases what it   *)
(* allocated once.                                                         *)
FailedAddReturns ==
    \A f \in Func : func[f].name # NULL /\ ~Valid(func[f].name) => func[f].dels <= 1
=============================================================================
