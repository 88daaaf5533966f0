----------------------------- MODULE Typecheck ------------------------------
(***************************************************************************)
(* ndt_typecheck (match.c, substitute.c, symtable.c): the arguments of a   *)
(* call are matched one after the other against the types of a signature,  *)
(* with one symbol table for all of them; then the missing outputs are     *)
(* inferred and the arguments are broadcast.  The last action is the       *)
(* second check that gumath makes for a call with a dtype argument: the    *)
(* inferred output is passed back as an explicit one (_gumath.c).          *)
(*                                                                         *)
(* A concrete type is [dims, dtype].  Dimensions are fixed (module         *)
(* Broadcast), [kind |-> "var", lists], or [kind |-> "array"]; a type has  *)
(* one kind of them only.  A pattern is [ell, order, dims, dtype]: ell is  *)
(* the name of the leading ellipsis, "..." if it has none and "none" if    *)
(* there is no ellipsis; order is the contiguity it requires.  Dimensions  *)
(* of patterns are also [kind |-> "sym", name, order], and dtypes are      *)
(* scalars, type variables or Any.                                         *)
(*                                                                         *)
(* Array dimensions of patterns occur in outputs only, so that their item  *)
(* size is not compared.                                                   *)
(*                                                                         *)
(* Tuples, records, unions, functions and references, whose parts are      *)
(* matched one by one with the same table, are left out, and so are var    *)
(* dimensions with slices, and symbols that stay unbound.                  *)
(***************************************************************************)
EXTENDS Broadcast, FiniteSets, TLC

CONSTANTS
  Calls,      \* [sig, ins, outs, check]: outs is empty if outputs are inferred
  ItemSize    \* the size of each scalar dtype

VARIABLES
  call,   \* the call that is checked
  tbl,    \* symtable_t: symbols and what they stand for
  next,   \* the next argument to be matched
  types,  \* spec->types
  outer,  \* spec->outer_dims
  pc,     \* "start", "match", "constraint", "infer", "broadcast", "order", "ok", "error"
  prev    \* the inputs and outputs that a first check of this call gave, or <<>>

(***************************************************************************)
(* Calls: patterns and concrete types.                                     *)
(***************************************************************************)
Contiguity == {"NA", "C", "F"}

PatternDim ==
  [kind : {"fixed"}, shape : Nat, order : Contiguity] \cup [kind : {"sym"}, name : STRING, order : Contiguity]
  \cup [kind : {"array"}, order : Contiguity]

PatternDtype ==
  [kind : {"scalar"}, name : STRING, opt : BOOLEAN] \cup [kind : {"typevar"}, name : STRING, opt : {FALSE}]
  \cup [kind : {"any"}, opt : BOOLEAN]

Signature ==
  [nin : Nat, nout : Nat, pdist : BOOLEAN,
   types : Seq([ell : STRING, order : Contiguity, dims : Seq(PatternDim), dtype : PatternDtype])]

Dimension ==
  [kind : {"fixed"}, shape : Nat, step : Int] \cup [kind : {"var"}, lists : Seq(Nat)]
  \cup [kind : {"array"}]

ConcreteType == [dims : Seq(Dimension), dtype : [name : DOMAIN ItemSize, opt : BOOLEAN]]

(***************************************************************************)
(* What the parser and check_function_invariants see to, and what users of *)
(* signatures have to: either all types have an ellipsis or none, with the *)
(* same name; fixed and array dimensions are not mixed, and an order is    *)
(* asked for fixed ones only; nothing is left open without inputs; each    *)
(* symbol has a name of its own and stands for one kind of thing; the      *)
(* symbols of an output occur in an input or are computed.                 *)
(***************************************************************************)
DimNames(p) == { p.dims[i].name : i \in { j \in DOMAIN p.dims : p.dims[j].kind = "sym" } }
TypeNames(p) == IF p.dtype.kind = "typevar" THEN {p.dtype.name} ELSE {}

AllDimNames(s) == UNION { DimNames(s.types[i]) : i \in DOMAIN s.types }
AllTypeNames(s) == UNION { TypeNames(s.types[i]) : i \in DOMAIN s.types }

SignatureOK(s) ==
  LET ins == 1 .. s.nin IN
  /\ Len(s.types) = s.nin + s.nout
  /\ \A i, j \in DOMAIN s.types : s.types[i].ell = s.types[j].ell
  /\ \A i \in DOMAIN s.types :
       \/ \A k \in DOMAIN s.types[i].dims : s.types[i].dims[k].kind # "array"
       \/ i \notin ins /\ \A k \in DOMAIN s.types[i].dims : s.types[i].dims[k].kind = "array"
  /\ \A i \in DOMAIN s.types :
       /\ s.types[i].ell \in {"var", "array"} => s.types[i].order = "NA"
       /\ \A k \in DOMAIN s.types[i].dims :
            s.types[i].dims[k].kind = "array" => s.types[i].dims[k].order = "NA"
  /\ s.nin = 0 => \A i \in DOMAIN s.types : s.types[i].ell = "none"
  /\ AllDimNames(s) \cap AllTypeNames(s) = {}
  /\ ({"", "..."} \cup { s.types[i].ell : i \in DOMAIN s.types })
       \cap (AllDimNames(s) \cup AllTypeNames(s)) = {}
  /\ \A i \in DOMAIN s.types : s.types[i].ell # ""
  /\ AllDimNames(s)
       \subseteq (UNION { DimNames(s.types[i]) : i \in ins }) \cup (IF s.pdist THEN {"P"} ELSE {})
  /\ AllTypeNames(s) \subseteq UNION { TypeNames(s.types[i]) : i \in ins }
  /\ s.pdist => {"N", "M"} \subseteq UNION { DimNames(s.types[i]) : i \in ins }

ASSUME CallsAssumption ==
  \A c \in Calls :
     /\ c \in [sig : Signature, ins : Seq(ConcreteType), outs : Seq(ConcreteType), check : BOOLEAN]
     /\ SignatureOK(c.sig)

vars == <<call, tbl, next, types, outer, pc, prev>>

sig   == call.sig
Args  == call.ins \o call.outs
Given == call.outs # <<>>      \* explicit outputs

Type(dims, dtype) == [dims |-> dims, dtype |-> dtype]

Scalar(q) == [name |-> q.name, opt |-> q.opt]

From(c, i) == Type(SubSeq(c.dims, i, Len(c.dims)), c.dtype)

\* ndt_is_optional: only dtypes are optional here.
IsOptional(c) == c.dims = <<>> /\ c.dtype.opt

IsArray(c) == \A i \in DOMAIN c.dims : c.dims[i].kind = "fixed"

\* The checks of RequireC and RequireF.
Ordered(order, c) ==
  CASE order = "C" -> IsArray(c) /\ IsCContiguous(c.dims)
    [] order = "F" -> IsArray(c) /\ IsFContiguous(c.dims)
    [] OTHER -> TRUE

-----------------------------------------------------------------------------
(***************************************************************************)
(* The symbol table.                                                       *)
(***************************************************************************)
\* The result of a match that fails: no symbol has an empty name.
NoMatch == [key \in {""} |-> "no match"]

Bind(t, key, entry) ==
  [k \in DOMAIN t \cup {key} |-> IF k = key THEN entry ELSE t[k]]

\* Faulty variant: the values are not compared.
ResolveSymbol_TagOnly(t, key, entry) ==
  IF key \notin DOMAIN t THEN Bind(t, key, entry)
  ELSE IF t[key].tag = entry.tag THEN t ELSE NoMatch

\* The entry of key is compared with the new one by resolve_shape and by
\* resolve_typevar.
ResolveSymbol(t, key, entry) ==
  IF key \notin DOMAIN t THEN Bind(t, key, entry)
  ELSE IF t[key].tag = entry.tag /\ t[key].value = entry.value THEN t
  ELSE NoMatch

ResolveBroadcast(t, shape) ==
  IF "..." \notin DOMAIN t THEN Bind(t, "...", [tag |-> "BroadcastSeq", value |-> shape])
  ELSE IF Resolve(t["..."].value, shape) = NoShape THEN NoMatch
  ELSE Bind(t, "...", [tag |-> "BroadcastSeq", value |-> Resolve(t["..."].value, shape)])

\* resolve_fixed: named ellipses have the same shape.
ResolveFixed(t, key, shape) ==
  ResolveSymbol(t, key, [tag |-> "FixedSeq", value |-> shape])

\* resolve_var: the types at the outermost dimension are compared list by
\* list.  An argument without dimensions leaves that type uninitialized, and
\* the comparison that reads it may go either way.
ResolveVar(t, c, n) ==
  IF "var" \notin DOMAIN t THEN {Bind(t, "var", [tag |-> "VarSeq", size |-> n, value |-> c])}
  ELSE LET v == t["var"]
           same == /\ v.value.dims = c.dims
                   /\ ItemSize[v.value.dtype.name] = ItemSize[c.dtype.name]
       IN IF v.size = 0 \/ n = 0 THEN {t, NoMatch}
          ELSE IF same THEN {t} ELSE {NoMatch}

ResolveArray(t, n) == ResolveSymbol(t, "array", [tag |-> "ArraySeq", value |-> n])

-----------------------------------------------------------------------------
(***************************************************************************)
(* Matching one argument.                                                  *)
(***************************************************************************)
\* match_datashape on dimension i of c.
MatchDim(t, p, c, i) ==
  LET q == p.dims[i] IN
  IF t = NoMatch \/ i > Len(c.dims) THEN NoMatch
  ELSE CASE q.kind = "fixed" ->
              IF /\ c.dims[i].kind = "fixed"
                 /\ c.dims[i].shape = q.shape
                 /\ Ordered(q.order, From(c, i))
              THEN t ELSE NoMatch
         [] q.kind = "sym" ->
              IF c.dims[i].kind = "fixed" /\ Ordered(q.order, From(c, i))
              THEN ResolveSymbol(t, q.name, [tag |-> "Shape", value |-> c.dims[i].shape])
              ELSE NoMatch
         [] OTHER -> IF c.dims[i].kind = q.kind THEN t ELSE NoMatch

\* match_datashape on the dtype of the pattern; c is what is left of the type.
MatchDtype(t, q, c) ==
  IF t = NoMatch \/ IsOptional(c) # q.opt THEN NoMatch
  ELSE CASE q.kind = "any"     -> t
         [] q.kind = "scalar"  -> IF c.dims = <<>> /\ c.dtype.name = q.name THEN t ELSE NoMatch
         [] q.kind = "typevar" -> ResolveSymbol(t, q.name, [tag |-> "Type", value |-> c])

MatchDatashape(t, p, c) ==
  LET matched[i \in 0 .. Len(p.dims)] == IF i = 0 THEN t ELSE MatchDim(matched[i - 1], p, c, i)
  IN MatchDtype(matched[Len(p.dims)], p.dtype, From(c, Len(p.dims) + 1))

EllipsisKind(ell) == IF ell \in {"var", "array"} THEN ell ELSE "fixed"

\* outer_inner: the dimensions that the ellipsis of p takes from c.
Taken(p, c) == Len(c.dims) - Len(p.dims)

CanTake(p, c) ==
  /\ Taken(p, c) >= 0
  /\ \A i \in 1 .. Taken(p, c) : c.dims[i].kind = EllipsisKind(p.ell)

ResolveEllipsis(t, p, c) ==
  LET n == Taken(p, c) IN
  IF t = NoMatch THEN {NoMatch}
  ELSE CASE p.ell = "..."   -> {ResolveBroadcast(t, Shape(SubSeq(c.dims, 1, n)))}
         [] p.ell = "var"   -> ResolveVar(t, c, n)
         [] p.ell = "array" -> {ResolveArray(t, n)}
         [] OTHER           -> {ResolveFixed(t, p.ell, Shape(SubSeq(c.dims, 1, n)))}

\* match_datashape_top: the tables that can result.
Match(t, p, c) ==
  IF p.ell = "none" THEN {MatchDatashape(t, p, c)}
  ELSE IF ~Ordered(p.order, c) \/ ~CanTake(p, c) THEN {NoMatch}
  ELSE ResolveEllipsis(MatchDatashape(t, p, From(c, Taken(p, c) + 1)), p, c)
-----------------------------------------------------------------------------
(***************************************************************************)
(* ndt_substitute on the type of an output.                                *)
(***************************************************************************)
ArrayDims(n) == [i \in 1 .. n |-> [kind |-> "array"]]

\* mk_contig gives Fortran steps to a type that is concrete when it is parsed,
\* the dimensions from i on; symbolic dimensions, and those around a type that
\* has an order already, are given steps of C order here.
Remaining(p, i) == i .. Len(p.dims)

FortranFrom(p) ==
  { i \in DOMAIN p.dims :
      /\ p.dims[i].order = "F" /\ p.dtype.kind = "scalar"
      /\ \A k \in Remaining(p, i) : p.dims[k].kind = "fixed" /\ (k # i => p.dims[k].order = "NA") }

\* What is below the dimensions of p.
Base(p) ==
  IF p.dtype.kind = "typevar" THEN tbl[p.dtype.name].value ELSE Type(<<>>, Scalar(p.dtype))

SubstituteInner(p) ==
  LET shapes == [i \in DOMAIN p.dims |->
                   IF p.dims[i].kind = "sym" THEN tbl[p.dims[i].name].value ELSE p.dims[i].shape]
      first  == CHOOSE i \in FortranFrom(p) : TRUE
      dims   == IF \E i \in DOMAIN p.dims : p.dims[i].kind = "array"
                THEN ArrayDims(Len(p.dims)) \o Base(p).dims
                ELSE IF FortranFrom(p) = {}
                THEN AddDims(shapes, Base(p).dims)
                ELSE AddDims(SubSeq(shapes, 1, first - 1),
                             ToFortran(AddDims(SubSeq(shapes, first, Len(shapes)), <<>>)))
  IN Type(dims, Base(p).dtype)

\* An unnamed ellipsis is left to broadcasting.  That of var takes over all
\* dimensions of the argument that bound it.
Substitute(p) ==
  LET u == SubstituteInner(p) IN
  CASE p.ell \in {"none", "..."} -> u
    [] p.ell = "var" -> IF tbl["var"].size = 0 THEN u ELSE Type(tbl["var"].value.dims, u.dtype)
    [] p.ell = "array" -> Type(ArrayDims(tbl["array"].value) \o u.dims, u.dtype)
    [] OTHER -> Type(AddDims(tbl[p.ell].value, u.dims), u.dtype)

\* ndt_fixed_dim and ndt_array refuse to put a dimension around one of
\* another kind.
Mixes(p) ==
  LET inner == { IF p.dims[i].kind = "array" THEN "array" ELSE "fixed" : i \in DOMAIN p.dims }
      named == CASE p.ell \in {"none", "...", "var"} -> {}
                 [] p.ell = "array" -> IF tbl["array"].value = 0 THEN {} ELSE {"array"}
                 [] OTHER -> IF tbl[p.ell].value = <<>> THEN {} ELSE {"fixed"}
      kinds == named \cup inner \cup { Base(p).dims[i].kind : i \in DOMAIN Base(p).dims }
  IN \E k, l \in kinds : k # l

\* There is no substitution for Any.
Refused(p) == p.dtype.kind = "any" \/ Mixes(p)

-----------------------------------------------------------------------------
(***************************************************************************)
(* ndt_typecheck.                                                          *)
(***************************************************************************)
Init ==
  /\ call \in Calls
  /\ tbl = <<>> /\ next = 1 /\ types = <<>> /\ outer = 0 /\ pc = "start" /\ prev = <<>>

Fail == pc' = "error" /\ UNCHANGED <<call, tbl, next, types, outer, prev>>

Arity ==
  /\ Len(call.ins) = sig.nin
  /\ Given => Len(call.outs) = sig.nout
  /\ call.check => Given

CheckArity ==
  /\ pc = "start"
  /\ IF ~Arity THEN Fail
     ELSE /\ pc' = "match"
          /\ UNCHANGED <<call, tbl, next, types, outer, prev>>

MatchArg ==
  /\ pc = "match" /\ next <= Len(Args)
  /\ \E t \in Match(tbl, sig.types[next], Args[next]) :
       IF t = NoMatch THEN Fail
       ELSE /\ tbl' = t /\ next' = next + 1
            /\ UNCHANGED <<call, types, outer, pc, prev>>

\* pdist_constraint, the example of a constraint: with N and M it computes P.
PdistShapes(n, m) == IF n = 0 \/ m = 0 THEN {} ELSE {(n * (n - 1)) \div 2}

\* resolve_constraint.  That a computed shape is not the one an explicit
\* output has given to the symbol goes unnoticed.
ResolveConstraint ==
  /\ pc = "match" /\ next > Len(Args)
  /\ IF ~sig.pdist
     THEN pc' = "infer" /\ UNCHANGED <<call, tbl, next, types, outer, prev>>
     ELSE LET shapes == PdistShapes(tbl["N"].value, tbl["M"].value) IN
          IF shapes = {} THEN Fail
          ELSE \E p \in shapes :
                 /\ tbl' = IF "P" \in DOMAIN tbl THEN tbl
                           ELSE Bind(tbl, "P", [tag |-> "Shape", value |-> p])
                 /\ pc' = "infer"
                 /\ UNCHANGED <<call, next, types, outer, prev>>

Infer ==
  /\ pc = "infer"
  /\ IF ~Given /\ \E i \in 1 .. sig.nout : Refused(sig.types[sig.nin + i]) THEN Fail
     ELSE /\ types' = call.ins \o
               (IF Given THEN call.outs
                ELSE [i \in 1 .. sig.nout |-> Substitute(sig.types[sig.nin + i])])
          /\ pc' = "broadcast"
          /\ UNCHANGED <<call, tbl, next, outer, prev>>

Ellipsis == IF sig.types = <<>> THEN "none" ELSE sig.types[1].ell

OuterDims ==
  CASE Ellipsis = "none"  -> 0
    [] Ellipsis = "..."   -> Len(tbl["..."].value)
    [] Ellipsis = "var"   -> IF tbl["var"].size = 0 THEN 0 ELSE Len(tbl["var"].value.dims)
    [] Ellipsis = "array" -> tbl["array"].value
    [] OTHER              -> Len(tbl[Ellipsis].value)

Broadcasted(i) ==
  Type(BroadcastTo(types[i].dims, tbl["..."].value, Len(sig.types[i].dims), i > sig.nin),
       types[i].dtype)

\* ndt_broadcast_all, for the unnamed ellipsis only.  broadcast reads the
\* types as ndarrays, which have fixed dimensions.
BroadcastAll ==
  /\ pc = "broadcast"
  /\ IF Ellipsis # "..."
     THEN types' = types /\ outer' = OuterDims /\ pc' = "order" /\ UNCHANGED <<call, tbl, next, prev>>
     ELSE IF \/ \E i \in DOMAIN types : ~IsArray(types[i])
             \/ call.check /\ \E i \in sig.nin + 1 .. Len(types) : Broadcasted(i) # types[i]
     THEN Fail
     ELSE /\ types' = [i \in DOMAIN types |-> Broadcasted(i)]
          /\ outer' = OuterDims /\ pc' = "order"
          /\ UNCHANGED <<call, tbl, next, prev>>

\* to_fortran and check_contig: the latter looks at the arguments of the
\* call, not at the types after broadcasting.
OrderOutputs ==
  LET fortran(i) == sig.types[i].ell # "none" /\ sig.types[i].order = "F" IN
  /\ pc = "order"
  /\ IF \/ ~Given /\ \E i \in sig.nin + 1 .. Len(types) : fortran(i) /\ ~Ordered("C", types[i])
        \/ \E i \in DOMAIN Args : sig.types[i].ell # "none" /\ ~Ordered(sig.types[i].order, Args[i])
     THEN Fail
     ELSE /\ types' = [i \in DOMAIN types |->
                          IF ~Given /\ i > sig.nin /\ fortran(i)
                          THEN Type(ToFortran(types[i].dims), types[i].dtype) ELSE types[i]]
          /\ pc' = "ok"
          /\ UNCHANGED <<call, tbl, next, outer, prev>>

\* ndt_copy_contiguous_dtype.
CopyContiguous(c) == IF IsArray(c) THEN Type(AddDims(Shape(c.dims), <<>>), c.dtype) ELSE c

\* _gufunc_call with a dtype argument: a contiguous type of the inferred
\* shape is the explicit output of a second check.
CheckAgain ==
  /\ pc = "ok" /\ ~Given /\ prev = <<>> /\ sig.nout = 1
  /\ LET out == CopyContiguous(types[sig.nin + 1]) IN
     /\ call' = [call EXCEPT !.outs = <<out>>, !.check = TRUE]
     /\ prev' = [types EXCEPT ![sig.nin + 1] = out]
  /\ tbl' = <<>> /\ next' = 1 /\ types' = <<>> /\ outer' = 0 /\ pc' = "start"

Next ==
  \/ CheckArity \/ MatchArg \/ ResolveConstraint \/ Infer \/ BroadcastAll \/ OrderOutputs
  \/ CheckAgain

Spec == Init /\ [][Next]_vars

-----------------------------------------------------------------------------
(***************************************************************************)
(* ndt_fast_unary_fixed_typecheck, ndt_fast_binary_fixed_typecheck: the    *)
(* same check for signatures that gumath knows beforehand, without table   *)
(* and without a look at the dtypes of the inputs.  The result is a set    *)
(* with the types and the outer dimensions, or empty.                      *)
(***************************************************************************)
AllEllipses == \A i \in DOMAIN sig.types : sig.types[i].ell = "..."

AllNdim0 == \A i \in DOMAIN sig.types : sig.types[i].dims = <<>>

AllSameSymbol ==
  \A i \in DOMAIN sig.types :
     /\ Len(sig.types[i].dims) = 1
     /\ sig.types[i].dims[1].kind = "sym"
     /\ sig.types[i].dims[1].name = sig.types[1].dims[1].name

FastApplies ==
  /\ sig.nin \in {1, 2} /\ sig.nout = 1
  /\ AllEllipses /\ (AllNdim0 \/ AllSameSymbol)
  /\ \A i \in DOMAIN sig.types : sig.types[i].dtype.kind = "scalar"

FastInnerFits ==
  LET last(c) == c.dims[Len(c.dims)].shape IN
  AllSameSymbol /\ sig.nin = 2 /\ (\A i \in 1 .. 2 : Args[i].dims # <<>>)
    => last(Args[1]) = last(Args[2]) \/ 1 \in {last(Args[1]), last(Args[2])}

\* Faulty variant: the second argument is forgotten.
FastShape_FirstOnly == Shape(Args[1].dims)

FastShape ==
  FoldLeft(LAMBDA v, c : IF v = NoShape THEN v ELSE Resolve(v, Shape(c.dims)),
           Shape(Args[1].dims), Tail(Args))

FastOutput(shape, dtype) ==
  LET fresh == Type(AddDims(shape, <<>>), dtype) IN
  IF ~Given THEN {fresh}
  ELSE IF call.check THEN {call.outs[1]} \cap {fresh}
  ELSE {Type(BroadcastTo(call.outs[1].dims, shape, 0, FALSE), dtype)}

FastTypecheck ==
  LET dtype == Scalar(sig.types[sig.nin + 1].dtype)
      shape == FastShape
      ins   == [i \in 1 .. sig.nin |->
                  Type(BroadcastTo(Args[i].dims, shape, 0, FALSE), Args[i].dtype)]
  IN IF (Given /\ call.outs[1].dtype # dtype) \/ ~FastInnerFits \/ shape = NoShape
     THEN {}
     ELSE { [types |-> Append(ins, out), outer |-> Len(shape) - IF AllSameSymbol THEN 1 ELSE 0] :
              out \in FastOutput(shape, dtype) }

-----------------------------------------------------------------------------
(***************************************************************************)
(* The reference: which types a pattern stands for when its symbols stand  *)
(* for the values of b.                                                    *)
(***************************************************************************)
\* What a named ellipsis stands for.
Outer(c, n) ==
  [i \in 1 .. n |-> CASE c.dims[i].kind = "fixed" -> <<c.dims[i].shape>>
                      [] c.dims[i].kind = "var"   -> c.dims[i].lists
                      [] c.dims[i].kind = "array" -> <<>>]

DenotesDim(b, q, c) ==
  CASE q.kind = "fixed" -> /\ c.dims[1].kind = "fixed" /\ c.dims[1].shape = q.shape
                           /\ Ordered(q.order, c)
    [] q.kind = "sym"   -> /\ c.dims[1].kind = "fixed" /\ c.dims[1].shape = b[q.name]
                           /\ Ordered(q.order, c)
    [] OTHER            -> c.dims[1].kind = q.kind

DenotesDtype(b, q, c) ==
  /\ IsOptional(c) = q.opt
  /\ q.kind = "scalar" => c.dims = <<>> /\ c.dtype.name = q.name
  /\ q.kind = "typevar" => c = b[q.name]

Denotes(b, p, c) ==
  LET n == IF p.ell = "none" THEN 0 ELSE Taken(p, c) IN
  /\ Len(c.dims) >= n + Len(p.dims) /\ n >= 0
  /\ p.ell # "none" =>
       Ordered(p.order, c) /\ \A i \in 1 .. n : c.dims[i].kind = EllipsisKind(p.ell)
  /\ p.ell \notin {"none", "..."} => b[p.ell] = Outer(c, n)
  /\ \A i \in DOMAIN p.dims : DenotesDim(b, p.dims[i], From(c, n + i))
  /\ DenotesDtype(b, p.dtype, From(c, n + Len(p.dims) + 1))

\* The symbols of the signature, with their values in the table t.
BindingOf(t) ==
  [key \in DOMAIN t |->
     CASE t[key].tag = "FixedSeq" -> [i \in DOMAIN t[key].value |-> <<t[key].value[i]>>]
       [] t[key].tag = "ArraySeq" -> [i \in 1 .. t[key].value |-> <<>>]
       [] t[key].tag = "VarSeq"   -> Outer(t[key].value, t[key].size)
       [] OTHER                   -> t[key].value]

Binding == BindingOf(tbl)

\* What each symbol may stand for, given the arguments.
Symbols(p) ==
  { <<"dim", p.dims[i].name>> : i \in { j \in DOMAIN p.dims : p.dims[j].kind = "sym" } }
  \cup (IF p.dtype.kind = "typevar" THEN {<<"type", p.dtype.name>>} ELSE {})
  \cup (IF p.ell \in {"none", "..."} THEN {} ELSE {<<"ellipsis", p.ell>>})

Candidates(kind) ==
  UNION { CASE kind = "dim" -> { c.dims[i].shape : i \in { j \in DOMAIN c.dims : c.dims[j].kind = "fixed" } }
            [] kind = "type" -> { From(c, i) : i \in 1 .. Len(c.dims) + 1 }
            [] kind = "ellipsis" -> { Outer(c, n) : n \in 0 .. Len(c.dims) }
          : c \in { Args[i] : i \in DOMAIN Args } }

BindingsOf(symbols) ==
  FoldSet(LAMBDA s, bs : { (s[2] :> v) @@ b : v \in Candidates(s[1]), b \in bs }, {<<>>}, symbols)

OuterShape(i) == Shape(SubSeq(Args[i].dims, 1, Taken(sig.types[i], Args[i])))

\* Lengths that NumPy would broadcast.
Compatible(v, w) ==
  \A k \in 0 .. (IF Len(v) <= Len(w) THEN Len(v) ELSE Len(w)) - 1 :
     LET m == v[Len(v) - k]  n == w[Len(w) - k] IN m = n \/ 1 \in {m, n}

-----------------------------------------------------------------------------
(***************************************************************************)
(* Properties.                                                             *)
(***************************************************************************)
\* ndt_typecheck succeeds only if one value of every symbol makes each type
\* of the signature stand for the argument at its place.
Sound ==
  pc = "ok" => \A i \in DOMAIN Args : Denotes(Binding, sig.types[i], Args[i])

\* Arguments are refused only if no value of the symbols fits them, or if
\* their outer dimensions cannot be broadcast.  Ragged arguments are also
\* refused if their items differ in size.
Complete ==
  pc = "error" /\ Arity /\ next <= Len(Args) =>
    \/ \A b \in BindingsOf(UNION { Symbols(sig.types[i]) : i \in DOMAIN Args }) :
         \E i \in DOMAIN Args : ~Denotes(b, sig.types[i], Args[i])
    \/ Ellipsis = "..." /\ \E i, j \in DOMAIN Args : ~Compatible(OuterShape(i), OuterShape(j))
    \/ Ellipsis = "var" /\ \E i, j \in DOMAIN Args :
         ItemSize[Args[i].dtype.name] # ItemSize[Args[j].dtype.name]

\* ndt_typecheck accepts the arguments that fit and no others (match.c).
AcceptsWhatFits == Sound /\ Complete

\* After broadcasting all types have the same outer dimensions, and at every
\* index an input still reads the item that it has there: dimensions that it
\* does not have are ignored and dimensions of length one are read at 0.
BroadcastReads ==
  pc = "ok" /\ Ellipsis = "..." =>
    /\ \A i \in DOMAIN types :
         Shape(SubSeq(types[i].dims, 1, outer)) = Shape(SubSeq(types[1].dims, 1, outer))
    /\ \A i \in 1 .. sig.nin :
         LET old == Args[i].dims
             new == Len(types[i].dims) - Len(old)
         IN \A ix \in Indices(Shape(types[i].dims)) :
              LET at == [k \in DOMAIN old |-> IF old[k].shape = 1 THEN 0 ELSE ix[new + k]] IN
              /\ \A k \in DOMAIN old : at[k] < old[k].shape
              /\ Address(types[i].dims, ix) = Address(old, at)

\* A type variable that stands for an array brings the steps of that array.
BringsSteps(p) == IsArray(Base(p)) /\ ~IsCContiguous(Base(p).dims)

\* Outputs get the order that is asked for, unless it is asked for twice, of
\* array dimensions below an ellipsis, or as Fortran order of some dimensions
\* only and those are not all fixed.
GetsOrder(p) ==
  LET outside == IF p.ell = "none" THEN "NA" ELSE p.order
      orders  == { p.dims[k].order : k \in DOMAIN p.dims }
  IN \/ {outside} \cup orders \subseteq {"NA"}
     \/ /\ {outside} \cup orders \subseteq {"NA", "C"} /\ ~BringsSteps(p)
        /\ \A k \in DOMAIN p.dims : p.dims[k].kind # "array"
     \/ outside = "F" /\ orders \subseteq {"NA"}
     \/ /\ outside = "NA"
        /\ \E i \in FortranFrom(p) : \A k \in DOMAIN p.dims : k # i => p.dims[k].order = "NA"

\* An inferred output is what its type in the signature stands for; it has
\* one place for each index and no place unused, in whatever order; an
\* explicit output that is checked is taken as it is.
OutputsHaveTheirPlaces ==
  pc = "ok" =>
    \A i \in sig.nin + 1 .. Len(types) :
       IF Given
       THEN call.check => types[i] = Args[i]
       ELSE /\ GetsOrder(sig.types[i]) => Denotes(Binding, sig.types[i], types[i])
            /\ IsArray(types[i]) /\ ~BringsSteps(sig.types[i]) =>
                 LET ixs == Indices(Shape(types[i].dims)) IN
                 { Address(types[i].dims, ix) : ix \in ixs } = 0 .. Cardinality(ixs) - 1

\* Where the optimized checks of gumath apply they give what the general one
\* gives, up to the steps of dimensions with one item.  They refuse explicit
\* outputs that are not contiguous.  The other direction is claimed for
\* elementwise signatures: those with an inner dimension broadcast it as well.
WithoutIdleSteps(c) ==
  [c EXCEPT !.dims = [i \in DOMAIN @ |-> IF @[i].shape <= 1 THEN Fixed(@[i].shape, 0) ELSE @[i]]]

FastAgrees ==
  /\ pc \in {"ok", "error"} /\ FastApplies /\ Arity
  /\ \A i \in DOMAIN Args : IsArray(Args[i])
  /\ \A i \in 1 .. sig.nin : Args[i].dtype = Scalar(sig.types[i].dtype)
  /\ Given => call.check /\ CopyContiguous(call.outs[1]) = call.outs[1]
  => LET fast == FastTypecheck IN
     /\ pc = "ok" =>
          \E r \in fast :
             /\ r.outer = outer
             /\ \A i \in DOMAIN types : WithoutIdleSteps(r.types[i]) = WithoutIdleSteps(types[i])
     /\ pc = "error" /\ AllNdim0 /\ ~Given => fast = {}

\* A call with a dtype argument finds the kernel again when the inferred
\* output is passed back.  It does not if the output has an outer dimension
\* with at most one item, whose step broadcasting clears; if the contiguous type
\* does not have the order that is required; if a type variable stands for an
\* array that is not contiguous; or if ragged dimensions get items of another
\* size.
CheckedAgain ==
  prev # <<>> /\ pc \in {"ok", "error"} =>
    \/ pc = "ok" /\ types = prev
    \/ Ellipsis = "..." /\ \E i \in 1 .. Taken(sig.types[Len(prev)], prev[Len(prev)]) :
                              prev[Len(prev)].dims[i].shape <= 1
    \/ LET p == sig.types[Len(prev)]
           c == prev[Len(prev)]
           n == IF p.ell = "none" THEN 0 ELSE Taken(p, c)
       IN \/ p.ell # "none" /\ ~Ordered(p.order, c)
          \/ \E i \in DOMAIN p.dims : ~Ordered(p.dims[i].order, From(c, n + i))
    \/ \E i \in 1 .. sig.nin :
         /\ sig.types[i].dtype.kind = "typevar" /\ Len(sig.types[i].dims) <= Len(Args[i].dims)
         /\ LET c == From(Args[i], Len(sig.types[i].dims) + 1) IN IsArray(c) /\ ~IsCContiguous(c.dims)
    \/ Ellipsis = "var" /\ \E i, j \in DOMAIN prev :
         ItemSize[prev[i].dtype.name] # ItemSize[prev[j].dtype.name]

\* Whichever check looks at the arguments, the optimized one of gumath, the
\* general one, or the general one a second time, the answer is the same.
ChecksAgree == FastAgrees /\ CheckedAgain

\* "Simultaneously use the accumulator as the 'out' argument" (_gumath.c): an
\* output that is broadcast is written only where it has items.
OutputStaysInside ==
  pc = "ok" /\ Given =>
    \A i \in sig.nin + 1 .. Len(types) : IsArray(types[i]) =>
       { Address(types[i].dims, ix) : ix \in Indices(Shape(types[i].dims)) }
         \subseteq { Address(Args[i].dims, ix) : ix \in Indices(Shape(Args[i].dims)) }
=============================================================================
