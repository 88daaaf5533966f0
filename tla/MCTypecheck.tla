---------------------------- MODULE MCTypecheck -----------------------------
(***************************************************************************)
(* Signatures of gumath's kernels and examples, and of the tests of        *)
(* ndt_typecheck, applied to small arrays.                                 *)
(***************************************************************************)
EXTENDS Typecheck

MCItemSize == [i |-> 4, j |-> 4, f |-> 8]

\* Patterns.
Concrete(name) == [kind |-> "scalar", name |-> name, opt |-> FALSE]
Optional(name) == [kind |-> "scalar", name |-> name, opt |-> TRUE]
Typevar(name) == [kind |-> "typevar", name |-> name, opt |-> FALSE]
AnyKind       == [kind |-> "any", opt |-> FALSE]
Sym(name)     == [kind |-> "sym", name |-> name, order |-> "NA"]
Dim(n)        == [kind |-> "fixed", shape |-> n, order |-> "NA"]
Order(q, o)   == [q EXCEPT !.order = o]
P(ell, dims, dtype) == [ell |-> ell, order |-> "NA", dims |-> dims, dtype |-> dtype]
Sig(nin, ts) == [nin |-> nin, nout |-> Len(ts) - nin, types |-> ts, pdist |-> FALSE]

\* Arguments.
Array(shape, name) == Type(AddDims(shape, <<>>), [name |-> name, opt |-> FALSE])
Fortran(shape, name) == Type(ToFortran(AddDims(shape, <<>>)), [name |-> name, opt |-> FALSE])
Reversed(n, name) == Type(<<Fixed(n, -1)>>, [name |-> name, opt |-> FALSE])
Opt(c) == [c EXCEPT !.dtype.opt = TRUE]
Var(lists, name) == Type([k \in DOMAIN lists |-> [kind |-> "var", lists |-> lists[k]]],
                         [name |-> name, opt |-> FALSE])
Flexible(n, name) == Type(ArrayDims(n), [name |-> name, opt |-> FALSE])

UpTo(n, set) == UNION { [1 .. k -> set] : k \in 0 .. n }

Arrays(n, set, names) == { Array(shape, name) : shape \in UpTo(n, set), name \in names }

Call(s, ins, outs, check) == [sig |-> s, ins |-> ins, outs |-> outs, check |-> check]

Infers(s, Pool(_)) ==
  { Call(s, ins, <<>>, FALSE) :
      ins \in { x \in [1 .. s.nin -> UNION { Pool(i) : i \in 1 .. s.nin }] :
                  \A i \in 1 .. s.nin : x[i] \in Pool(i) } }

-----------------------------------------------------------------------------
I == Concrete("i")
F == Concrete("f")

Add    == Sig(2, <<P("...", <<>>, I), P("...", <<>>, I), P("...", <<>>, I)>>)
Sin    == Sig(1, <<P("...", <<>>, I), P("...", <<>>, F)>>)
SinOpt == Sig(1, <<P("...", <<>>, Optional("i")), P("...", <<>>, Optional("f"))>>)
Quat   == Sig(2, <<P("...", <<Sym("N")>>, I), P("...", <<Sym("N")>>, I), P("...", <<Sym("N")>>, I)>>)
Scale  == Sig(2, <<P("...", <<Sym("N")>>, I), P("...", <<>>, I), P("...", <<Sym("N")>>, I)>>)
Matmul == Sig(2, <<P("...", <<Sym("M"), Sym("N")>>, Typevar("T")),
                   P("...", <<Sym("N"), Sym("P")>>, Typevar("T")),
                   P("...", <<Sym("M"), Sym("P")>>, Typevar("T"))>>)
Divmod == Sig(2, <<P("...", <<>>, I), P("...", <<>>, I), P("...", <<>>, I), P("...", <<>>, F)>>)
Named  == Sig(2, <<P("A", <<>>, I), P("A", <<>>, Typevar("T")), P("A", <<Dim(2)>>, Typevar("T"))>>)
VarSin == Sig(1, <<P("var", <<>>, I), P("var", <<>>, F)>>)
VarAdd == Sig(2, <<P("var", <<>>, I), P("var", <<>>, Typevar("T")), P("var", <<>>, I)>>)
ArrSin == Sig(1, <<P("array", <<>>, I), P("array", <<>>, F)>>)
ArrAdd == Sig(2, <<P("array", <<>>, I), P("array", <<>>, I), P("array", <<[kind |-> "array", order |-> "NA"]>>, I)>>)
Pdist  == [Sig(1, <<P("none", <<Sym("N"), Sym("M")>>, F), P("none", <<Sym("P")>>, F)>>) EXCEPT !.pdist = TRUE]
Orders == Sig(2, <<[P("...", <<Sym("N")>>, I) EXCEPT !.order = "C"],
                   P("...", <<Order(Sym("N"), "F"), Sym("M")>>, I),
                   [P("...", <<Sym("M"), Sym("N")>>, F) EXCEPT !.order = "F"]>>)
OutF   == Sig(1, <<P("...", <<Order(Sym("N"), "C"), Dim(2)>>, AnyKind),
                   P("...", <<Order(Dim(3), "F"), Dim(2)>>, F)>>)
Pair   == Sig(2, <<P("none", <<>>, Typevar("T")), P("none", <<Sym("N")>>, Typevar("T")),
                   P("none", <<Sym("N")>>, Typevar("T"))>>)
Stack  == Sig(2, <<P("none", <<>>, Typevar("T")), P("none", <<Sym("N")>>, I), P("none", <<Sym("N")>>, Typevar("T"))>>)
ArrOut == Sig(1, <<P("...", <<>>, I), P("...", <<[kind |-> "array", order |-> "NA"]>>, F)>>)
Nested == Sig(1, <<P("...", <<Sym("N")>>, I), P("...", <<Sym("N"), Order(Dim(3), "F"), Dim(2)>>, F)>>)
Lost   == Sig(1, <<P("none", <<Sym("N"), Sym("M")>>, I), P("none", <<Order(Sym("N"), "F"), Sym("M")>>, F)>>)
Named2 == Sig(1, <<P("A", <<>>, I), P("A", <<Order(Dim(2), "F"), Order(Dim(3), "F")>>, F)>>)
ArrC   == Sig(1, <<P("A", <<>>, I), [P("A", <<[kind |-> "array", order |-> "NA"]>>, F) EXCEPT !.order = "C"]>>)
AnyOut == Sig(1, <<P("...", <<>>, I), P("...", <<>>, AnyKind)>>)
Const  == Sig(0, <<P("none", <<>>, F)>>)

-----------------------------------------------------------------------------
Small   == Arrays(2, 0 .. 3, {"i"})
Shapely == Arrays(2, {0, 1, 3}, {"i"}) \cup {Fortran(<<2, 3>>, "i"), Array(<<2, 3>>, "i"),
              Fortran(<<3, 1>>, "i"), Reversed(3, "i"), Array(<<3>>, "f"), Opt(Array(<<3>>, "i"))}
Raggeds == { Var(l, name) : l \in {<<<<2>>>>, <<<<3>>>>, <<<<2>>, <<1, 0>>>>, <<<<2>>, <<0, 1>>>>,
                                  <<<<3>>, <<1, 0, 2>>>>}, name \in {"i", "j", "f"} }
Lists   == { Flexible(n, name) : n \in 0 .. 2, name \in {"i", "f"} }
Matrices == { Array(s, name) : s \in [1 .. 2 -> {1, 2, 3}] \cup [1 .. 3 -> {1, 2}], name \in {"i"} }
              \cup {Array(<<2, 3>>, "f"), Array(<<3>>, "i"), Fortran(<<3, 2>>, "i")}

InferringCalls ==
  Infers(Add, LAMBDA i : Small) \cup Infers(Quat, LAMBDA i : Shapely)
  \cup Infers(Scale, LAMBDA i : Shapely) \cup Infers(Matmul, LAMBDA i : Matrices)
  \cup Infers(Orders, LAMBDA i : Matrices \cup Shapely)
  \cup Infers(Named, LAMBDA i : Shapely \cup Lists)
  \cup UNION { Infers(s, LAMBDA i : Shapely \cup Raggeds \cup Lists) : s \in {Sin, SinOpt, VarSin, ArrSin, OutF, Nested, Lost, Named2, AnyOut, ArrC} }
  \cup Infers(VarAdd, LAMBDA i : Raggeds) \cup Infers(ArrAdd, LAMBDA i : Lists)
  \cup Infers(Stack, LAMBDA i : Raggeds \cup Lists \cup Arrays(1, {0, 3}, {"i"}) \cup {Reversed(3, "i")}) \cup Infers(ArrOut, LAMBDA i : Shapely)
  \cup Infers(Pair, LAMBDA i : Shapely) \cup Infers(Divmod, LAMBDA i : Arrays(1, 0 .. 2, {"i"}))
  \cup { Call(Pdist, <<Array(<<n, m>>, "f")>>, <<>>, FALSE) : n \in 0 .. 3, m \in 0 .. 2 }
  \cup { Call(Const, <<>>, <<>>, FALSE), Call(Add, <<Array(<<>>, "i")>>, <<>>, FALSE),
         Call(Sin, <<Array(<<>>, "i")>>, <<>>, TRUE) }

\* Calls with explicit outputs, and folds: the accumulator is the first input
\* and the output.
ExplicitCalls ==
  { Call(s, ins, <<out>>, TRUE) : s \in {Add, Quat}, ins \in Shapely \X Shapely,
                                  out \in {Array(<<3>>, "i"), Array(<<1, 3>>, "i"), Array(<<0>>, "i"),
                                           Array(<<3>>, "f"), Reversed(3, "i"), Fortran(<<2, 3>>, "i")} }
Folds == { Call(Add, <<acc, x>>, <<acc>>, FALSE) : acc \in Arrays(1, {1, 3}, {"i"}), x \in Small }

\* A fold of the rows of a matrix with a kernel that has an inner dimension:
\* x[0] + x[1] + ... would be collected in acc.
FoldCalls == { Call(Quat, <<Array(<<n>>, "i"), Array(<<m, n>>, "i")>>, <<Array(<<n>>, "i")>>, FALSE) :
                 m \in 1 .. 3, n \in 1 .. 4 }

MCCalls == InferringCalls \cup ExplicitCalls \cup Folds
=============================================================================
