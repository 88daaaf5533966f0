---------------------------- MODULE KernelDispatch --------------------------
(***************************************************************************)
(* From the memory layout of the arguments to the kernel that is applied   *)
(* to them: the kernel strategy (libndtypes/util.c), the choice among the  *)
(* kernels of a kernel set (libgumath/apply.c), and the loops that hand    *)
(* the elements to it (libgumath/xndloops.c, nploops.c).                   *)
(*                                                                         *)
(* An argument is an ndarray of fixed dimensions, or has var dimensions,   *)
(* of which only their presence matters here.  Addresses count items: the  *)
(* item size is a common factor of all strides of an argument.             *)
(***************************************************************************)
EXTENDS Integers, Sequences, SequencesExt

\* An ndarray: shape and step of every dimension, and the linear index of
\* its first element.
Ndim(x) == Len(x.dims)
ShapeOf(x) == [d \in 1..Ndim(x) |-> x.dims[d].shape]
Inner(x, outer) == Ndim(x) - outer

-----------------------------------------------------------------------------
(* Flags: what holds of all arguments (ndtypes.h).                         *)

InnerC == "inner C"             InnerF == "inner Fortran"
InnerStrided == "inner strided" InnerXnd == "inner xnd"
ExtC == "ext C"                 ExtZero == "ext zero"
ExtStrided == "ext strided"

AllFlags == {InnerC, InnerF, InnerStrided, InnerXnd, ExtC, ExtZero, ExtStrided}

Sum(seq) == FoldLeft(LAMBDA a, b : a + b, 0, seq)
Product(seq) == FoldLeft(LAMBDA a, b : a * b, 1, seq)

\* The steps of a contiguous array with the inner dimensions of x.
CStep(x, d) == Product(SubSeq(ShapeOf(x), d + 1, Ndim(x)))
FStep(x, outer, d) == Product(SubSeq(ShapeOf(x), outer + 1, d - 1))

Broken(x, d, step) == x.dims[d].shape > 1 /\ x.dims[d].step # step

\* The flags an ndarray takes away from the call.
check_c(x, outer) ==
    IF \E d \in (outer + 1)..Ndim(x) : Broken(x, d, CStep(x, d)) THEN {InnerC, ExtC, ExtZero}
    ELSE IF outer = 0 THEN {ExtC, ExtZero}
    ELSE IF ~Broken(x, outer, CStep(x, outer)) THEN {}
    ELSE IF x.dims[outer].step # 0 THEN {ExtC, ExtZero}
    ELSE {ExtC}

\* Faulty variant: the outer dimensions are counted in.
check_f_All(x, outer) ==
    IF \E d \in 1..Ndim(x) : Broken(x, d, FStep(x, 0, d)) THEN {InnerF} ELSE {}

check_f(x, outer) ==
    IF \E d \in (outer + 1)..Ndim(x) : Broken(x, d, FStep(x, outer, d)) THEN {InnerF} ELSE {}

\* Faulty variant: a loop is taken to be there without outer dimensions.
check_strided_Always(outer) == {}

check_strided(outer) == IF outer = 0 THEN {ExtStrided} ELSE {}

check_var == AllFlags \ {InnerXnd}

Lost(x, outer) ==
    IF x.var THEN check_var
    ELSE check_strided(outer) \cup check_c(x, outer) \cup check_f(x, outer)

select_flags(args, outer) ==
    IF \E i \in DOMAIN args : ~args[i].var /\ outer > Ndim(args[i]) THEN [ok |-> FALSE]
    ELSE [ok |-> TRUE, flags |-> AllFlags \ UNION {Lost(args[i], outer) : i \in DOMAIN args}]

-----------------------------------------------------------------------------
(* Kernel selection.                                                       *)

Preference == <<"OptC", "OptZ", "OptS", "C", "Fortran", "Strided", "Xnd">>

Request(kernel, flags) ==
    CASE kernel = "OptC"    -> {ExtC, InnerC} \subseteq flags
      [] kernel = "OptZ"    -> {ExtC, InnerC} \subseteq flags \/ {ExtZero, InnerC} \subseteq flags
      [] kernel = "OptS"    -> {ExtStrided, InnerStrided} \subseteq flags
      [] kernel = "C"       -> InnerC \in flags
      [] kernel = "Fortran" -> InnerF \in flags
      [] kernel = "Strided" -> InnerStrided \in flags
      [] kernel = "Xnd"     -> InnerXnd \in flags

NoKernel == "none"

select_kernel(flags, set) ==
    LET fit == {i \in DOMAIN Preference : Preference[i] \in set /\ Request(Preference[i], flags)} IN
    IF fit = {} THEN NoKernel ELSE Preference[Min(fit)]

-----------------------------------------------------------------------------
(* The loops.                                                              *)

\* The outer dimensions that gm_apply traverses itself.
LoopDims(kernel, outer) == IF kernel \in {"OptC", "OptZ", "OptS"} THEN outer - 1 ELSE outer

\* The position of the element v after the first n dimensions were followed.
xnd_fixed_dim_next(x, v, n) ==
    x.index + Sum([d \in 1..n |-> v[d] * x.dims[d].step])

Address(x, v) == xnd_fixed_dim_next(x, v, Ndim(x))

\* A row of slices taken out of the outer dimensions (xnd_slice).
Sliced(x, row) ==
    [x EXCEPT !.index = xnd_fixed_dim_next(x, [d \in DOMAIN row |-> row[d].start], Len(row)),
              !.dims = [d \in DOMAIN x.dims |->
                            IF d \in DOMAIN row
                            THEN [x.dims[d] EXCEPT !.shape = row[d].stop - row[d].start]
                            ELSE x.dims[d]]]

\* The place of v in C order (in Fortran order) of the dimensions after n.
COrder(x, v, n) ==
    Sum([i \in 1..(Ndim(x) - n) |-> v[n + i] * CStep(x, n + i)])
FOrder(x, v, n) ==
    Sum([i \in 1..(Ndim(x) - n) |-> v[n + i] * FStep(x, n, n + i)])

\* Where a kernel with Xnd signature that is handed x finds the element v.
gm_xnd_map(kernel, x, v, outer) ==
    LET n == LoopDims(kernel, outer)
        here == xnd_fixed_dim_next(x, v, n)
    IN CASE kernel \in {"OptC", "C"} -> here + COrder(x, v, n)
         [] kernel = "Fortran" -> here + FOrder(x, v, n)
         [] kernel = "OptZ" ->
              here + COrder(x, v, outer) + (IF x.dims[outer].step = 0 THEN 0 ELSE v[outer] * CStep(x, outer))
         [] kernel \in {"OptS", "Xnd"} -> Address(x, v)

\* The room for the inner dimensions of all arguments.
sum_inner_dimensions(args, outer) ==
    Sum([k \in DOMAIN args |->
            IF Inner(args[k], outer) = 0 THEN 1 ELSE Inner(args[k], outer)])

\* gm_np_convert_xnd: the arguments as one list of dimensions and one of
\* steps.  A scalar is expanded into one dimension of size 1.
gm_as_ndarray(x) == IF x.dims = <<>> THEN [x EXCEPT !.dims = <<[shape |-> 1, step |-> 0]>>] ELSE x

\* Faulty variant: the steps of one argument after those of another.
np_steps_ByArgument(args, outer) ==
    FlattenSeq([k \in DOMAIN args |->
        [d \in 1..Ndim(gm_as_ndarray(args[k])) |-> gm_as_ndarray(args[k]).dims[d].step]])

np_steps(args, outer) ==
    FlattenSeq([d \in 1..outer |-> [k \in DOMAIN args |-> args[k].dims[d].step]])
    \o FlattenSeq([k \in DOMAIN args |-> LET nd == gm_as_ndarray(args[k]) IN
                        [d \in 1..Inner(nd, outer) |-> nd.dims[outer + d].step]])

np_dimensions(args, outer) ==
    [d \in 1..outer |-> args[1].dims[d].shape]
    \o FlattenSeq([k \in DOMAIN args |-> LET nd == gm_as_ndarray(args[k]) IN
                        [d \in 1..Inner(nd, outer) |-> nd.dims[outer + d].shape]])

\* gm_np_map: all but the last outer dimension are traversed; the kernel
\* goes through the first dimension left, with one step for each argument.
\* The addresses of argument k, in the order of the calls.
gm_np_map(args, k, outer) ==
    LET nargs == Len(args)
        dimensions == np_dimensions(args, outer)
        steps == np_steps(args, outer)
        reach[n \in Nat] ==             \* after n dimensions
            IF n = 0 THEN <<args[k].index>>
            ELSE FlattenSeq([j \in DOMAIN reach[n - 1] |->
                    [i \in 1..dimensions[n] |->
                        reach[n - 1][j] + (i - 1) * steps[(n - 1) * nargs + k]]])
    IN reach[IF outer <= 1 THEN 1 ELSE outer]
=============================================================================
