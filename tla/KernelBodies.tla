----------------------------- MODULE KernelBodies ---------------------------
(***************************************************************************)
(* What a numeric kernel does with the arrays it is handed: the loops over *)
(* one dimension in their three forms and the scalar form, the check of    *)
(* exponents, and the bitmaps of missing values                            *)
(* (libgumath/kernels/common.c, common.h; the macros CPU_HOST_BINARY and   *)
(* CUDA_HOST_BINARY and their like).                                       *)
(*                                                                         *)
(* An argument is [shape, step, index, optional, data, valid, extent]:     *)
(* data and valid are functions on the linear indices of its memory block. *)
(* For a flexible array data is the array itself and starts at 0.  A       *)
(* number is a model value or one of -1, 0, 1.                             *)
(***************************************************************************)
EXTENDS Integers, Sequences, SequencesExt

\* The positions a loop over one dimension goes through.
Strided(x) == [i \in 1..x.shape |-> x.index + (i - 1) * x.step]
Contiguous(x) == [i \in 1..x.shape |-> x.index + (i - 1)]
FromStart(x) == [i \in 1..x.shape |-> i - 1]
Scalar(x) == <<x.index>>

Write(x, positions, values) ==
    [x EXCEPT !.data = [p \in DOMAIN @ |->
        IF p \in Range(positions) THEN values[CHOOSE i \in DOMAIN positions : positions[i] = p] ELSE @[p]]]

Mark(x, positions, bits) ==
    [x EXCEPT !.valid = [p \in DOMAIN @ |->
        IF p \in Range(positions) THEN bits[CHOOSE i \in DOMAIN positions : positions[i] = p] ELSE @[p]]]

\* The function of the kernel, on one element.
Compute(name, values) == IF name = "equaln" THEN values[1] = values[2] ELSE <<name, values>>

-----------------------------------------------------------------------------
(* Bitmaps.                                                                *)

is_valid(x, p) == x.valid[p]

\* An argument that is not optional has no bitmap.
AllValid(stack, positions, i) ==
    \A k \in 1..(Len(stack) - 1) : stack[k].optional => is_valid(stack[k], positions[k][i])

unary_update_bitmap_1D_S(stack) ==
    Mark(stack[2], Strided(stack[2]),
         [i \in 1..stack[1].shape |-> is_valid(stack[1], Strided(stack[1])[i])])

unary_update_bitmap_0D(stack) ==
    Mark(stack[2], Scalar(stack[2]), <<is_valid(stack[1], stack[1].index)>>)

\* A reduction: the result stays valid while the items are.
unary_reduce_bitmap_1D_S(stack) ==
    Mark(stack[2], Scalar(stack[2]),
         <<is_valid(stack[2], stack[2].index) /\
           \A i \in 1..stack[1].shape : is_valid(stack[1], Strided(stack[1])[i])>>)

\* Faulty variant: a missing value of the second argument is overlooked.
binary_update_bitmap_1D_S_First(stack) ==
    Mark(stack[3], Strided(stack[3]),
         [i \in 1..stack[1].shape |->
            stack[1].optional => is_valid(stack[1], Strided(stack[1])[i])])

binary_update_bitmap_1D_S(stack) ==
    Mark(stack[3], Strided(stack[3]),
         [i \in 1..stack[1].shape |->
            AllValid(stack, [k \in 1..2 |-> Strided(stack[k])], i)])

binary_update_bitmap_0D(stack) ==
    Mark(stack[3], Scalar(stack[3]),
         <<AllValid(stack, [k \in 1..2 |-> Scalar(stack[k])], 1)>>)

\* equaln: two missing values are equal, a missing value differs from all others.
equaln_result(stack, positions, i, equal) ==
    LET x == stack[1].optional => is_valid(stack[1], positions[1][i])
        y == stack[2].optional => is_valid(stack[2], positions[2][i])
    IN IF x /\ y THEN equal ELSE (stack[1].optional /\ stack[2].optional) /\ ~x /\ ~y

\* The results are looked up from the first element on, but with indices that
\* count from the start of the memory block: at twice the index.
Doubled(x, positions) == [i \in DOMAIN positions |-> x.index + positions[i]]

InBlock(x, positions) == Range(positions) \subseteq DOMAIN x.data

Corrected(stack, positions, places) ==
    [ok |-> InBlock(stack[3], places),
     out |-> IF ~InBlock(stack[3], places) THEN stack[3]
             ELSE Write(stack[3], places,
                    [i \in DOMAIN places |->
                        equaln_result(stack, positions, i, stack[3].data[places[i]])])]

binary_update_bitmap_1D_S_bool(stack) ==
    IF \A k \in 1..2 : ~stack[k].optional THEN [ok |-> TRUE, out |-> stack[3]]
    ELSE Corrected(stack, [k \in 1..2 |-> Strided(stack[k])], Doubled(stack[3], Strided(stack[3])))

binary_update_bitmap_0D_bool(stack) ==
    IF \A k \in 1..2 : ~stack[k].optional THEN [ok |-> TRUE, out |-> stack[3]]
    ELSE Corrected(stack, [k \in 1..2 |-> Scalar(stack[k])], Doubled(stack[3], Scalar(stack[3])))

-----------------------------------------------------------------------------
(* The kernels.  An outcome is an error or the result array.               *)

Error(err) == [err |-> err]
Done(x) == [err |-> "none", out |-> x]

\* Only the first exponent of a call is looked at.
check_power_exp(name, x, positions) ==
    ~(name = "power" /\ positions # <<>> /\ x.data[positions[1]] = -1)

array_shape_check(x, n) == x.shape = n

\* The loop, then the bitmap of an optional result or the result of equaln.
Loop(name, stack, positions, bits(_), bools(_)) ==
    IF ~check_power_exp(name, stack[2], positions[2]) THEN Error("ValueError")
    ELSE LET out == Write(stack[3], positions[3],
                        [i \in DOMAIN positions[3] |->
                            Compute(name, <<stack[1].data[positions[1][i]], stack[2].data[positions[2][i]]>>)])
             after == <<stack[1], stack[2], out>>
         IN IF stack[3].optional THEN Done(bits(after))
            ELSE IF name # "equaln" THEN Done(out)
            ELSE IF bools(after).ok THEN Done(bools(after).out) ELSE Error("out of bounds")

gm_cpu_host_fixed_1D_C(name, stack) ==
    Loop(name, stack, [k \in 1..3 |-> Contiguous(stack[k])],
         binary_update_bitmap_1D_S, binary_update_bitmap_1D_S_bool)

gm_cpu_host_fixed_1D_S(name, stack) ==
    Loop(name, stack, [k \in 1..3 |-> Strided(stack[k])],
         binary_update_bitmap_1D_S, binary_update_bitmap_1D_S_bool)

\* Flexible arrays carry their shapes; their items are never optional.
gm_cpu_host_array_1D_C(name, stack) ==
    IF \A k \in 2..3 : array_shape_check(stack[k], stack[1].shape)
    THEN Loop(name, stack, [k \in 1..3 |-> FromStart(stack[k])],
              binary_update_bitmap_1D_S, binary_update_bitmap_1D_S_bool)
    ELSE Error("ValueError")

gm_cpu_host_0D(name, stack) ==
    Loop(name, stack, [k \in 1..3 |-> Scalar(stack[k])],
         binary_update_bitmap_0D, binary_update_bitmap_0D_bool)

\* On CUDA the result of equaln is read back when the device is done.
AfterSync(name, stack, outcome, sync) ==
    IF name = "equaln" /\ ~stack[3].optional /\ ~sync THEN Error("RuntimeError") ELSE outcome

gm_cuda_host(kernel, name, stack, sync) ==
    AfterSync(name, stack,
        CASE kernel = "OptC" -> gm_cpu_host_fixed_1D_C(name, stack)
          [] kernel = "OptS" -> gm_cpu_host_fixed_1D_S(name, stack)
          [] kernel = "Xnd" -> gm_cpu_host_0D(name, stack), sync)

\* Unary kernels.
UnaryLoop(name, stack, positions, bits(_)) ==
    LET out == Write(stack[2], positions[2],
                  [i \in DOMAIN positions[2] |-> Compute(name, <<stack[1].data[positions[1][i]]>>)])
    IN Done(IF stack[2].optional THEN bits(<<stack[1], out>>) ELSE out)

gm_unary(kernel, name, stack) ==
    CASE kernel = "OptC" -> UnaryLoop(name, stack, [k \in 1..2 |-> Contiguous(stack[k])], unary_update_bitmap_1D_S)
      [] kernel = "OptS" -> UnaryLoop(name, stack, [k \in 1..2 |-> Strided(stack[k])], unary_update_bitmap_1D_S)
      [] kernel = "array" -> IF array_shape_check(stack[2], stack[1].shape)
                             THEN UnaryLoop(name, stack, [k \in 1..2 |-> FromStart(stack[k])], unary_update_bitmap_1D_S)
                             ELSE Error("ValueError")
      [] kernel = "C" -> UnaryLoop(name, stack, [k \in 1..2 |-> Scalar(stack[k])], unary_update_bitmap_0D)

\* A reduction on CUDA, from one dimension to a scalar.
gm_cuda_host_1D_C_reduce(stack) ==
    LET out == [stack[2] EXCEPT !.data[stack[2].index] =
                    <<"reduce", [i \in 1..stack[1].shape |-> stack[1].data[Contiguous(stack[1])[i]]]>>]
    IN Done(IF stack[2].optional THEN unary_reduce_bitmap_1D_S(<<stack[1], out>>) ELSE out)
=============================================================================
