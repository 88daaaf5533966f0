------------------------------- MODULE Reshape ------------------------------
(***************************************************************************)
(* Another shape for the items of an array (shape.c and the algorithm of   *)
(* NumPy in contrib.h).  The dimensions are those of module Broadcast; the *)
(* memory block and the linear index of the array stay as they are.        *)
(***************************************************************************)
EXTENDS Broadcast

CONSTANT MaxCount       \* the largest int64_t, as a number of items

Steps(dims) == [i \in DOMAIN dims |-> dims[i].step]
WithSteps(shape, steps) == [i \in DOMAIN shape |-> Fixed(shape[i], steps[i])]

Refused(err) == [err |-> err]
Reshaped(dims) == [err |-> "none", dims |-> dims]

\* The number of items, or -1: also when it is zero in the end.
prod(shape) ==
    FoldLeft(LAMBDA p, n : IF p < 0 \/ p * n > MaxCount THEN -1 ELSE p * n, 1, shape)

zero_in_shape(shape) == \E i \in DOMAIN shape : shape[i] = 0

init_contiguous_c_strides(shape) ==
    [i \in DOMAIN shape |-> Product(SubSeq(shape, i + 1, Len(shape)))]
init_contiguous_f_strides(shape) == [i \in DOMAIN shape |-> Product(SubSeq(shape, 1, i - 1))]

-----------------------------------------------------------------------------
(* xnd_nocopy_reshape.  Dimensions oi..oj of the array and ni..nj of the   *)
(* new shape have the same number of items: the former must be combined to *)
(* one, which the latter then divide.                                      *)

\* The ends of two such ranges that start at oi and ni.
RECURSIVE Ranges(_, _, _, _, _, _)
Ranges(old, new, oj, nj, op, np) ==
    IF np = op THEN [oj |-> oj, nj |-> nj]
    ELSE IF np < op THEN Ranges(old, new, oj, nj + 1, op, np * new[nj + 1])
    ELSE Ranges(old, new, oj + 1, nj, op * old[oj + 1].shape, np)

\* Faulty variant: dimensions are combined whatever their steps.
Combined_Always(old, oi, oj, is_f_order) == TRUE

Combined(old, oi, oj, is_f_order) ==
    \A k \in oi..(oj - 1) :
        IF is_f_order THEN old[k + 1].step = old[k].shape * old[k].step
        ELSE old[k].step = old[k + 1].shape * old[k + 1].step

\* The steps of the new dimensions ni..nj.
Divided(old, new, oi, oj, ni, nj, is_f_order) ==
    [k \in 1..(nj - ni + 1) |->
        IF is_f_order THEN old[oi].step * Product(SubSeq(new, ni, ni + k - 2))
        ELSE old[oj].step * Product(SubSeq(new, ni + k, nj))]

RECURSIVE RangesFrom(_, _, _, _, _, _)
RangesFrom(old, new, oi, ni, steps, is_f_order) ==
    IF ni > Len(new) \/ oi > Len(old) THEN [ok |-> TRUE, ni |-> ni, steps |-> steps]
    ELSE LET r == Ranges(old, new, oi, ni, old[oi].shape, new[ni]) IN
         IF ~Combined(old, oi, r.oj, is_f_order) THEN [ok |-> FALSE]
         ELSE RangesFrom(old, new, r.oj + 1, r.nj + 1,
                         steps \o Divided(old, new, oi, r.oj, ni, r.nj, is_f_order), is_f_order)

\* The dimensions of one item that end the new shape.
xnd_nocopy_reshape(new, dims, is_f_order) ==
    LET old == SelectSeq(dims, LAMBDA d : d.shape # 1)
        r == RangesFrom(old, new, 1, 1, <<>>, is_f_order) IN
    IF ~r.ok THEN [ok |-> FALSE]
    ELSE IF r.ni = 1 /\ is_f_order THEN [ok |-> TRUE, steps |-> "undefined"]
    ELSE LET last == IF r.ni = 1 THEN 1
                     ELSE r.steps[r.ni - 1] * (IF is_f_order THEN new[r.ni - 1] ELSE 1)
         IN [ok |-> TRUE, steps |-> r.steps \o [k \in 1..(Len(new) - r.ni + 1) |-> last]]

xnd_reshape(dims, shape, order) ==
    LET use_fortran == order = "F" \/ (order = "A" /\ IsFContiguous(dims)) IN
    IF prod(Shape(dims)) < 0 \/ prod(shape) < 0 THEN Refused("too many")
    ELSE IF prod(Shape(dims)) # prod(shape) THEN Refused("count")
    ELSE IF Shape(dims) = shape THEN Reshaped(dims)
    ELSE IF zero_in_shape(shape) THEN Reshaped(WithSteps(shape, [i \in DOMAIN shape |-> 0]))
    ELSE IF ~use_fortran /\ IsCContiguous(dims)
         THEN Reshaped(WithSteps(shape, init_contiguous_c_strides(shape)))
    ELSE IF use_fortran /\ IsFContiguous(dims)
         THEN Reshaped(WithSteps(shape, init_contiguous_f_strides(shape)))
    ELSE LET r == xnd_nocopy_reshape(shape, dims, use_fortran) IN
         IF r.ok THEN Reshaped(WithSteps(shape, r.steps)) ELSE Refused("inplace")
=============================================================================
