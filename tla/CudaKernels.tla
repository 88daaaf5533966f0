----------------------------- MODULE CudaKernels ----------------------------
(***************************************************************************)
(* gumath's kernels for CUDA (libgumath/kernels/cuda_host_binary.c,        *)
(* cuda_host_unary.c): the rows of the tables are those of the CPU, but    *)
(* there are kernel sets for ndarrays only, and more of them are           *)
(* implemented.                                                            *)
(***************************************************************************)
EXTENDS KernelTables

-----------------------------------------------------------------------------
(* Locations: 4 kernel sets for a combination of two dtypes, 2 for one.    *)

LocationOfUnsigned ==
    [uint8  |-> Case(0, 4, U64 \o I64 \o F \o C),
     uint16 |-> Case(60, 4, U64 \o I64 \o F \o C),
     uint32 |-> Case(120, 4, U64 \o I64 \o F \o C),
     uint64 |-> Case(180, 4, U64)]

LocationOfSigned ==
    [int8  |-> Case(196, 4, U32 \o I64 \o F \o C),
     int16 |-> Case(252, 4, U32 \o I64 \o F \o C),
     int32 |-> Case(308, 4, U32 \o I64 \o F \o C),
     int64 |-> Case(364, 4, U32 \o I64)]

LocationOfInexact ==
    [bfloat16   |-> Case(392, 4, U32 \o I32 \o F \o C),
     float16    |-> Case(444, 4, U32 \o I32 \o F \o C),
     float32    |-> Case(496, 4, U32 \o I32 \o F \o C),
     float64    |-> Case(548, 4, U32 \o I32 \o F \o C),
     complex32  |-> Case(600, 4, U32 \o I32 \o F \o C),
     complex64  |-> Case(652, 4, U32 \o I32 \o F \o C),
     complex128 |-> Case(704, 4, U32 \o I32 \o F \o C)]

binary_kernel_location(t0, t1) ==
    IF t0 \in DOMAIN LocationOfUnsigned THEN Located(LocationOfUnsigned, t0, t1)
    ELSE IF t0 \in DOMAIN LocationOfSigned THEN Located(LocationOfSigned, t0, t1)
    ELSE Located(LocationOfInexact, t0, t1)

\* The case of uint16 has the signed dtypes before the unsigned ones.
LocationOfBits ==
    [bool   |-> Case(0, 4, B \o U64 \o I64),
     uint8  |-> Case(36, 4, B \o U64 \o I64),
     uint16 |-> Case(72, 4, B \o I64 \o U64),
     uint32 |-> Case(108, 4, B \o U64 \o I64),
     uint64 |-> Case(144, 4, B \o U64),
     int8   |-> Case(164, 4, B \o U32 \o I64),
     int16  |-> Case(196, 4, B \o U32 \o I64),
     int32  |-> Case(228, 4, B \o U32 \o I64),
     int64  |-> Case(260, 4, B \o U32 \o I64)]

bitwise_kernel_location(t0, t1) == Located(LocationOfBits, t0, t1)

CopyLocationOfIntegers ==
    [bool   |-> Case(0, 2, B \o U64 \o I64 \o F \o C),
     uint8  |-> Case(32, 2, U64 \o <<i16, i32, i64>> \o F \o C),
     uint16 |-> Case(60, 2, <<u16, u32, u64, i32, i64, f32, f64, c64, c128>>),
     uint32 |-> Case(78, 2, <<u32, u64, i64, f64, c128>>),
     uint64 |-> Case(88, 2, <<u64>>),
     int8   |-> Case(90, 2, I64 \o F \o C),
     int16  |-> Case(112, 2, <<i16, i32, i64, f32, f64, c64, c128>>),
     int32  |-> Case(126, 2, <<i32, i64, f64, c128>>),
     int64  |-> Case(134, 2, <<i64>>)]

CopyLocationOfInexact ==
    [bfloat16   |-> Case(136, 2, <<bf16, f32, f64, c64, c128>>),
     float16    |-> Case(146, 2, <<f16, f32, f64, c32, c64, c128>>),
     float32    |-> Case(158, 2, <<f32, f64, c64, c128>>),
     float64    |-> Case(166, 2, <<f64, c128>>),
     complex32  |-> Case(170, 2, C),
     complex64  |-> Case(176, 2, <<c64, c128>>),
     complex128 |-> Case(180, 2, <<c128>>)]

copy_kernel_location(t, u) ==
    IF t \in DOMAIN CopyLocationOfIntegers THEN Located(CopyLocationOfIntegers, t, u)
    ELSE Located(CopyLocationOfInexact, t, u)

Single(start, step, ts, t) == Located([x \in {"in"} |-> Case(start, step, ts)], "in", t)

invert_kernel_location(t, u) == Single(0, 2, B \o U64 \o I64, t)
negative_kernel_location(t, u) == Single(0, 2, U32 \o I64 \o F \o C, t)
math_kernel_location(t, u) ==
    Single(0, 2, <<u8, i8, f16, bf16, u16, i16, f32, u32, i32, f64>> \o C, t)

-----------------------------------------------------------------------------
(* Kernel sets of a row.                                                   *)

CUDA_HOST_BINARY_INIT(row) ==
    [o \in 1..4 |->
        KernelSet("...", row, Optional2[o], TRUE \in Range(Optional2[o]), {"OptC", "OptS", "Xnd"})]

CUDA_HOST_EQUALN_INIT(row) ==
    [o \in 1..4 |-> KernelSet("...", row, Optional2[o], FALSE, {"OptC", "OptS", "Xnd"})]

CUDA_HOST_UNARY_INIT(row) ==
    [o \in 1..2 |-> KernelSet("...", row, Optional1[o], Optional1[o][1], {"OptC", "OptS", "C"})]

\* Reductions of one dimension, for add and multiply.
CUDA_HOST_UNARY_REDUCE_INIT(row) ==
    [o \in 1..2 |-> KernelSet("N", row, Optional1[o], Optional1[o][1], {"C"})]

-----------------------------------------------------------------------------
(* The tables, with the kernels that are not implemented.                  *)

Lacks(row) == c32 \in Range(row.in) \cup {row.out}

\* No kernel of float16 for floor_divide and remainder; but of bfloat16 with float16.
NoHalf == {<<u8, f16>>, <<i8, f16>>, <<f16, u8>>, <<f16, i8>>, <<f16, bf16>>, <<f16, f16>>}

CUDA_HOST_ALL_ARITHMETIC(row) == IF Lacks(row) THEN "NotImplementedError" ELSE "ok"
CUDA_HOST_ALL_ARITHMETIC_NO_COMPLEX(row) ==
    IF Range(row.in) \cap Complex # {} THEN "TypeError"
    ELSE IF row.in \in NoHalf THEN "NotImplementedError" ELSE "ok"
CUDA_HOST_ALL_ARITHMETIC_FLOAT_RETURN(row) ==
    IF row.out \in Integral THEN "TypeError" ELSE CUDA_HOST_ALL_ARITHMETIC(row)
CUDA_HOST_ALL_COMPARISON(row) == IF Lacks(row) THEN "NotImplementedError" ELSE "ok"
CUDA_HOST_ALL_BITWISE(row) == "ok"
CUDA_HOST_ALL_UNARY(row) == IF Lacks(row) THEN "NotImplementedError" ELSE "ok"
CUDA_INVERT(row) == "ok"
CUDA_HOST_ALL_UNARY_REDUCE(row) ==
    IF row.out \in Complex \cup {bf16} \/ row.in = <<bf16>> \/ (row.in = <<f16>> /\ row.out # f16)
    THEN "NotImplementedError" ELSE "ok"
CUDA_NEGATIVE(row) == IF Lacks(row) THEN "NotImplementedError" ELSE "ok"

CUDA_ALL_REAL_MATH(row) == IF row.out \in {f16} \cup Complex THEN "NotImplementedError" ELSE "ok"
CUDA_ALL_REAL_MATH_WITH_HALF(row) == IF row.out \in Complex THEN "NotImplementedError" ELSE "ok"
CUDA_ALL_COMPLEX_MATH(row) == IF row.out \in {f16, c32} THEN "NotImplementedError" ELSE "ok"
CUDA_ALL_COMPLEX_MATH_WITH_HALF(row) == IF row.out = c32 THEN "NotImplementedError" ELSE "ok"

CUDA_HOST_ALL_ARITHMETIC_INIT == Kernels(ARITHMETIC, CUDA_HOST_BINARY_INIT, 4)
CUDA_HOST_ALL_ARITHMETIC_FLOAT_RETURN_INIT == Kernels(FLOAT_RETURN, CUDA_HOST_BINARY_INIT, 4)
CUDA_HOST_ALL_COMPARISON_INIT == Kernels(ToBool(ARITHMETIC), CUDA_HOST_BINARY_INIT, 4)
CUDA_HOST_ALL_EQUALN_INIT == Kernels(ToBool(ARITHMETIC), CUDA_HOST_EQUALN_INIT, 4)
CUDA_HOST_ALL_BITWISE_INIT == Kernels(BITWISE, CUDA_HOST_BINARY_INIT, 4)
CUDA_HOST_ALL_UNARY_INIT == Kernels(COPY, CUDA_HOST_UNARY_INIT, 2)
CUDA_HOST_ALL_UNARY_REDUCE_INIT == Kernels(COPY, CUDA_HOST_UNARY_REDUCE_INIT, 2)
CUDA_INVERT_INIT == Kernels(INVERT, CUDA_HOST_UNARY_INIT, 2)
CUDA_NEGATIVE_INIT == Kernels(NEGATIVE, CUDA_HOST_UNARY_INIT, 2)
CUDA_ALL_UNARY_MATH_INIT == Kernels(MATH, CUDA_HOST_UNARY_INIT, 2)

binary_kernels ==
    [add          |-> [sets |-> CUDA_HOST_ALL_ARITHMETIC_INIT, impl |-> "arithmetic"],
     floor_divide |-> [sets |-> CUDA_HOST_ALL_ARITHMETIC_INIT, impl |-> "no complex"],
     divide       |-> [sets |-> CUDA_HOST_ALL_ARITHMETIC_FLOAT_RETURN_INIT, impl |-> "float return"],
     less         |-> [sets |-> CUDA_HOST_ALL_COMPARISON_INIT, impl |-> "comparison"],
     equaln       |-> [sets |-> CUDA_HOST_ALL_EQUALN_INIT, impl |-> "comparison"]]

bitwise_kernels == [bitwise_and |-> [sets |-> CUDA_HOST_ALL_BITWISE_INIT, impl |-> "bitwise"]]

unary_kernels ==
    [copy     |-> [sets |-> CUDA_HOST_ALL_UNARY_INIT, impl |-> "unary"],
     invert   |-> [sets |-> CUDA_INVERT_INIT, impl |-> "invert"],
     negative |-> [sets |-> CUDA_NEGATIVE_INIT, impl |-> "negative"],
     erf      |-> [sets |-> CUDA_ALL_UNARY_MATH_INIT, impl |-> "real math"],
     exp2     |-> [sets |-> CUDA_ALL_UNARY_MATH_INIT, impl |-> "real math with half"],
     tan      |-> [sets |-> CUDA_ALL_UNARY_MATH_INIT, impl |-> "complex math"],
     sin      |-> [sets |-> CUDA_ALL_UNARY_MATH_INIT, impl |-> "complex math with half"]]

unary_location(f, t, u) ==
    CASE f = "copy" -> copy_kernel_location(t, u)
      [] f = "invert" -> invert_kernel_location(t, u)
      [] f = "negative" -> negative_kernel_location(t, u)
      [] f \in {"erf", "exp2", "tan", "sin"} -> math_kernel_location(t, u)

Answer(impl, row) ==
    CASE impl = "arithmetic" -> CUDA_HOST_ALL_ARITHMETIC(row)
      [] impl = "no complex" -> CUDA_HOST_ALL_ARITHMETIC_NO_COMPLEX(row)
      [] impl = "float return" -> CUDA_HOST_ALL_ARITHMETIC_FLOAT_RETURN(row)
      [] impl = "comparison" -> CUDA_HOST_ALL_COMPARISON(row)
      [] impl = "bitwise" -> CUDA_HOST_ALL_BITWISE(row)
      [] impl = "unary" -> CUDA_HOST_ALL_UNARY(row)
      [] impl = "reduce" -> CUDA_HOST_ALL_UNARY_REDUCE(row)
      [] impl = "invert" -> CUDA_INVERT(row)
      [] impl = "negative" -> CUDA_NEGATIVE(row)
      [] impl = "real math" -> CUDA_ALL_REAL_MATH(row)
      [] impl = "real math with half" -> CUDA_ALL_REAL_MATH_WITH_HALF(row)
      [] impl = "complex math" -> CUDA_ALL_COMPLEX_MATH(row)
      [] impl = "complex math with half" -> CUDA_ALL_COMPLEX_MATH_WITH_HALF(row)
=============================================================================
