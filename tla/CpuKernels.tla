------------------------------ MODULE CpuKernels ----------------------------
(***************************************************************************)
(* gumath's kernels for the CPU: where a kernel set is found without a     *)
(* search (binary_kernel_location and its like), which kernel sets the     *)
(* functions have, and which kernels only report an error                  *)
(* (libgumath/kernels/cpu_host_binary.c, cpu_host_unary.c).                *)
(***************************************************************************)
EXTENDS KernelTables

-----------------------------------------------------------------------------
(* Locations: 12 kernel sets for a combination of two dtypes, 6 for one.   *)

LocationOfUnsigned ==
    [uint8  |-> Case(0, 12, U64 \o I64 \o F \o C),
     uint16 |-> Case(180, 12, U64 \o I64 \o F \o C),
     uint32 |-> Case(360, 12, U64 \o I64 \o F \o C),
     uint64 |-> Case(540, 12, U64)]

LocationOfSigned ==
    [int8  |-> Case(588, 12, U32 \o I64 \o F \o C),
     int16 |-> Case(756, 12, U32 \o I64 \o F \o C),
     int32 |-> Case(924, 12, U32 \o I64 \o F \o C),
     int64 |-> Case(1092, 12, U32 \o I64)]

LocationOfInexact ==
    [bfloat16   |-> Case(1176, 12, U32 \o I32 \o F \o C),
     float16    |-> Case(1332, 12, U32 \o I32 \o F \o C),
     float32    |-> Case(1488, 12, U32 \o I32 \o F \o C),
     float64    |-> Case(1644, 12, U32 \o I32 \o F \o C),
     complex32  |-> Case(1800, 12, U32 \o I32 \o F \o C),
     complex64  |-> Case(1956, 12, U32 \o I32 \o F \o C),
     complex128 |-> Case(2112, 12, U32 \o I32 \o F \o C)]

binary_kernel_location(t0, t1) ==
    IF t0 \in DOMAIN LocationOfUnsigned THEN Located(LocationOfUnsigned, t0, t1)
    ELSE IF t0 \in DOMAIN LocationOfSigned THEN Located(LocationOfSigned, t0, t1)
    ELSE Located(LocationOfInexact, t0, t1)

\* The case of uint16 has the signed dtypes before the unsigned ones.
LocationOfBits ==
    [bool   |-> Case(0, 12, B \o U64 \o I64),
     uint8  |-> Case(108, 12, B \o U64 \o I64),
     uint16 |-> Case(216, 12, B \o I64 \o U64),
     uint32 |-> Case(324, 12, B \o U64 \o I64),
     uint64 |-> Case(432, 12, B \o U64),
     int8   |-> Case(492, 12, B \o U32 \o I64),
     int16  |-> Case(588, 12, B \o U32 \o I64),
     int32  |-> Case(684, 12, B \o U32 \o I64),
     int64  |-> Case(780, 12, B \o U32 \o I64)]

bitwise_kernel_location(t0, t1) == Located(LocationOfBits, t0, t1)

CopyLocationOfIntegers ==
    [bool   |-> Case(0, 6, B \o U64 \o I64 \o F \o C),
     uint8  |-> Case(96, 6, U64 \o <<i16, i32, i64>> \o F \o C),
     uint16 |-> Case(180, 6, <<u16, u32, u64, i32, i64, f32, f64, c64, c128>>),
     uint32 |-> Case(234, 6, <<u32, u64, i64, f64, c128>>),
     uint64 |-> Case(264, 6, <<u64>>),
     int8   |-> Case(270, 6, I64 \o F \o C),
     int16  |-> Case(336, 6, <<i16, i32, i64, f32, f64, c64, c128>>),
     int32  |-> Case(378, 6, <<i32, i64, f64, c128>>),
     int64  |-> Case(402, 6, <<i64>>)]

CopyLocationOfInexact ==
    [bfloat16   |-> Case(408, 6, <<bf16, f32, f64, c64, c128>>),
     float16    |-> Case(438, 6, <<f16, f32, f64, c32, c64, c128>>),
     float32    |-> Case(474, 6, <<f32, f64, c64, c128>>),
     float64    |-> Case(498, 6, <<f64, c128>>),
     complex32  |-> Case(510, 6, C),
     complex64  |-> Case(528, 6, <<c64, c128>>),
     complex128 |-> Case(540, 6, <<c128>>)]

copy_kernel_location(t, u) ==
    IF t \in DOMAIN CopyLocationOfIntegers THEN Located(CopyLocationOfIntegers, t, u)
    ELSE Located(CopyLocationOfInexact, t, u)

Single(start, step, ts, t) == Located([x \in {"in"} |-> Case(start, step, ts)], "in", t)

invert_kernel_location(t, u) == Single(0, 6, B \o U64 \o I64, t)
negative_kernel_location(t, u) == Single(0, 6, U32 \o I64 \o F \o C, t)
math_kernel_location(t, u) ==
    Single(0, 6, <<u8, i8, f16, bf16, u16, i16, f32, u32, i32, f64>> \o C, t)

-----------------------------------------------------------------------------
(* Kernel sets of a row: for ndarrays, for ragged arrays and for flexible  *)
(* arrays.  The result is optional if an argument is.                      *)

Loops == << <<"...", {"OptC", "OptS", "Xnd"}>>, <<"var...", {"Xnd"}>>, <<"array...", {"OptC"}>> >>

CPU_HOST_BINARY_INIT(row) ==
    FlattenSeq([d \in 1..3 |-> [o \in 1..4 |->
        KernelSet(Loops[d][1], row, Optional2[o], TRUE \in Range(Optional2[o]), Loops[d][2])]])

\* Missing values are compared: the result is never optional.
CPU_HOST_EQUALN_INIT(row) ==
    FlattenSeq([d \in 1..3 |-> [o \in 1..4 |->
        KernelSet(Loops[d][1], row, Optional2[o], FALSE, Loops[d][2])]])

UnaryLoops == << <<"...", {"OptC", "OptS", "C"}>>, <<"var...", {"Xnd"}>>, <<"array...", {"OptC", "C"}>> >>

CPU_HOST_UNARY_INIT(row) ==
    FlattenSeq([d \in 1..3 |-> [o \in 1..2 |->
        KernelSet(UnaryLoops[d][1], row, Optional1[o], Optional1[o][1], UnaryLoops[d][2])]])

\* divmod has no optional values and two results of the same dtype.
CPU_HOST_BINARY_MV_INIT(row) == <<KernelSet("...", row, Optional2[1], FALSE, {"OptC", "Xnd"})>>

-----------------------------------------------------------------------------
(* The tables, with the kernels that are not implemented.                  *)

\* Neither float16 nor complex32 is implemented on the CPU.
Lacks(row) == (Range(row.in) \cup {row.out}) \cap {f16, c32} # {}

CPU_HOST_ALL_ARITHMETIC(row) == IF Lacks(row) THEN "NotImplementedError" ELSE "ok"
CPU_HOST_ALL_ARITHMETIC_NO_COMPLEX(row) ==
    IF Range(row.in) \cap Complex # {} THEN "TypeError" ELSE CPU_HOST_ALL_ARITHMETIC(row)
CPU_HOST_ALL_ARITHMETIC_FLOAT_RETURN(row) ==
    IF row.out \in Integral THEN "TypeError" ELSE CPU_HOST_ALL_ARITHMETIC(row)
CPU_HOST_ALL_COMPARISON(row) == IF Lacks(row) THEN "NotImplementedError" ELSE "ok"
CPU_HOST_ALL_BITWISE(row) == "ok"
CPU_HOST_ALL_UNARY(row) == IF Lacks(row) THEN "NotImplementedError" ELSE "ok"
CPU_INVERT(row) == "ok"
CPU_NEGATIVE(row) == IF Lacks(row) THEN "NotImplementedError" ELSE "ok"

\* Only some functions are implemented for complex numbers.
CPU_ALL_REAL_MATH(row) == IF row.out \in {f16} \cup Complex THEN "NotImplementedError" ELSE "ok"
CPU_ALL_COMPLEX_MATH(row) == IF row.out \in {f16, c32} THEN "NotImplementedError" ELSE "ok"

CPU_HOST_ALL_ARITHMETIC_INIT == Kernels(ARITHMETIC, CPU_HOST_BINARY_INIT, 12)
CPU_HOST_ALL_ARITHMETIC_FLOAT_RETURN_INIT == Kernels(FLOAT_RETURN, CPU_HOST_BINARY_INIT, 12)
CPU_HOST_ALL_COMPARISON_INIT == Kernels(ToBool(ARITHMETIC), CPU_HOST_BINARY_INIT, 12)
CPU_HOST_ALL_EQUALN_INIT == Kernels(ToBool(ARITHMETIC), CPU_HOST_EQUALN_INIT, 12)
CPU_HOST_ALL_BITWISE_INIT == Kernels(BITWISE, CPU_HOST_BINARY_INIT, 12)
CPU_HOST_ALL_UNARY_INIT == Kernels(COPY, CPU_HOST_UNARY_INIT, 6)
CPU_INVERT_INIT == Kernels(INVERT, CPU_HOST_UNARY_INIT, 6)
CPU_NEGATIVE_INIT == Kernels(NEGATIVE, CPU_HOST_UNARY_INIT, 6)
CPU_ALL_UNARY_MATH_INIT == Kernels(MATH, CPU_HOST_UNARY_INIT, 6)
CPU_HOST_ALL_BINARY_MV_INIT ==
    Kernels(FlattenSeq([i \in 1..11 |-> LET t == (U64 \o I64 \o <<bf16, f32, f64>>)[i] IN Rows(t, <<t>>, <<t>>)]),
            CPU_HOST_BINARY_MV_INIT, 1)

\* The functions that share a table: how a kernel set is located, the kernel
\* sets, and what a kernel of a row answers.  divmod is searched for.
binary_kernels ==
    [add          |-> [sets |-> CPU_HOST_ALL_ARITHMETIC_INIT, impl |-> "arithmetic"],
     floor_divide |-> [sets |-> CPU_HOST_ALL_ARITHMETIC_INIT, impl |-> "no complex"],
     divide       |-> [sets |-> CPU_HOST_ALL_ARITHMETIC_FLOAT_RETURN_INIT, impl |-> "float return"],
     less         |-> [sets |-> CPU_HOST_ALL_COMPARISON_INIT, impl |-> "comparison"],
     equaln       |-> [sets |-> CPU_HOST_ALL_EQUALN_INIT, impl |-> "comparison"]]

bitwise_kernels == [bitwise_and |-> [sets |-> CPU_HOST_ALL_BITWISE_INIT, impl |-> "bitwise"]]

unary_kernels ==
    [copy     |-> [sets |-> CPU_HOST_ALL_UNARY_INIT, impl |-> "unary"],
     invert   |-> [sets |-> CPU_INVERT_INIT, impl |-> "invert"],
     negative |-> [sets |-> CPU_NEGATIVE_INIT, impl |-> "negative"],
     erf      |-> [sets |-> CPU_ALL_UNARY_MATH_INIT, impl |-> "real math"],
     sin      |-> [sets |-> CPU_ALL_UNARY_MATH_INIT, impl |-> "complex math"]]

unary_location(f, t, u) ==
    CASE f = "copy" -> copy_kernel_location(t, u)
      [] f = "invert" -> invert_kernel_location(t, u)
      [] f = "negative" -> negative_kernel_location(t, u)
      [] f \in {"erf", "sin"} -> math_kernel_location(t, u)

\* What the kernels of a row answer.
Answer(impl, row) ==
    CASE impl = "arithmetic" -> CPU_HOST_ALL_ARITHMETIC(row)
      [] impl = "no complex" -> CPU_HOST_ALL_ARITHMETIC_NO_COMPLEX(row)
      [] impl = "float return" -> CPU_HOST_ALL_ARITHMETIC_FLOAT_RETURN(row)
      [] impl = "comparison" -> CPU_HOST_ALL_COMPARISON(row)
      [] impl = "bitwise" -> CPU_HOST_ALL_BITWISE(row)
      [] impl = "unary" -> CPU_HOST_ALL_UNARY(row)
      [] impl = "invert" -> CPU_INVERT(row)
      [] impl = "negative" -> CPU_NEGATIVE(row)
      [] impl = "real math" -> CPU_ALL_REAL_MATH(row)
      [] impl = "complex math" -> CPU_ALL_COMPLEX_MATH(row)
=============================================================================
