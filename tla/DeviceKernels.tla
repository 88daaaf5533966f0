---------------------------- MODULE DeviceKernels ---------------------------
(***************************************************************************)
(* The loops behind gumath's kernels, compiled apart from them as C++ or   *)
(* CUDA: which combinations of dtypes are declared (cpu_device_binary.h,   *)
(* ...), which are defined, and in which common dtype a loop computes      *)
(* (cpu_device_binary.cc, cpu_device_unary.cc, cuda_device_binary.cu,      *)
(* cuda_device_unary.cu).  With Visual Studio the loops for complex        *)
(* numbers come from a file of their own (cpu_device_msvc.cc).             *)
(***************************************************************************)
EXTENDS KernelTables, FiniteSets

Undefined == "none"

Types(row) == Range(row.in) \cup {row.out}
LacksOnCpu(row) == Types(row) \cap {f16, c32} # {}
LacksOnCuda(row) == c32 \in Types(row)
HasComplex(row) == Types(row) \cap Complex # {}

\* Arguments of a comparison are compared as the result of their arithmetic.
Common(row) == (CHOOSE r \in Range(ARITHMETIC) : r.in = row.in).out

-----------------------------------------------------------------------------
(* CPU: the common dtype of a row, or that it is not defined.              *)

\* Faulty variant: mixed arguments are compared as the second one.
CPU_DEVICE_ALL_COMPARISON_Second(row) == IF LacksOnCpu(row) THEN Undefined ELSE row.in[2]

CPU_DEVICE_ALL_BINARY(row) == IF LacksOnCpu(row) THEN Undefined ELSE row.out
CPU_DEVICE_ALL_BINARY_NO_COMPLEX(row) ==
    IF LacksOnCpu(row) \/ HasComplex(row) THEN Undefined ELSE row.out
CPU_DEVICE_ALL_BINARY_FLOAT_RETURN(row) ==
    IF LacksOnCpu(row) \/ row.out \in Integral THEN Undefined ELSE row.out
CPU_DEVICE_ALL_COMPARISON(row) == IF LacksOnCpu(row) THEN Undefined ELSE Common(row)
CPU_DEVICE_ALL_BITWISE(row) == row.out
CPU_DEVICE_ALL_UNARY(row) == IF LacksOnCpu(row) THEN Undefined ELSE row.out
CPU_DEVICE_INVERT(row) == row.out
CPU_DEVICE_NEGATIVE(row) == IF LacksOnCpu(row) THEN Undefined ELSE row.out
CPU_DEVICE_UNARY_ALL_REAL_MATH(row) == IF row.out \in {bf16, f32, f64} THEN row.out ELSE Undefined
CPU_DEVICE_UNARY_ALL_COMPLEX_MATH(row) ==
    IF row.out \in {c64, c128} THEN row.out ELSE CPU_DEVICE_UNARY_ALL_REAL_MATH(row)

\* The rows that Visual Studio skips there (CPU_DEVICE_BINARYC, CPU_DEVICE_UNARYC).
SkippedBinary(row) == HasComplex(row) /\ bf16 \notin Types(row)
SkippedUnary(row) == HasComplex(row)

\* The rows of the file for Visual Studio.
MSVC_DEVICE_ALL_BINARY(row) ==
    IF SkippedBinary(row) /\ ~LacksOnCpu(row) THEN row.out ELSE Undefined
MSVC_DEVICE_ALL_BINARY_FLOAT_RETURN(row) ==
    IF SkippedBinary(row) /\ ~LacksOnCpu(row) THEN row.out ELSE Undefined
MSVC_DEVICE_ALL_COMPARISON(row) ==
    IF SkippedBinary(row) /\ ~LacksOnCpu(row) THEN Common(row) ELSE Undefined
MSVC_DEVICE_ALL_UNARY(row) == IF SkippedUnary(row) /\ ~LacksOnCpu(row) THEN row.out ELSE Undefined
MSVC_DEVICE_NEGATIVE(row) == IF row.out \in {c64, c128} THEN row.out ELSE Undefined
MSVC_DEVICE_UNARY_ALL_COMPLEX_MATH(row) == IF row.out \in {c64, c128} THEN row.out ELSE Undefined

\* Declarations; some have no definition.
CPU_DEVICE_BINARY_ARITHMETIC_DECL(row) == ~LacksOnCpu(row)
CPU_DEVICE_BINARY_ARITHMETIC_NO_COMPLEX_DECL(row) ==
    ~LacksOnCpu(row) /\ (HasComplex(row) => row.in \in {<<c64, bf16>>, <<c128, bf16>>})
CPU_DEVICE_BINARY_ARITHMETIC_FLOAT_RETURN_DECL(row) == ~LacksOnCpu(row) /\ row.out \notin Integral
CPU_DEVICE_ALL_COMPARISON_DECL(row) == ~LacksOnCpu(row) \/ row.in = <<bf16, f16>>
CPU_DEVICE_ALL_BITWISE_DECL(row) == TRUE
CPU_DEVICE_ALL_UNARY_ALL_DECL(row) == ~LacksOnCpu(row)
CPU_DEVICE_INVERT_DECL(row) == TRUE
CPU_DEVICE_NEGATIVE_DECL(row) == ~LacksOnCpu(row)
CPU_DEVICE_UNARY_ALL_REAL_MATH_DECL(row) == row.out \in {bf16, f32, f64}
CPU_DEVICE_UNARY_ALL_COMPLEX_MATH_DECL(row) ==
    row.out \in Complex \/ CPU_DEVICE_UNARY_ALL_REAL_MATH_DECL(row)

\* What the three files have for a row.
Files(declared, defined, skipped, msvc) ==
    [declared |-> declared, unix |-> <<defined>>,
     windows |-> <<IF skipped THEN Undefined ELSE defined, msvc>>]

CpuFiles(impl, row) ==
    CASE impl = "arithmetic" ->
            Files(CPU_DEVICE_BINARY_ARITHMETIC_DECL(row), CPU_DEVICE_ALL_BINARY(row),
                  SkippedBinary(row), MSVC_DEVICE_ALL_BINARY(row))
      [] impl = "no complex" ->
            Files(CPU_DEVICE_BINARY_ARITHMETIC_NO_COMPLEX_DECL(row), CPU_DEVICE_ALL_BINARY_NO_COMPLEX(row),
                  FALSE, Undefined)
      [] impl = "float return" ->
            Files(CPU_DEVICE_BINARY_ARITHMETIC_FLOAT_RETURN_DECL(row), CPU_DEVICE_ALL_BINARY_FLOAT_RETURN(row),
                  SkippedBinary(row), MSVC_DEVICE_ALL_BINARY_FLOAT_RETURN(row))
      [] impl = "comparison" ->
            Files(CPU_DEVICE_ALL_COMPARISON_DECL(row), CPU_DEVICE_ALL_COMPARISON(row),
                  SkippedBinary(row), MSVC_DEVICE_ALL_COMPARISON(row))
      [] impl = "bitwise" -> Files(CPU_DEVICE_ALL_BITWISE_DECL(row), CPU_DEVICE_ALL_BITWISE(row), FALSE, Undefined)
      [] impl = "unary" ->
            Files(CPU_DEVICE_ALL_UNARY_ALL_DECL(row), CPU_DEVICE_ALL_UNARY(row),
                  SkippedUnary(row), MSVC_DEVICE_ALL_UNARY(row))
      [] impl = "invert" -> Files(CPU_DEVICE_INVERT_DECL(row), CPU_DEVICE_INVERT(row), FALSE, Undefined)
      [] impl = "negative" ->
            Files(CPU_DEVICE_NEGATIVE_DECL(row), CPU_DEVICE_NEGATIVE(row),
                  SkippedUnary(row), MSVC_DEVICE_NEGATIVE(row))
      [] impl = "real math" ->
            Files(CPU_DEVICE_UNARY_ALL_REAL_MATH_DECL(row), CPU_DEVICE_UNARY_ALL_REAL_MATH(row), FALSE, Undefined)
      [] impl = "complex math" ->
            Files(CPU_DEVICE_UNARY_ALL_COMPLEX_MATH_DECL(row), CPU_DEVICE_UNARY_ALL_COMPLEX_MATH(row),
                  SkippedUnary(row), MSVC_DEVICE_UNARY_ALL_COMPLEX_MATH(row))

-----------------------------------------------------------------------------
(* CUDA: float16 is there, for some functions.                             *)

CUDA_DEVICE_ALL_BINARY(row) == IF LacksOnCuda(row) THEN Undefined ELSE row.out
CUDA_DEVICE_ALL_BINARY_NO_COMPLEX(row) ==
    IF HasComplex(row) \/ row.in \in {<<u8, f16>>, <<i8, f16>>, <<f16, u8>>, <<f16, i8>>, <<f16, f16>>}
    THEN Undefined ELSE row.out
CUDA_DEVICE_ALL_BINARY_FLOAT_RETURN(row) ==
    IF LacksOnCuda(row) \/ row.out \in Integral THEN Undefined ELSE row.out
CUDA_DEVICE_ALL_COMPARISON(row) == IF LacksOnCuda(row) THEN Undefined ELSE Common(row)
CUDA_DEVICE_ALL_BITWISE(row) == row.out
CUDA_DEVICE_ALL_UNARY(row) == IF LacksOnCuda(row) THEN Undefined ELSE row.out
CUDA_DEVICE_ALL_UNARY_REDUCE(row) ==
    IF HasComplex(row) \/ bf16 \in Types(row) \/ (row.in = <<f16>> /\ row.out # f16)
    THEN Undefined ELSE row.out
CUDA_DEVICE_INVERT(row) == row.out
CUDA_DEVICE_NEGATIVE(row) == IF LacksOnCuda(row) THEN Undefined ELSE row.out
CUDA_DEVICE_UNARY_ALL_REAL_MATH(row) == IF row.out \in {bf16, f32, f64} THEN row.out ELSE Undefined
CUDA_DEVICE_UNARY_ALL_COMPLEX_MATH(row) ==
    IF row.out \in {c64, c128} THEN row.out ELSE CUDA_DEVICE_UNARY_ALL_REAL_MATH(row)
\* Added to one of the two.
CUDA_DEVICE_UNARY_ALL_HALF_MATH(row, others) == IF row.out = f16 THEN f16 ELSE others

CUDA_DEVICE_BINARY_ARITHMETIC_DECL(row) == ~LacksOnCuda(row)
CUDA_DEVICE_BINARY_ARITHMETIC_NO_COMPLEX_DECL(row) ==
    IF row.in[1] \in {c64, c128} THEN row.in[2] \notin Complex
    ELSE CUDA_DEVICE_ALL_BINARY_NO_COMPLEX(row) # Undefined
CUDA_DEVICE_BINARY_ARITHMETIC_FLOAT_RETURN_DECL(row) == ~LacksOnCuda(row) /\ row.out \notin Integral
CUDA_DEVICE_ALL_COMPARISON_DECL(row) == ~LacksOnCuda(row)
CUDA_DEVICE_ALL_BITWISE_DECL(row) == TRUE
CUDA_DEVICE_ALL_UNARY_DECL(row) == ~LacksOnCuda(row)
CUDA_DEVICE_ALL_UNARY_REDUCE_DECL(row) ==
    \/ CUDA_DEVICE_ALL_UNARY_REDUCE(row) # Undefined
    \/ row.in \in {<<f32>>, <<f64>>} /\ row.out \in {c64, c128}
CUDA_DEVICE_INVERT_DECL(row) == TRUE
CUDA_DEVICE_NEGATIVE_DECL(row) == ~LacksOnCuda(row)
CUDA_DEVICE_UNARY_ALL_REAL_MATH_DECL(row) == row.out \in {bf16, f32, f64}
CUDA_DEVICE_UNARY_ALL_COMPLEX_MATH_DECL(row) ==
    row.out \in Complex \/ CUDA_DEVICE_UNARY_ALL_REAL_MATH_DECL(row)
CUDA_DEVICE_UNARY_ALL_HALF_MATH_DECL(row, others) == row.out = f16 \/ others

CudaFile(declared, defined) == [declared |-> declared, unix |-> <<defined>>, windows |-> <<defined>>]

CudaFiles(impl, row) ==
    CASE impl = "arithmetic" -> CudaFile(CUDA_DEVICE_BINARY_ARITHMETIC_DECL(row), CUDA_DEVICE_ALL_BINARY(row))
      [] impl = "no complex" ->
            CudaFile(CUDA_DEVICE_BINARY_ARITHMETIC_NO_COMPLEX_DECL(row), CUDA_DEVICE_ALL_BINARY_NO_COMPLEX(row))
      [] impl = "float return" ->
            CudaFile(CUDA_DEVICE_BINARY_ARITHMETIC_FLOAT_RETURN_DECL(row), CUDA_DEVICE_ALL_BINARY_FLOAT_RETURN(row))
      [] impl = "comparison" -> CudaFile(CUDA_DEVICE_ALL_COMPARISON_DECL(row), CUDA_DEVICE_ALL_COMPARISON(row))
      [] impl = "bitwise" -> CudaFile(CUDA_DEVICE_ALL_BITWISE_DECL(row), CUDA_DEVICE_ALL_BITWISE(row))
      [] impl = "unary" -> CudaFile(CUDA_DEVICE_ALL_UNARY_DECL(row), CUDA_DEVICE_ALL_UNARY(row))
      [] impl = "reduce" -> CudaFile(CUDA_DEVICE_ALL_UNARY_REDUCE_DECL(row), CUDA_DEVICE_ALL_UNARY_REDUCE(row))
      [] impl = "invert" -> CudaFile(CUDA_DEVICE_INVERT_DECL(row), CUDA_DEVICE_INVERT(row))
      [] impl = "negative" -> CudaFile(CUDA_DEVICE_NEGATIVE_DECL(row), CUDA_DEVICE_NEGATIVE(row))
      [] impl = "real math" ->
            CudaFile(CUDA_DEVICE_UNARY_ALL_REAL_MATH_DECL(row), CUDA_DEVICE_UNARY_ALL_REAL_MATH(row))
      [] impl = "complex math" ->
            CudaFile(CUDA_DEVICE_UNARY_ALL_COMPLEX_MATH_DECL(row), CUDA_DEVICE_UNARY_ALL_COMPLEX_MATH(row))
      [] impl = "real math with half" ->
            CudaFile(CUDA_DEVICE_UNARY_ALL_HALF_MATH_DECL(row, CUDA_DEVICE_UNARY_ALL_REAL_MATH_DECL(row)),
                     CUDA_DEVICE_UNARY_ALL_HALF_MATH(row, CUDA_DEVICE_UNARY_ALL_REAL_MATH(row)))
      [] impl = "complex math with half" ->
            CudaFile(CUDA_DEVICE_UNARY_ALL_HALF_MATH_DECL(row, CUDA_DEVICE_UNARY_ALL_COMPLEX_MATH_DECL(row)),
                     CUDA_DEVICE_UNARY_ALL_HALF_MATH(row, CUDA_DEVICE_UNARY_ALL_COMPLEX_MATH(row)))
=============================================================================
