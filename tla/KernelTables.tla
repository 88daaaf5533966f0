----------------------------- MODULE KernelTables ---------------------------
(***************************************************************************)
(* The tables of gumath's numeric kernels: which combinations of dtypes a  *)
(* function has kernels for, in which order, and with which result dtype.  *)
(* The tables for the CPU and for CUDA list the same rows.                 *)
(*                                                                         *)
(* A row is [in, out]: the dtypes of the arguments and of the result.      *)
(***************************************************************************)
EXTENDS Integers, Sequences, SequencesExt

b == "bool"
u8 == "uint8"
u16 == "uint16"
u32 == "uint32"
u64 == "uint64"
i8 == "int8"
i16 == "int16"
i32 == "int32"
i64 == "int64"
bf16 == "bfloat16"
f16 == "float16"
f32 == "float32"
f64 == "float64"
c32 == "complex32"
c64 == "complex64"
c128 == "complex128"

\* The groups of dtypes that follow each other in the tables.
B == <<b>>
U32 == <<u8, u16, u32>>
U64 == U32 \o <<u64>>
I32 == <<i8, i16, i32>>
I64 == I32 \o <<i64>>
F == <<bf16, f16, f32, f64>>
C == <<c32, c64, c128>>

Integral == Range(B \o U64 \o I64)
Complex == Range(C)
Dtypes == Integral \cup Range(F \o C)

-----------------------------------------------------------------------------
(* Binary tables, a row of the table for every dtype of the first argument.*)

Rows(t0, t1s, t2s) == [i \in DOMAIN t1s |-> [in |-> <<t0, t1s[i]>>, out |-> t2s[i]]]

ArithmeticUnsigned ==
    Rows(u8,  U64 \o I64 \o F \o C,
         <<u8,  u16, u32, u64, i16, i16, i32, i64, bf16, f16, f32, f64, c32, c64, c128>>) \o
    Rows(u16, U64 \o I64 \o F \o C,
         <<u16, u16, u32, u64, i32, i32, i32, i64, f32, f32, f32, f64, c64, c64, c128>>) \o
    Rows(u32, U64 \o I64 \o F \o C,
         <<u32, u32, u32, u64, i64, i64, i64, i64, f64, f64, f64, f64, c128, c128, c128>>) \o
    Rows(u64, U64, <<u64, u64, u64, u64>>)

\* Faulty variant: the product of an uint32 and an int8 is taken to fit an int32.
ArithmeticSigned_Narrow ==
    Rows(i8,  U32 \o I64 \o F \o C,
         <<i16, i32, i32, i8,  i16, i32, i64, bf16, f16, f32, f64, c32, c64, c128>>) \o
    Rows(i16, U32 \o I64 \o F \o C,
         <<i16, i32, i64, i16, i16, i32, i64, f32, f32, f32, f64, c64, c64, c128>>) \o
    Rows(i32, U32 \o I64 \o F \o C,
         <<i32, i32, i64, i32, i32, i32, i64, f64, f64, f64, f64, c128, c128, c128>>) \o
    Rows(i64, U32 \o I64, <<i64, i64, i64, i64, i64, i64, i64>>)

ArithmeticSigned ==
    Rows(i8,  U32 \o I64 \o F \o C,
         <<i16, i32, i64, i8,  i16, i32, i64, bf16, f16, f32, f64, c32, c64, c128>>) \o
    Rows(i16, U32 \o I64 \o F \o C,
         <<i16, i32, i64, i16, i16, i32, i64, f32, f32, f32, f64, c64, c64, c128>>) \o
    Rows(i32, U32 \o I64 \o F \o C,
         <<i32, i32, i64, i32, i32, i32, i64, f64, f64, f64, f64, c128, c128, c128>>) \o
    Rows(i64, U32 \o I64, <<i64, i64, i64, i64, i64, i64, i64>>)

ArithmeticInexact ==
    Rows(bf16, U32 \o I32 \o F \o C,
         <<bf16, f32, f64, bf16, f32, f64, bf16, f32, f32, f64, c64, c64, c128>>) \o
    Rows(f16,  U32 \o I32 \o F \o C,
         <<f16, f32, f64, f16, f32, f64, f32, f16, f32, f64, c32, c64, c128>>) \o
    Rows(f32,  U32 \o I32 \o F \o C,
         <<f32, f32, f64, f32, f32, f64, f32, f32, f32, f64, c64, c64, c128>>) \o
    Rows(f64,  U32 \o I32 \o F \o C,
         <<f64, f64, f64, f64, f64, f64, f64, f64, f64, f64, c128, c128, c128>>) \o
    Rows(c32,  U32 \o I32 \o F \o C,
         <<c32, c64, c128, c32, c64, c128, c64, c32, c64, c128, c32, c64, c128>>) \o
    Rows(c64,  U32 \o I32 \o F \o C,
         <<c64, c64, c128, c64, c64, c128, c64, c64, c64, c128, c64, c64, c128>>) \o
    Rows(c128, U32 \o I32 \o F \o C, [i \in 1..13 |-> c128])

ARITHMETIC == ArithmeticUnsigned \o ArithmeticSigned \o ArithmeticInexact

\* Division: two integers of at most 32 bits give a float.
FloatReturnIntegers ==
    Rows(u8,  U64 \o I64 \o F \o C,
         <<f16, f32, f64, u64, f16, f32, f64, i64, bf16, f16, f32, f64, c32, c64, c128>>) \o
    Rows(u16, U64 \o I64 \o F \o C,
         <<f32, f32, f64, u64, f32, f32, f64, i64, f32, f32, f32, f64, c64, c64, c128>>) \o
    Rows(u32, U64 \o I64 \o F \o C,
         <<f64, f64, f64, u64, f64, f64, f64, i64, f64, f64, f64, f64, c128, c128, c128>>) \o
    Rows(u64, U64, <<u64, u64, u64, u64>>) \o
    Rows(i8,  U32 \o I64 \o F \o C,
         <<f16, f32, f64, f16, f32, f64, i64, bf16, f16, f32, f64, c32, c64, c128>>) \o
    Rows(i16, U32 \o I64 \o F \o C,
         <<f32, f32, f64, f32, f32, f64, i64, f32, f32, f32, f64, c64, c64, c128>>) \o
    Rows(i32, U32 \o I64 \o F \o C,
         <<f64, f64, f64, f64, f64, f64, i64, f64, f64, f64, f64, c128, c128, c128>>) \o
    Rows(i64, U32 \o I64, <<i64, i64, i64, i64, i64, i64, i64>>)

FLOAT_RETURN == FloatReturnIntegers \o ArithmeticInexact

ToBool(rows) == [i \in DOMAIN rows |-> [rows[i] EXCEPT !.out = b]]

BITWISE ==
    Rows(b,   B \o U64 \o I64, <<b, u8, u16, u32, u64, i8, i16, i32, i64>>) \o
    Rows(u8,  B \o U64 \o I64, <<u8, u8, u16, u32, u64, i16, i16, i32, i64>>) \o
    Rows(u16, B \o U64 \o I64, <<u16, u16, u16, u32, u64, i32, i32, i32, i64>>) \o
    Rows(u32, B \o U64 \o I64, <<u32, u32, u32, u32, u64, i64, i64, i64, i64>>) \o
    Rows(u64, B \o U64, <<u64, u64, u64, u64, u64>>) \o
    Rows(i8,  B \o U32 \o I64, <<i8, i16, i32, i64, i8, i16, i32, i64>>) \o
    Rows(i16, B \o U32 \o I64, <<i16, i16, i32, i64, i16, i16, i32, i64>>) \o
    Rows(i32, B \o U32 \o I64, <<i32, i32, i32, i64, i32, i32, i32, i64>>) \o
    Rows(i64, B \o U32 \o I64, <<i64, i64, i64, i64, i64, i64, i64, i64>>)

-----------------------------------------------------------------------------
(* Unary tables.                                                           *)

To(t0, t1s) == [i \in DOMAIN t1s |-> [in |-> <<t0>>, out |-> t1s[i]]]

\* Copy and abs: every conversion without loss.
CopyIntegers ==
    To(b, B \o U64 \o I64 \o F \o C) \o
    To(u8, U64 \o <<i16, i32, i64>> \o F \o C) \o
    To(u16, <<u16, u32, u64, i32, i64, f32, f64, c64, c128>>) \o
    To(u32, <<u32, u64, i64, f64, c128>>) \o
    To(u64, <<u64>>) \o
    To(i8, I64 \o F \o C) \o
    To(i16, <<i16, i32, i64, f32, f64, c64, c128>>) \o
    To(i32, <<i32, i64, f64, c128>>) \o
    To(i64, <<i64>>)

CopyInexact ==
    To(bf16, <<bf16, f32, f64, c64, c128>>) \o
    To(f16, <<f16, f32, f64, c32, c64, c128>>) \o
    To(f32, <<f32, f64, c64, c128>>) \o
    To(f64, <<f64, c128>>) \o
    To(c32, C) \o To(c64, <<c64, c128>>) \o To(c128, <<c128>>)

COPY == CopyIntegers \o CopyInexact

EachTo(ts, us) == [i \in DOMAIN ts |-> [in |-> <<ts[i]>>, out |-> us[i]]]

INVERT == EachTo(B \o U64 \o I64, B \o U64 \o I64)

NEGATIVE == EachTo(U32 \o I64 \o F \o C, <<i16, i32, i64>> \o I64 \o F \o C)

MATH ==
    EachTo(<<u8, i8, f16, bf16, u16, i16, f32, u32, i32, f64>> \o C,
              <<f16, f16, f16, bf16, f32, f32, f32, f64, f64, f64>> \o C)

-----------------------------------------------------------------------------
(* A kernel set is what a row gives for one signature: the kind of the     *)
(* dimensions, the dtypes, which of them are optional, and the kernels.    *)

KernelSet(dims, row, optional, out_optional, kernels) ==
    [dims |-> dims, in |-> row.in, out |-> row.out,
     optional |-> optional, out_optional |-> out_optional, kernels |-> kernels]

\* The arguments that are optional, in the order of the signatures.
Optional1 == << <<FALSE>>, <<TRUE>> >>
Optional2 == << <<FALSE, FALSE>>, <<TRUE, FALSE>>, <<FALSE, TRUE>>, <<TRUE, TRUE>> >>

\* The kernels of a function: size kernel sets for every row, counted from 0.
Kernels(rows, INIT(_), size) ==
    [n \in 0..(size * Len(rows) - 1) |-> INIT(rows[(n \div size) + 1])[(n % size) + 1]]

\* A location function: the second dtypes of a case have locations that are
\* step apart.
Case(start, step, t1s) ==
    [t1 \in Range(t1s) |-> start + step * ((CHOOSE i \in DOMAIN t1s : t1s[i] = t1) - 1)]

Located(cases, t0, t1) ==
    IF t0 \in DOMAIN cases THEN (IF t1 \in DOMAIN cases[t0] THEN cases[t0][t1] ELSE -1) ELSE -1
=============================================================================
