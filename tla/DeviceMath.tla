----------------------------- MODULE DeviceMath -----------------------------
(***************************************************************************)
(* What the loops of a device compute: integer and float division, powers, *)
(* absolute values and the order of complex numbers (device.hh), and which *)
(* items a loop goes through (the macros CPU_DEVICE_BINARY, ..., of        *)
(* cpu_device_binary.cc, cuda_device_binary.cu and their unary kin).       *)
(*                                                                         *)
(* Integers have Bits bits.  A float is an integer, NaN or an infinity;    *)
(* the sign of a zero is left out.  A complex number is [re, im].          *)
(***************************************************************************)
EXTENDS Integers, Sequences, SequencesExt

CONSTANTS
    Bits,                   \* the width of an integer dtype
    NaN, Inf, MinusInf,     \* floats that are no numbers
    BlockSize,              \* threads of a CUDA block: 256 in the code
    UnsignedBits            \* the width of CUDA's unsigned int

UMAX == 2^Bits - 1
MIN == -(2^(Bits - 1))
MAX == 2^(Bits - 1) - 1

Unsigned(n) == n % (2^Bits)
Signed(n) == IF Unsigned(n) > MAX THEN Unsigned(n) - 2^Bits ELSE Unsigned(n)

\* Division in C rounds towards zero.
Magnitude(n) == IF n < 0 THEN -n ELSE n
CQuotient(a, b) ==
    LET q == Magnitude(a) \div Magnitude(b) IN IF (a < 0) # (b < 0) THEN -q ELSE q
CRemainder(a, b) == a - b * CQuotient(a, b)

-----------------------------------------------------------------------------
(* Division.                                                               *)

Division(q, r) == [q |-> q, r |-> r]

divmod_unsigned(a, b) ==
    IF b = 0 THEN Division(0, 0) ELSE Division(a \div b, a % b)

\* Faulty variant: the quotient is rounded towards zero.
divmod_signed_Truncates(a, b) ==
    IF b = 0 \/ (a = MIN /\ b = -1) THEN Division(0, 0)
    ELSE Division(CQuotient(a, b), CRemainder(a, b))

divmod_signed(a, b) ==
    IF b = 0 \/ (a = MIN /\ b = -1) THEN Division(0, 0)
    ELSE LET qq == CQuotient(a, b)
             q == IF CRemainder(a, b) # 0 /\ ((a < 0) # (b < 0)) THEN Signed(qq - 1) ELSE qq
         IN Division(q, Signed(a - q * b))

Infinite(x) == x \in {Inf, MinusInf}
Negative(x) == IF Infinite(x) THEN x = MinusInf ELSE x < 0

\* fmod, whose result has the sign of the dividend.
fmod(v, w) ==
    CASE v = NaN \/ w = NaN \/ Infinite(v) \/ w = 0 -> NaN
      [] Infinite(w) -> v
      [] OTHER -> CRemainder(v, w)

divmod_float(v, w) ==
    LET mod == fmod(v, w) IN
    IF mod = NaN THEN Division(NaN, NaN)
    ELSE LET div == IF Infinite(w) THEN 0 ELSE CQuotient(v - mod, w) IN
         IF mod # 0 /\ Negative(w) # Negative(mod)
         THEN Division(div - 1, IF Infinite(w) THEN w ELSE mod + w)
         ELSE Division(div, mod)

-----------------------------------------------------------------------------
(* Powers and absolute values.                                             *)

Odd(n) == n % 2 = 1

\* The square and multiply loop; mask + 1 is a power of two.
pow_unsigned(base, exp, mask) ==
    LET f[e \in 0..exp] ==
          [b \in 0..mask |->
            IF e = 0 THEN 1 % (mask + 1)
            ELSE ((IF Odd(e) THEN b ELSE 1) * f[e \div 2][(b * b) % (mask + 1)]) % (mask + 1)]
    IN f[exp][base % (mask + 1)]

\* The power of the absolute value, without the sign bit.
pow_signed(ibase, exp) ==
    LET r == pow_unsigned(Unsigned(Magnitude(ibase)), Unsigned(exp), MAX)
    IN IF ibase < 0 /\ Odd(exp) THEN -r ELSE r

abs_signed(x) == Signed(IF x < 0 THEN -x ELSE x)

Times(x, y) == [re |-> x.re * y.re - x.im * y.im, im |-> x.re * y.im + x.im * y.re]

RECURSIVE c_powu_loop(_, _, _)
c_powu_loop(r, base, exp) ==
    IF exp = 0 THEN r
    ELSE c_powu_loop(IF Odd(exp) THEN Times(r, base) ELSE r, Times(base, base), exp \div 2)

c_powu(base, exp) == c_powu_loop([re |-> 1, im |-> 0], base, exp)

-----------------------------------------------------------------------------
(* Complex numbers are ordered like words of two letters.                  *)

isnan(a) == a.re = NaN \/ a.im = NaN

Lexicographic(a, b, le(_, _)) ==
    ~isnan(a) /\ ~isnan(b) /\ (a.re < b.re \/ (a.re = b.re /\ le(a.im, b.im)))

lexorder_lt(a, b) == Lexicographic(a, b, LAMBDA x, y : x < y)
lexorder_le(a, b) == Lexicographic(a, b, LAMBDA x, y : x <= y)
lexorder_gt(a, b) == lexorder_lt(b, a)
lexorder_ge(a, b) == lexorder_le(b, a)
lexorder_eqn(a, b) == a.re = b.re /\ a.im = b.im

-----------------------------------------------------------------------------
(* Loops, as the sequence of the places of the items they go through.      *)

\* Contiguous on the CPU: eight items at a time, then the others.
Unroll == 8

CPU_DEVICE_BINARY_C(N) ==
    LET f[i \in 0..(N + Unroll)] ==
          IF i < N - 7 THEN [k \in 1..Unroll |-> i + k - 1] \o f[i + Unroll]
          ELSE [k \in 1..(IF i < N THEN N - i ELSE 0) |-> i + k - 1]
    IN f[0]

\* Strided on the CPU: the places are added up.
CPU_DEVICE_BINARY_S(N, step) ==
    LET f[i \in 0..N] == IF i = 0 THEN 0 ELSE f[i - 1] + step IN [k \in 1..N |-> f[k - 1]]

\* CUDA: every thread of every block starts at its own index and goes on by
\* the number of threads; both are computed with unsigned int.
NumBlocks(N) == (N + BlockSize - 1) \div BlockSize
Threads(N) == (0..(BlockSize - 1)) \X (0..(NumBlocks(N) - 1))
Stride(N) == (BlockSize * NumBlocks(N)) % (2^UnsignedBits)
FirstIndex(thread) == (thread[1] + thread[2] * BlockSize) % (2^UnsignedBits)

\* Faulty variant: blocks follow each other at a distance of one item.
CUDA_DEVICE_BINARY_Visits_Blocks(N, thread) ==
    {i \in 0..(N - 1) : i >= thread[1] + thread[2] /\ (i - thread[1] - thread[2]) % Stride(N) = 0}

\* The items of a thread.  A stride of zero never leaves the first one.
CUDA_DEVICE_BINARY_Visits(N, thread) ==
    LET index == FirstIndex(thread) IN
    IF Stride(N) = 0 THEN {index} \cap (0..(N - 1))
    ELSE {i \in 0..(N - 1) : i >= index /\ (i - index) % Stride(N) = 0}

Ends(N) == N = 0 \/ Stride(N) # 0

\* A reduction is handed zero to start from, whatever the function.
CUDA_DEVICE_UNARY_REDUCE(name, xs) ==
    FoldLeft(LAMBDA a, x : IF name = "add" THEN a + x ELSE a * x, 0, xs)
=============================================================================
