----------------------------- MODULE KernelLookup ---------------------------
(***************************************************************************)
(* The optimized type checks of gumath (libgumath/kernels/common.c): the   *)
(* kernel set of a call is not searched for, it is found at the location   *)
(* of the dtypes of its arguments, corrected for optional arguments and    *)
(* for the kind of their dimensions.                                       *)
(*                                                                         *)
(* An argument has a dtype, is optional or not, and is a fixed, ragged     *)
(* ("var") or flexible ("array") array.  sets are the kernel sets of the   *)
(* function in the order they were added.                                  *)
(***************************************************************************)
EXTENDS Integers, Sequences

Refused == [ok |-> FALSE]
At(n) == [ok |-> TRUE, n |-> n]

\* The general check (Typecheck): dtypes, optionality and dimensions must
\* match the signature; dims_match says whether the dimensions do.
ndt_typecheck(set, args, kind, dims_match) ==
    /\ \A i \in DOMAIN args :
          /\ args[i].dtype = set.in[i]
          /\ args[i].optional = set.optional[i]
          /\ args[i].kind = kind
    /\ dims_match

\* The optimized check does not look at the dtypes of the arguments.
ndt_fast_fixed_typecheck(args, dims_match) ==
    dims_match /\ \A i \in DOMAIN args : args[i].kind = "fixed"

\* An explicit result array has the dtype of the signature.
None == "none"
OutMatches(set, out) == out = None \/ out = set.out

HasKind(args, kind) == \E i \in DOMAIN args : args[i].kind = kind

\* Faulty variant: the second optional argument is not told from the first.
OptionalOffset_First(args) == IF \E i \in DOMAIN args : args[i].optional THEN 1 ELSE 0

OptionalOffset(args) ==
    IF args[1].optional THEN (IF Len(args) = 2 /\ args[2].optional THEN 3 ELSE 1)
    ELSE IF Len(args) = 2 /\ args[2].optional THEN 2 ELSE 0

\* The kernel set at m, if the general (the optimized) check accepts it.
Checked(m, sets, args, out, kind, dims_match) ==
    IF ndt_typecheck(sets[m], args, kind, dims_match) /\ OutMatches(sets[m], out)
    THEN At(m) ELSE Refused
FastChecked(m, sets, args, out, dims_match) ==
    IF ndt_fast_fixed_typecheck(args, dims_match) /\ OutMatches(sets[m], out)
    THEN At(m) ELSE Refused

\* n: the location of the dtypes.
cpu_binary_typecheck(n, sets, args, out, dims_match) ==
    IF n < 0 THEN Refused
    ELSE LET m == n + OptionalOffset(args) IN
         IF HasKind(args, "var") THEN Checked(m + 4, sets, args, out, "var", dims_match)
         ELSE IF HasKind(args, "array") THEN Checked(m + 8, sets, args, out, "array", dims_match)
         ELSE FastChecked(m, sets, args, out, dims_match)

cuda_binary_typecheck(n, sets, args, out, dims_match) ==
    IF n < 0 THEN Refused
    ELSE FastChecked(n + OptionalOffset(args), sets, args, out, dims_match)

cpu_unary_typecheck(n, sets, args, out, dims_match) ==
    IF n < 0 THEN Refused
    ELSE LET m == n + OptionalOffset(args) IN
         IF HasKind(args, "var") THEN Checked(m + 2, sets, args, out, "var", dims_match)
         ELSE IF HasKind(args, "array") THEN Checked(m + 4, sets, args, out, "array", dims_match)
         ELSE FastChecked(m, sets, args, out, dims_match)

cuda_unary_typecheck(n, sets, args, out, dims_match) ==
    IF n < 0 THEN Refused
    ELSE FastChecked(n + OptionalOffset(args), sets, args, out, dims_match)
=============================================================================
