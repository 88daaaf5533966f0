-------------------------- MODULE FunctionRegistry --------------------------
(***************************************************************************)
(* What a table of multimethods promises (gumath functions.rst): a map     *)
(* from names to lists of kernels.  A multimethod is created once, by name *)
(* or for convenience with its first kernel; kernels are only ever added   *)
(* at the end, because the optimized type checks (kernels/common.c) find   *)
(* them by position.                                                       *)
(***************************************************************************)
EXTENDS Naturals, Sequences

CONSTANTS Name, Sig, MaxKernels, Absent

VARIABLE registry       \* for every name its kernels, or Absent

Init == registry = [n \in Name |-> Absent]

Create(n) ==
    /\ registry[n] = Absent
    /\ registry' = [registry EXCEPT ![n] = <<>>]

\* Adding a kernel to a multimethod, which may be new.
AddKernel(n, sig) ==
    LET kernels == IF registry[n] = Absent THEN <<>> ELSE registry[n] IN
    /\ Len(kernels) < MaxKernels
    /\ registry' = [registry EXCEPT ![n] = Append(kernels, sig)]

Next == \E n \in Name : Create(n) \/ \E sig \in Sig : AddKernel(n, sig)

Spec == Init /\ [][Next]_registry
=============================================================================
