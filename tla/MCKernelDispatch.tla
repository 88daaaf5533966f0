-------------------------- MODULE MCKernelDispatch --------------------------
(***************************************************************************)
(* How a call gets to its kernels: cutting the arrays for threads (Split), *)
(* the choice among the kernels of a kernel set (KernelDispatch), finding  *)
(* the kernel set of a numeric function (KernelLookup in the tables of     *)
(* CpuKernels and CudaKernels), the loops that are compiled apart from     *)
(* them (DeviceKernels), and what the kernels do (KernelBodies).           *)
(* Every behavior is one call of one of them, from a small set of calls.   *)
(***************************************************************************)
EXTENDS KernelDispatch, Split, FiniteSets, KernelLookup, KernelBodies

Tables == INSTANCE KernelTables
Cpu == INSTANCE CpuKernels
Cuda == INSTANCE CudaKernels
Device == INSTANCE DeviceKernels

CONSTANTS
    MaxParts, MaxDims, MaxShape,        \* bounds on splitting
    Ranks, Shapes, Steps, MaxCuts,      \* bounds on layouts
    Extent                              \* the items of a memory block

ASSUME BoundsAssumption ==
    /\ {MaxParts, MaxDims, MaxShape, MaxCuts} \subseteq Nat
    /\ Ranks \subseteq Nat \X Nat /\ Shapes \subseteq Nat /\ Steps \subseteq Int

\* The largest numbers of dimensions of the two arguments.
SmallRanks == {<<3, 1>>, <<2, 2>>}
SmallSteps == {-1, 0, 1, 2}

VARIABLES call, result

vars == <<call, result>>

NotYet == [none |-> TRUE]

-----------------------------------------------------------------------------
(* Calls.                                                                  *)

\* The first element of an array with negative steps is not its lowest.
IndexOf(dims) ==
    Sum([d \in DOMAIN dims |->
            IF dims[d].step < 0 THEN (dims[d].shape - 1) * (0 - dims[d].step) ELSE 0])

Layouts(max) ==
    {[var |-> FALSE, dims |-> dims, index |-> IndexOf(dims)] :
        dims \in UNION {[1..n -> [shape : Shapes, step : Steps]] : n \in 0..max}}
VarArgument == [var |-> TRUE, dims |-> <<>>, index |-> 0]

Smaller(m, n) == IF m < n THEN m ELSE n

\* Kernel sets with one kernel, and with all.
KernelNames == Range(Preference)
Sets == {{k} : k \in KernelNames} \cup {KernelNames, {"Xnd", "Strided"}}

ChooseSplit ==
    \E nparts \in 0..MaxParts, max_outer \in 1..MaxDims :
        \E dims \in UNION {[1..len -> 0..MaxShape] : len \in 0..MaxDims} :
            call = [op |-> "split", nparts |-> nparts, dims |-> dims, max_outer |-> max_outer]

ChooseSelect ==
    \E rank \in Ranks : \E x \in Layouts(rank[1]), y \in Layouts(rank[2]) \cup {VarArgument} :
        \E outer \in 0..(IF y.var THEN rank[1] ELSE Smaller(Ndim(x), Ndim(y))), set \in Sets :
            /\ ~y.var => \A d \in 1..outer : x.dims[d].shape = y.dims[d].shape
            /\ call = [op |-> "select", args |-> <<x, y>>, outer |-> outer, set |-> set]

\* The functions of a device by their number of arguments, one for every table.
Binary == {"add", "floor_divide", "divide", "less", "equaln", "bitwise_and"}
Unary(device) ==
    {"copy", "invert", "negative", "erf", "sin"} \cup (IF device = "cuda" THEN {"exp2", "tan"} ELSE {})

Argument == [dtype : Tables!Dtypes, optional : BOOLEAN, kind : {"fixed", "var", "array"}]

ChooseLookup ==
    \E device \in {"cpu", "cuda"}, dims_match \in BOOLEAN :
        \/ \E f \in Binary, x, y \in Argument :
              /\ ~(x.optional /\ x.kind = "array") /\ ~(y.optional /\ y.kind = "array")
              /\ dims_match \/ (x.dtype = Tables!u8 /\ y.dtype = Tables!i8)
              /\ call = [op |-> "lookup", device |-> device, f |-> f, args |-> <<x, y>>, out |-> None,
                         dims_match |-> dims_match]
        \/ \E f \in Unary(device), x \in Argument, out \in Tables!Dtypes \cup {None} :
              call = [op |-> "lookup", device |-> device, f |-> f, args |-> <<x>>, out |-> out,
                      dims_match |-> dims_match]

\* Arrays of one dimension that lie within a block.
Block == 0..(Extent - 1)
Layout(shape) ==
    {x \in [shape : {shape}, step : {1, 2}, index : {0, 1}] : x.index + (shape - 1) * x.step < Extent}
Touched(x) == {x.index + (i - 1) * x.step : i \in 1..x.shape}

With(x, optional, data, missing) ==
    [shape |-> x.shape, step |-> x.step, index |-> x.index, optional |-> optional,
     data |-> data, valid |-> [p \in Block |-> p \notin missing]]

Arrays(shape, data) ==
    UNION {{With(x, TRUE, data, missing) : missing \in SUBSET Touched(x)} \cup {With(x, FALSE, data, {})} :
            x \in Layout(shape)}

\* A result array, all of whose values are missing.
ResultArray(x, optional) == With(x, optional, [p \in Block |-> 0], Block)

Operand1 == [p \in Block |-> p % 2]
Operand2(name) == [p \in Block |-> IF name = "power" THEN 1 - (p % 3) ELSE 0]
BinaryKernels == {"OptC", "OptS", "Xnd", "array", "cuda OptC", "cuda OptS", "cuda Xnd"}
Synchronous(kernel) == IF kernel \in {"cuda OptC", "cuda OptS", "cuda Xnd"} THEN BOOLEAN ELSE {TRUE}

Fits(kernel, x) ==
    /\ kernel \in {"OptC", "cuda OptC"} => x.step = 1
    /\ kernel = "array" => x.step = 1 /\ x.index = 0 /\ ~x.optional
    /\ kernel \in {"Xnd", "cuda Xnd"} => x.shape = 1

\* Comparing for equality with missing values does not give missing values.
BinaryResult(name, x, y, w) == ResultArray(w, name # "equaln" /\ (x.optional \/ y.optional))

ChooseBinary ==
    \E shape \in 1..2, name \in {"add", "equaln", "power"}, kernel \in BinaryKernels :
        \E x \in Arrays(shape, Operand1), y \in Arrays(shape, Operand2(name)), w \in Layout(shape),
           sync \in Synchronous(kernel) :
            LET z == BinaryResult(name, x, y, w) IN
            /\ \A v \in {x, y, z} : Fits(kernel, v)
            /\ call = [op |-> "apply", kernel |-> kernel, name |-> name, sync |-> sync, stack |-> <<x, y, z>>]

ChooseCopy ==
    \E shape \in 1..2, kernel \in {"OptC", "OptS", "array", "C"} :
        \E x \in Arrays(shape, Operand1), w \in Layout(shape) :
            LET z == ResultArray(w, x.optional) IN
            /\ \A v \in {x, z} : Fits(kernel, v) /\ (kernel = "C" => v.shape = 1)
            /\ call = [op |-> "apply", kernel |-> kernel, name |-> "copy", sync |-> TRUE, stack |-> <<x, z>>]

ChooseReduce ==
    \E shape \in 1..2, valid \in BOOLEAN :
        \E x \in Arrays(shape, Operand1), w \in Layout(1) :
            call = [op |-> "apply", kernel |-> "reduce", name |-> "add", sync |-> TRUE,
                    stack |-> <<x, With(w, x.optional, [p \in Block |-> 0], IF valid THEN {} ELSE Block)>>]

\* The tables, by the rows they have.
TablesOf(rows) ==
    CASE rows = "arithmetic" -> Tables!ARITHMETIC
      [] rows = "no complex" -> Tables!ARITHMETIC
      [] rows = "float return" -> Tables!FLOAT_RETURN
      [] rows = "comparison" -> Tables!ToBool(Tables!ARITHMETIC)
      [] rows = "bitwise" -> Tables!BITWISE
      [] rows \in {"unary", "reduce"} -> Tables!COPY
      [] rows = "invert" -> Tables!INVERT
      [] rows = "negative" -> Tables!NEGATIVE
      [] OTHER -> Tables!MATH

CpuTables ==
    {"arithmetic", "no complex", "float return", "comparison", "bitwise", "unary", "invert", "negative",
     "real math", "complex math"}
CudaTables == CpuTables \cup {"reduce", "real math with half", "complex math with half"}

ChooseLink ==
    \E device \in {"cpu", "cuda"} : \E impl \in IF device = "cpu" THEN CpuTables ELSE CudaTables :
        \E row \in Range(TablesOf(impl)) :
            call = [op |-> "link", device |-> device, impl |-> impl, row |-> row]

Init ==
    /\ \/ ChooseLink \/ ChooseSplit \/ ChooseSelect \/ ChooseLookup
       \/ ChooseBinary \/ ChooseCopy \/ ChooseReduce
    /\ result = NotYet

-----------------------------------------------------------------------------
(* The steps: one for each kind of call.                                   *)

Is(op) == call.op = op /\ result = NotYet

CutForThreads ==
    /\ Is("split")
    /\ result' = xnd_split(call.nparts, call.dims, call.max_outer)
    /\ UNCHANGED call

Select ==
    /\ Is("select")
    /\ select_flags(call.args, call.outer).ok
    /\ result' = [kernel |-> select_kernel(select_flags(call.args, call.outer).flags, call.set)]
    /\ UNCHANGED call

\* The kernel sets of a function and the location of a call's dtypes.
Function(device, f) ==
    IF device = "cpu"
    THEN IF f = "bitwise_and" THEN Cpu!bitwise_kernels[f]
         ELSE IF f \in Binary THEN Cpu!binary_kernels[f] ELSE Cpu!unary_kernels[f]
    ELSE IF f = "bitwise_and" THEN Cuda!bitwise_kernels[f]
         ELSE IF f \in Binary THEN Cuda!binary_kernels[f] ELSE Cuda!unary_kernels[f]

KernelSets(c) == Function(c.device, c.f).sets
DtypesOf(c) == [i \in DOMAIN c.args |-> c.args[i].dtype]

\* Without a result argument an unary function is located with its argument twice.
OutDtype(c) == IF c.out = None THEN c.args[1].dtype ELSE c.out

Location(c) ==
    LET t == DtypesOf(c) IN
    IF c.device = "cpu"
    THEN IF c.f = "bitwise_and" THEN Cpu!bitwise_kernel_location(t[1], t[2])
         ELSE IF c.f \in Binary THEN Cpu!binary_kernel_location(t[1], t[2])
         ELSE Cpu!unary_location(c.f, t[1], OutDtype(c))
    ELSE IF c.f = "bitwise_and" THEN Cuda!bitwise_kernel_location(t[1], t[2])
         ELSE IF c.f \in Binary THEN Cuda!binary_kernel_location(t[1], t[2])
         ELSE Cuda!unary_location(c.f, t[1], OutDtype(c))

LookUp ==
    /\ Is("lookup")
    /\ LET n == Location(call) IN
       result' = IF call.device = "cpu"
                 THEN IF call.f \in Binary
                      THEN cpu_binary_typecheck(n, KernelSets(call), call.args, call.out, call.dims_match)
                      ELSE cpu_unary_typecheck(n, KernelSets(call), call.args, call.out, call.dims_match)
                 ELSE IF call.f \in Binary
                      THEN cuda_binary_typecheck(n, KernelSets(call), call.args, call.out, call.dims_match)
                      ELSE cuda_unary_typecheck(n, KernelSets(call), call.args, call.out, call.dims_match)
    /\ UNCHANGED call

Apply ==
    /\ Is("apply")
    /\ LET stack == call.stack
            name == call.name IN
       result' = IF Len(stack) = 2
                 THEN IF call.kernel = "reduce" THEN gm_cuda_host_1D_C_reduce(stack)
                      ELSE gm_unary(call.kernel, name, stack)
                 ELSE CASE call.kernel = "OptC" -> gm_cpu_host_fixed_1D_C(name, stack)
                        [] call.kernel = "OptS" -> gm_cpu_host_fixed_1D_S(name, stack)
                        [] call.kernel = "Xnd" -> gm_cpu_host_0D(name, stack)
                        [] call.kernel = "array" -> gm_cpu_host_array_1D_C(name, stack)
                        [] call.kernel = "cuda OptC" -> gm_cuda_host("OptC", name, stack, call.sync)
                        [] call.kernel = "cuda OptS" -> gm_cuda_host("OptS", name, stack, call.sync)
                        [] call.kernel = "cuda Xnd" -> gm_cuda_host("Xnd", name, stack, call.sync)
    /\ UNCHANGED call

\* The build: what a kernel that is called has been declared and defined as.
Link ==
    /\ Is("link")
    /\ result' = IF call.device = "cpu" THEN Device!CpuFiles(call.impl, call.row)
                 ELSE Device!CudaFiles(call.impl, call.row)
    /\ UNCHANGED call

Next == CutForThreads \/ Select \/ LookUp \/ Link \/ Apply

Spec == Init /\ [][Next]_vars

-----------------------------------------------------------------------------
(* Splitting.                                                              *)

Given(op) == call.op = op /\ result # NotYet
SplitOk == Given("split") /\ result.ok

Outer == get_shape(call.dims, call.max_outer).shape

(* The rows that xnd_split returns are a partition of the outer dimensions *)
(* (Partitions in Split).                                                  *)
Partition == SplitOk => Partitions(result.rows, call.nparts, Outer)

-----------------------------------------------------------------------------
(* The choice among the kernels of a set.                                  *)

Chosen(k) == Given("select") /\ result.kernel = k
SomeChosen == Given("select") /\ result.kernel \notin {NoKernel, "Strided"}

Elements(x) == Indices(ShapeOf(x))
Ndarrays == {call.args[i] : i \in DOMAIN call.args} \ {VarArgument}

\* The arguments whole, and cut into slices for threads.
Cuts(x) ==
    {x} \cup UNION {LET parts == xnd_split(n, ShapeOf(x), call.outer) IN
                    IF parts.ok THEN {Sliced(x, parts.rows[i]) : i \in DOMAIN parts.rows} ELSE {} :
                    n \in (IF call.outer > 0 THEN 2..MaxCuts ELSE {})}

\* Every element is found at its address, in the arguments whole and cut.
FindsElements ==
    SomeChosen =>
        \A x \in Ndarrays : \A y \in Cuts(x) : \A v \in Elements(y) :
            gm_xnd_map(result.kernel, y, v, call.outer) = Address(y, v)

\* An optimized kernel has a loop dimension, arguments with var dimensions meet
\* Xnd kernels, and the arrays for strided kernels are large enough.
HasItsDimensions ==
    Given("select") =>
        /\ result.kernel \in {"OptC", "OptZ", "OptS"} => call.outer > 0
        /\ (\E i \in DOMAIN call.args : call.args[i].var) => result.kernel \in {NoKernel, "Xnd"}
        /\ result.kernel = "Strided" =>
              LET sum == sum_inner_dimensions(call.args, call.outer) IN
              /\ Len(np_dimensions(call.args, call.outer)) <= call.outer + sum
              /\ Len(np_steps(call.args, call.outer)) <= Len(call.args) * call.outer + sum

(* The kernel that is chosen (apply.c, select_kernel) fits the arguments:  *)
(* it finds every element at its address, whatever it assumes of the       *)
(* layout, also when the arguments are cut into slices for threads,        *)
(* although it was chosen for the uncut arguments; it has the dimensions   *)
(* it is written for (opt_safe); and "unexpected array overflow" is never  *)
(* reported by the conversion for strided kernels.                         *)
KernelFits == FindsElements /\ HasItsDimensions

RowMajor(x) == SetToSortSeq(Elements(x), Before)
Addresses(x) == [i \in DOMAIN RowMajor(x) |-> Address(x, RowMajor(x)[i])]

\* A strided kernel for scalars.
ScalarKernel == \A x \in Ndarrays : Inner(x, call.outer) = 0
\* A strided kernel for vectors, "... * N * T", as in quaternion.c.
VectorKernel == \A x \in Ndarrays : Inner(x, call.outer) = 1

(* A strided kernel for scalars is handed the elements that an Xnd kernel  *)
(* is handed, in the same order, for every argument.                       *)
StridedVisitsAll ==
    Chosen("Strided") /\ ScalarKernel =>
        \A k \in DOMAIN call.args : gm_np_map(call.args, k, call.outer) = Addresses(call.args[k])

(* What functions.rst says of gm_apply: the outer dimensions are traversed *)
(* before the kernel is applied to the inner dimensions; for strided       *)
(* kernels for vectors.                                                    *)
OuterDimsAreTraversed ==
    Chosen("Strided") /\ VectorKernel =>
        \A k \in DOMAIN call.args : gm_np_map(call.args, k, call.outer) = Addresses(call.args[k])

-----------------------------------------------------------------------------
(* The kernel sets of the numeric functions.                               *)

DimsOf(kind) == CASE kind = "fixed" -> "..." [] kind = "var" -> "var..." [] kind = "array" -> "array..."

\* The signatures a call may have, by what it leaves open: the result dtype.
Signatures(c) ==
    {[in |-> DtypesOf(c), optional |-> [i \in DOMAIN c.args |-> c.args[i].optional],
      dims |-> DimsOf(kind), out |-> out] :
        kind \in {c.args[i].kind : i \in DOMAIN c.args},
        out \in IF c.f = "copy" \/ c.out # None THEN {OutDtype(c)} ELSE Tables!Dtypes}

\* The kernel set has the one signature of the call.
SignatureOf(set) == [in |-> set.in, optional |-> set.optional, dims |-> set.dims, out |-> set.out]
IsFor(set, c) ==
    /\ Cardinality({c.args[i].kind : i \in DOMAIN c.args}) = 1
    /\ SignatureOf(set) \in Signatures(c)

\* All signatures of a function.
AllSignatures ==
    [p \in ({"cpu", "cuda"} \X Binary) \cup ({"cpu"} \X Unary("cpu")) \cup ({"cuda"} \X Unary("cuda")) |->
        LET sets == Function(p[1], p[2]).sets IN {SignatureOf(sets[n]) : n \in DOMAIN sets}]

HasSet(c) ==
    /\ Cardinality({c.args[i].kind : i \in DOMAIN c.args}) = 1
    /\ Signatures(c) \cap AllSignatures[<<c.device, c.f>>] # {}

\* bitwise_kernel_location has eight dtypes of the case of uint16 out of order.
Misplaced(c) ==
    c.f = "bitwise_and" /\ c.args[1].dtype = Tables!u16 /\ c.args[2].dtype # Tables!b

(* The kernel set found at a location (which the optimized type check does *)
(* not compare with the dtypes again) is the set for exactly the dtypes,   *)
(* optional values and kind of dimensions of the arguments; and a call is  *)
(* refused only if the function has no such set or the dimensions do not   *)
(* match.  Except for bitwise functions of uint16 and another integer.     *)
KernelIsTheCalls ==
    Given("lookup") /\ ~Misplaced(call) =>
        IF result.ok THEN IsFor(KernelSets(call)[result.n], call)
        ELSE ~call.dims_match \/ ~HasSet(call)

(* A device: what the kernels of the set found answer.                     *)
AnswerOf(c, set) ==
    LET impl == Function(c.device, c.f).impl IN
    IF c.device = "cpu" THEN Cpu!Answer(impl, set) ELSE Cuda!Answer(impl, set)

\* The numbers a dtype holds: unsigned and signed integers of some bits,
\* floats with some binary digits and exponents, pairs of floats.
Format(t) ==
    CASE t = "bool" -> [kind |-> 0, n |-> 1, e |-> 0]
      [] t = "uint8" -> [kind |-> 0, n |-> 8, e |-> 0]
      [] t = "uint16" -> [kind |-> 0, n |-> 16, e |-> 0]
      [] t = "uint32" -> [kind |-> 0, n |-> 32, e |-> 0]
      [] t = "uint64" -> [kind |-> 0, n |-> 64, e |-> 0]
      [] t = "int8" -> [kind |-> 1, n |-> 7, e |-> 0]
      [] t = "int16" -> [kind |-> 1, n |-> 15, e |-> 0]
      [] t = "int32" -> [kind |-> 1, n |-> 31, e |-> 0]
      [] t = "int64" -> [kind |-> 1, n |-> 63, e |-> 0]
      [] t = "bfloat16" -> [kind |-> 2, n |-> 8, e |-> 127]
      [] t = "float16" -> [kind |-> 2, n |-> 11, e |-> 15]
      [] t = "float32" -> [kind |-> 2, n |-> 24, e |-> 127]
      [] t = "float64" -> [kind |-> 2, n |-> 53, e |-> 1023]
      [] t = "complex32" -> [kind |-> 3, n |-> 11, e |-> 15]
      [] t = "complex64" -> [kind |-> 3, n |-> 24, e |-> 127]
      [] t = "complex128" -> [kind |-> 3, n |-> 53, e |-> 1023]

\* Every number of dtype t is one of dtype u.
Holds(u, t) ==
    /\ Format(t).kind <= Format(u).kind
    /\ Format(t).n <= Format(u).n
    /\ Format(t).kind >= 2 => Format(t).e <= Format(u).e

Kind(t) == Format(t).kind
HoldsAll(u, ts) == \A t \in ts : Holds(u, t)

\* The kinds of results of a function.
ResultKinds(f, ts) ==
    CASE f \in {"divide", "erf", "exp2", "sin", "tan"} -> {2, 3}
      [] f = "negative" -> {1, 2, 3}
      [] \A t \in ts : Kind(t) \in {0, 1} -> {0, 1}
      [] OTHER -> {2, 3}

\* A dtype that holds all arguments, and that no smaller one can replace.
ExactAndLeast(f, u, ts) ==
    /\ HoldsAll(u, ts)
    /\ ~\E v \in Tables!Dtypes \ {u} :
            Kind(v) \in ResultKinds(f, ts) /\ HoldsAll(v, ts) /\ Holds(u, v)

(* What "exact casting" (cpu_host_binary.c) promises: where a function is  *)
(* implemented its result dtype holds every value of all argument dtypes,  *)
(* and no smaller dtype of the same kind does; copy converts to any dtype  *)
(* that holds the values, and to no other.                                 *)
ResultsAreExact ==
    Given("lookup") /\ ~Misplaced(call) =>
        LET ts == Range(DtypesOf(call)) IN
        /\ result.ok =>
              LET set == KernelSets(call)[result.n] IN
              \/ AnswerOf(call, set) # "ok"
              \/ call.f \in {"less", "equaln"} /\ set.out = Tables!b
              \/ call.f = "copy" /\ HoldsAll(set.out, ts)
              \/ call.f \notin {"less", "equaln", "copy"} /\ ExactAndLeast(call.f, set.out, ts)
        /\ (call.f = "copy" /\ ~result.ok /\ call.dims_match /\ call.args[1].kind = "fixed") =>
              ~HoldsAll(OutDtype(call), ts)

(* Every kernel that does not report an error is declared and has exactly  *)
(* one definition, with every compiler; the definition computes in a       *)
(* common dtype that holds all arguments, and that is the result's unless  *)
(* it is a comparison: no argument is rounded before it is used.           *)
LoopsAreLinked ==
    Given("link") =>
        LET answer == IF call.device = "cpu" THEN Cpu!Answer(call.impl, call.row)
                      ELSE Cuda!Answer(call.impl, call.row)
            Definitions(files) == {i \in DOMAIN files : files[i] # Device!Undefined} IN
        answer = "ok" =>
            /\ result.declared
            /\ \A files \in {result.unix, result.windows} :
                  /\ Cardinality(Definitions(files)) = 1
                  /\ \A i \in Definitions(files) :
                        /\ call.impl # "reduce" => HoldsAll(files[i], Range(call.row.in))
                        /\ call.impl # "comparison" => files[i] = call.row.out

-----------------------------------------------------------------------------
(* The kernels.                                                            *)

Applied == Given("apply") /\ result.err = "none"
Target == call.stack[Len(call.stack)]
Places(x) == IF call.kernel = "array" THEN FromStart(x) ELSE Strided(x)

\* What is known of the i-th element of argument k.
IsMissing(k, i) ==
    call.stack[k].optional /\ ~is_valid(call.stack[k], Places(call.stack[k])[i])
ElementOf(k, i) == call.stack[k].data[Places(call.stack[k])[i]]

(* Every element of the result is computed from the elements at its place, *)
(* is missing exactly if one of them is (for equaln, as in test_equaln of  *)
(* test_gumath.py: equals iff both or none are missing), and no other      *)
(* element or bit of the block changes, whichever form of the kernel runs; *)
(* a reduction over a missing value is missing.                            *)
(* Except for equaln with missing values and a result that does not start  *)
(* its block: its index is applied twice.                                  *)
ElementwiseResult ==
    Applied /\ ~(call.name = "equaln" /\ Target.index > 0) =>
        LET places == Places(Target)
            n == Len(call.stack) - 1
            MissingAt(i) == {k \in 1..n : IsMissing(k, i)} IN
        /\ \A i \in DOMAIN places :
              LET x == [k \in 1..n |-> ElementOf(k, i)] IN
              CASE call.name = "equaln" ->
                     result.out.data[places[i]] =
                         (MissingAt(i) = {1, 2} \/ (MissingAt(i) = {} /\ x[1] = x[2]))
                [] call.kernel = "reduce" ->
                     \A j \in 1..call.stack[1].shape :
                         MissingAt(j) # {} /\ Target.optional => ~result.out.valid[places[i]]
                [] OTHER ->
                     /\ result.out.data[places[i]] = Compute(call.name, x)
                     /\ Target.optional => (result.out.valid[places[i]] <=> MissingAt(i) = {})
        /\ \A p \in Block \ Range(places) :
              result.out.data[p] = Target.data[p] /\ result.out.valid[p] = Target.valid[p]
=============================================================================
