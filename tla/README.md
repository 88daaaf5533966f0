# TLA+ models and proofs for xnd

This directory specifies the core of the xnd stack (ndtypes, xnd, gumath) in
TLA+, checks the specifications with TLC and proves theorems about them with
TLAPS. It is meant to be read beside the C code: every definition translates
some lines of it, and `PROJECT.json` says which ones (`map`).

Contents: [the system](#1-the-system) · [modules](#2-modules-and-the-code-they-stand-for) ·
[runs and bounds](#3-what-the-runs-check) · [fairness](#4-fairness) ·
[proofs](#5-what-is-proved) · [findings](#6-where-the-code-and-its-documents-disagree) ·
[limits](#7-what-is-only-model-checked-and-what-is-not-modelled) · [plan](#8-plan).

To check a model: `tlc -config MCSubscript.cfg MCSubscript`; to check the proofs:
`tlapm TypeHeapProofs.tla`. Paths below are relative to `src/`.

## 1. The system

Three C libraries with one Python extension module each, layered:

```
   gumath (Python)   _gufunc_call: arguments, dtype=, out=, folds
      |  gm_select, gm_apply_thread
   libgumath         function tables, kernel sets, kernel choice, loops, threads
      |  ndt_typecheck          |  xnd_split, xnd_subscript
      |                      xnd (Python)   MemoryBlock, views, values in and out
      |                         |
      |                      libxnd     containers = type + pointer + linear index
      |  types                  |  types
   libndtypes        types: reference counted, immutable trees with shared children
```

Everything the Python layer does holds the interpreter lock, which is not
released for kernels. The only concurrency is inside one call:
`gm_apply_thread` starts pthreads and joins them.

### 1.1 libndtypes

| Part | State | Operations | Correct when |
|---|---|---|---|
| type heap (`ndtypes.c`, `primitive.c`) | `ndt_t` and `ndt_offsets_t` objects with `refcnt` and children | constructors, `ndt_incref`, `ndt_decref`, `ndt_move`, `ndt_del` | counts equal the pointers that exist; nothing dangles, leaks or is freed twice; a type is an immutable value, on error paths too |
| typedef table (`symtable.c`) | a global trie from names to types it owns | `ndt_typedef_add`, `ndt_typedef_find`, `ndt_finalize` | entries outlive their callers; nominal types keep their value beyond `ndt_finalize`, but the methods they point to are the entry's and end there |
| fixed dimensions (`ndtypes.c`, `util.c`) | shape and step of every dimension | `ndt_fixed_dim`, contiguity tests, `ndt_to_fortran` | steps and data sizes describe the items the type has |
| ragged dimensions (`ndtypes.c`, `slice.h`) | offset arrays, shared and counted; a stack of slices; stored indices | `ndt_var_dim`, `ndt_var_add_slice`, `ndt_var_indices` | start, step and shape of every list are those of the composed slices |
| type checking (`match.c`, `substitute.c`, `symtable.c`) | a symbol table per call | `ndt_typecheck`, `ndt_fast_*_typecheck`, `ndt_broadcast_all` | arguments are accepted iff one value of each symbol fits; inferred outputs and broadcast inputs have the right layout |
| record layout (`ndtypes.c`, `attr.c`, `values.c`) | alignments, padding, offsets | `ndt_tuple`, `ndt_record`, `ndt_union` with `align` and `pack` | fields are aligned, disjoint and inside the type |
| unification, comparison, copies (`unify.c`, `equal.c`, `copy.c`) | none | `ndt_unify`, `ndt_equal`, `ndt_copy` | the unified type is matched by what matches both |
| parser and printer (`parser.c`, `parsefuncs.c`, `seq.c`, `io.c`, generated lexer and grammar) | text and token sequences | `ndt_from_string`, `ndt_as_string` | printing and parsing round-trip |
| serialization (`serialize/`) | bytes with offsets | `ndt_serialize`, `ndt_deserialize` | round trip; no read outside the buffer |
| errors, allocation (`context.c`, `alloc.c`) | one context per call or thread: constant or owned message | `ndt_err_format`, `ndt_err_clear`, `ndt_alloc_size` | the message is released once; sizes do not overflow |

### 1.2 libxnd

| Part | State | Operations | Correct when |
|---|---|---|---|
| container memory (`xnd.c`, `copy.c`, `inline.h`; `mblock_init` in `_xnd.c`) | a master block and the blocks that pointers embedded in it own | `xnd_empty_from_type`, assignment of Python values, `xnd_copy`, `xnd_clear`, `xnd_del` | "at all times the data pointers must be NULL or pointers to valid memory" (`xnd/libxnd/xnd.c:209`); each block is owned once |
| subscripts (`xnd.c`) | a view: type, pointer, linear index | `xnd_subtree`, `xnd_multikey`, `xnd_subscript` | a view reads as the subscript of the nested list it stands for |
| splitting (`split.c`) | a matrix of slices | `xnd_split` | the slices partition the outer dimensions |
| bitmaps (`bitmaps.c`) | a tree of bit vectors beside the data | `xnd_bitmap_init`, `xnd_set_valid`, `xnd_set_na` | an optional value is NA iff its bit says so |
| bounds, reshape (`bounds.c`, `shape.c`) | none | `xnd_bounds_check`, `xnd_reshape` | every address of an accepted view is in the buffer; the items keep their order |
| comparison (`equal.c`) | none | `xnd_equal`, `xnd_strict_equal` | equality of the values |

### 1.3 libgumath and the Python layers

| Part | State | Operations | Correct when |
|---|---|---|---|
| function tables (`tbl.c`, `func.c`) | a trie from names to functions, each with a growing array of kernel sets | `gm_add_func`, `gm_add_kernel`, `gm_tbl_find`, `gm_tbl_del` | a map from names to lists that only grow; what is allocated is owned once |
| kernel choice (`apply.c`, `util.c`) | flags of the layouts of a call | `select_flags`, `select_kernel`, `gm_select` | a kernel finds each element where it assumes it to be |
| loops (`xndloops.c`, `nploops.c`) | recursion over outer dimensions | `gm_xnd_map`, `gm_np_convert_xnd`, `gm_np_map` | each element is visited once, in order |
| threads (`thread.c`) | slices, `thread_info` records, error contexts | `gm_apply_thread` | as one sequential call, whatever the schedule |
| calls from Python (`_gumath.c`) | a stack of arguments, types and results | `_gufunc_call`, folds | each is released once on each path |
| Python objects (`_ndtypes.c`, `_xnd.c`) | MemoryBlock shared by views, buffer exports | `mblock_from_xnd`, `mblock_from_buffer`, `pyxnd_view_move_type`, `mblock_dealloc` | data outlives its views, types outlive data |
| kernels (`kernels/`) | tables of kernel sets, bitmaps of results | `*_kernel_location`, `binary_update_bitmap*`, device loops, `device.hh` | the set found is the one for the dtypes; results are exact, NA exactly where an argument is |
| `xndtools`, CUDA runtime | none modelled | text generation, driver calls | out of scope |

### 1.4 How the parts interact, and what is hard

* Types are shared downwards without locks: a container, a view, a kernel
  signature and the typedef table hold references to parts of one DAG.
* `gm_select` walks the kernels of a function and asks `ndt_typecheck` about
  each. The result, a list of broadcast types, is laid over the caller's
  memory without a copy: steps of zero and negative steps reach the kernels.
* The kernel is chosen from the layout of whole arguments and applied, by
  threads, to slices of them made by `xnd_split` through `xnd_subscript`.
* The threads read slices and records in the frame of the caller.

Hard to test, and the subject of the properties: failures between two steps of
a construction or an assignment; sharing; the order of threads and of their
errors; lengths 0 and 1, zero and negative steps; state that a check
established and a later operation relies on (flags, stored indices, positions
of kernels). `PROJECT.json` lists 40 such hazards by line. Nothing is persisted
and no message is sent: there is no crash recovery, delivery or time-out to model.

## 2. Modules and the code they stand for

| Module | Role | Code |
|---|---|---|
| `TypeHeap` | state machine | `ndtypes.c`, `symtable.c`, `primitive.c` |
| `TypeValues` | abstract specification of `TypeHeap` | what holders of types rely on |
| `TypeHeapProofs` | theorems | |
| `Induction` | lemmas on the natural numbers, and on folds over sequences | |
| `Split` | operators | `xnd/libxnd/split.c` |
| `SplitProofs` | theorems | |
| `ThreadedApply` (extends `Split`) | state machine | `gumath/libgumath/thread.c` |
| `ThreadedApplyProofs` | theorems | |
| `GufuncCall` (extends `ThreadedApply`) | state machine | `_gufunc_call` in `gumath/python/gumath/_gumath.c` |
| `GufuncCallProofs` | theorems | |
| `KernelDispatch` | operators | `apply.c`, `nploops.c`, `xndloops.c`, `ndtypes/libndtypes/util.c` |
| `KernelDispatchProofs` | theorems about the calls of `MCKernelDispatch` | |
| `KernelTables`, `CpuKernels`, `CudaKernels` | operators | the tables and locations of kernel sets: `kernels/cpu_host_*.c`, `cuda_host_*.c` |
| `KernelLookup` | operators | the optimized type checks and the search for a set: `kernels/common.c` |
| `KernelBodies` | operators | loops over one dimension and bitmaps: `kernels/common.c`, `common.h` |
| `DeviceKernels` | operators | which loops are declared and defined: `kernels/*_device_*.h`, `.cc`, `.cu` |
| `DeviceMath` | operators | arithmetic and loops of devices: `kernels/device.hh`, `*_device_*.cc`, `.cu` |
| `FunctionTable` | state machine | `func.c`, `tbl.c`, `gm_select` in `apply.c` |
| `FunctionTableProofs` | theorems | |
| `FunctionRegistry` | abstract specification of `FunctionTable` | `gumath/doc/libgumath/functions.rst`, `kernels/common.c` |
| `Slices` | operators | `slice.h`, `xnd.h`, `ndt_var_indices` in `ndtypes.c` |
| `Subscript` (extends `Slices`) | operators and state machine | `xnd.c`, `ndtypes.c` |
| `NestedLists` | abstract specification of `Subscript` | `xnd/python/xnd_randvalue.py`, the reference of the test suite |
| `XndMemory` | state machine | `xnd.c`, `copy.c`, `mblock_init` in `_xnd.c` |
| `Broadcast` | operators | `match.c`, `ndtypes.c`, `util.c` |
| `Typecheck` (extends `Broadcast`) | state machine | `match.c`, `substitute.c`, `symtable.c`, the dtype path of `_gumath.c` |
| `TypecheckProofs` | theorems | |
| `TypeLayout` | operators | the constructors of `ndtypes.c` |
| `Unify` (extends `TypeLayout`) | operators | `unify.c`, `copy.c`, `primitive.c` |
| `Serialize` (extends `TypeLayout`) | operators | `serialize/serialize.c`, `serialize/deserialize.c` |
| `Traversal` (extends `TypeLayout`, `Slices`) | operators | `xnd/libxnd/xnd.h`, `inline.h` |
| `Bitmaps`, `Bounds` (extend `Traversal`) | operators | `bitmaps.c`, `bounds.c` |
| `Reshape` (extends `Broadcast`) | operators | `shape.c`, `contrib.h` |
| `MC*` | values and bounds for TLC; `MCKernelDispatch` and `MCLayouts` compose operator modules to one call and its result | |

Definitions keep the names of the C functions where there is one. Names with a
suffix after an underscore under the comment "Faulty variant" (for instance
`Join_NoWait`) are plausible bugs; they are used by nothing and serve to see
that each property notices the bug it is about (`mutants` in `PROJECT.json`).

### TypeHeap

Memory is a set of cells; a pointer lives in a *site*: a variable of the
calling code, an entry of the typedef table, or a child slot of a cell. `ref`
says what every site points to, `refcnt` and `cell` are the count and the state
of the allocation. The recursion of `ndt_del` through `ndt_decref` is the
variable `stack`, taken one loop iteration at a time (`DelChild`, `DelFree`),
so that invariants are seen in the middle of it.

The constructors are classed by what they do to counts: leaves, one child
(`ndt_fixed_dim`, which can fail *after* storing its child), a child and an
offset array (`ndt_var_dim`), many children (`ndt_tuple`, `ndt_function`), many
children with names (`ndt_record`, which can run out of memory with a prefix of
the fields stored) and `ndt_nominal`. Giving up is `Abandon`: `ndt_decref` on a
cell of count 1 that holds some children. `Share` is a function that returns
its argument with a new reference, `Release` is `ndt_decref` by a caller.

A nominal type also points to the methods in its entry of the typedef table
(`ndtypes.c:2434`), without a reference: `meth` is the entry. Nothing keeps
`ndt_finalize` from freeing entries while such types exist, so `NoDangling` claims
these pointers for the time before it only.

`Value(r)` is the type that the pointer `r` stands for, a tree without
addresses: `Unfold` follows the pointers as often as there are cells, which is
as far as a path without a repeated cell can go. With it as the variable of
`TypeValues` the heap is an implementation of immutable values
(`ImplementsValues`).

### Split and ThreadedApply

`Split` translates the recursion of `schedule`, `column` and `last_column` into
functions on the remaining number of dimensions; a row is the list of slices
that the C code writes into one row of its matrix. `Partitions` says of any rows
that they cut an array up correctly; the assertions on the matrix are part of it.

`ThreadedApply` gives the caller of `gm_apply_thread` one action for each call
that can fail or that another thread can observe (`SplitArgument`, `Compare`,
`Create`, `Join`, ..., with `SplitFails`, `CreateFails` and the failing
allocation in `Compare`) and every thread the steps of `apply_thread`: copying
its slices one argument at a time, the kernel element by element, leaving. A
kernel application writes one output element or fails; `todo` is the set of
elements a thread has in front of it, taken in memory order (`First`).
`GiveUp` is the clean-up code all error paths share.

### GufuncCall

A call from Python is a sequence of phases, each with the error exit that the
code has there: keywords, arguments, device, choice of a kernel, the type for a
dtype argument and a second choice, new outputs one by one, the application,
the results. In the phase `apply` the steps of `ThreadedApply` are taken, which
the module extends; for CUDA the application is one step. The state is what the
call refers to: the slots of `pystack` that hold an object, the dtype, the
types in the `spec` of `ndt_typecheck`, and the contiguous type that
`ndt_copy_contiguous_dtype` makes. `answer` says what is returned, and from
which phase.

### KernelDispatch

`Lost` is the set of flags an argument takes away from the call, `Request`
what each kernel asks for, `select_kernel` the order of preference.
`gm_xnd_map` and `gm_np_map` are the addresses at which a kernel with that
signature will look for an element, given what it assumes (C order, Fortran
order, a zero step, explicit steps); `Address` is where the element is.

### Kernels

gumath finds most kernel sets by their position in a table: the location of the
dtypes, corrected for optional arguments and for fixed, ragged or flexible
dimensions. `KernelTables` has the rows of the tables, `CpuKernels` and
`CudaKernels` the order in which each device adds them and the locations,
`KernelLookup` the correction. Nothing in the code compares the set that is
found with the dtypes again, except where the location is searched for.
`DeviceKernels` has the declarations and definitions of the loops that the
kernels call, for each compiler, and the dtype they compute in. `KernelBodies`
has the loops themselves with the bitmaps of missing values, on arrays that are
functions from linear indices.

`DeviceMath` has what the loops compute, on integers of `Bits` bits that wrap
around as C's do. A float is an integer, NaN or an infinity. A loop is the
sequence of places it visits; a CUDA loop has such a sequence for each thread,
whose indices are unsigned integers of `UnsignedBits` bits.

### FunctionTable

`tbl` maps the prefixes in the trie to functions, `func` holds name, kernels
and how often a function was freed. `gm_tbl_add` yields all its outcomes: it
may stop at an invalid character or at a node that cannot be allocated, with the
nodes before it kept. A signature that was parsed and is
owned is counted in `types`.
`FunctionRegistry` is a map from names to lists that grow at the end; `registry`
is the map that the table stands for.

### Subscript

A type is the sequence of its dimensions, a view a type and a linear index. The
four mutually recursive C functions are `xnd_subtree`, `xnd_multikey`,
`xnd_index`, `xnd_slice`; `ndt_var_indices` composes the stack of slices of a
ragged dimension for one list. An index below a slice of a ragged dimension
becomes a hidden `VarDimElem` that stores it, checked by `validate_indices` when
the view is complete. `NestedLists` is the definition of indexing that the
test-suite keeps (`NDArray`, `getitem`), stated over lists of cells.

### XndMemory

Memory is blocks of words; a word is 0, a block number, or a negative number for
data, so that a word written through one type and read through another is what
the C code would see. Each operation takes a *budget*, the number of allocations
that still succeed, and runs the whole C function on a memory (`xnd_new`,
`mblock_init`, `xnd_copy`, `xnd_clear`), with the early returns where the code
has them. `crash` records an access through, or a release of, anything that is
not a live block.

### Broadcast and Typecheck

`Broadcast` has the arithmetic of dimensions. `Typecheck` takes one action for
each phase of `ndt_typecheck`: arity, one argument after the other against one
symbol table, the constraint, inference of outputs, broadcasting, order. Its
outcome is compared with `Denotes`, the meaning of a pattern under a binding of
its symbols, which says nothing of tables or order. The last action is the
second check gumath makes when a call has a dtype argument. `FastTypecheck` is
the optimized implementation of the same check. What substitution or
broadcasting would make out of dimensions of different kinds is refused by the
constructors (`Mixes`, `Refused`), as `ndt_broadcast_all` refuses arrays with an
array dimension; Fortran order applies to the fixed dimensions that are left in
front (`FortranFrom`).

The uninitialized pointer that `resolve_var` reads for an argument without
dimensions (`match.c:346`) is a nondeterministic choice in `ResolveVar`.

### TypeLayout, Unify and Serialize

A type is a record with the fields of the C struct that matter to layouts,
with the members inside. An operator with the name of a constructor returns the
type or `Error`. Arithmetic is that of integers, and what leaves `InRange` is
refused at the end as by the overflow flags of the code. The alignment of an
abstract type is that of its `_new` function, 2^16 - 1, or one less than twice the
largest alignment here.

`Unify` has `ndt_copy` and `ndt_unify`. The copy of a union is `Crash`: it is
allocated with the number of members as its tag (`copy.c:226`) and no room for
them. The copies of functions, tuples and records build a new node as the code
does, member by member, and any of its allocations may fail, those of the names
in the middle included. A function has `elemwise`, which `ndt_function` sets and `ndt_copy_function` and
`read_function` leave as `ndt_function_new` allocated it; what the memory held is
`fill`, either Boolean. `Serialize` writes a type as a sequence of cells, the groups of values
between which the code does nothing but read, so that a buffer can end in front
of each; positions of members are positions of cells. Reading takes a memory
with a number of allocations left and returns the blocks that are alive.

### Traversal, Bitmaps, Bounds and Reshape

A place is what an `xnd_t` is: a type, a linear index, a position in a block and
the bitmap that belongs to it. `Bitmaps` builds the tree of bit vectors with the
failures of every allocation; `Bounds` visits the corners of a type with
arithmetic that wraps around; `Reshape` has NumPy's algorithm with its ranges of
axes.

## 3. What the runs check

Each `.cfg` names a specification, its bounds and its properties. Every
property carries a comment that states it; this is the summary.

| Run | States | Properties |
|---|---|---|
| `type_heap` | 77 000 | `TypeOK`; `CountExact`: count = number of pointers; `NoDangling`: pointers to types, and before `ndt_finalize` to methods, lead to what exists; `StackSound`: nothing freed twice; `NoLeak`: between calls, allocated = reachable; `ImplementsValues`: refinement of `TypeValues`; `DelReturns`: `ndt_del` ends |
| `threaded_apply` | 142 000 | `ThreadsKeepTheirArguments`: a running thread's slices, record, objects and types exist; `EachElementOnce`; `SequentialError`: the error of the first bad element in memory order; `ReleasesAll`: slices and records; `CallGivesBack`: what the call took it gives back or returns; `CallReturns` |
| `dispatch` | 1 593 000 | `Partition`: the rows of `xnd_split` are the dimensions in order, each index in one; `KernelFits`: the chosen kernel finds every element, in whole arguments and in threads' slices, and has the dimensions it needs; `StridedVisitsAll`; `KernelIsTheCalls`: the set at a location is the one for the dtypes; `ResultsAreExact`: result dtypes hold all arguments and are the least such; `LoopsAreLinked`: every loop is declared and defined once; `ElementwiseResult`: data and bitmaps of results |
| `function_table` | 7 400 | `TableOwnsAll`; `SelectionStable`: later additions never change a selection; `ImplementsRegistry` |
| `subscript` | 124 000 | `ReadsNeverFail`: stored indices stay in bounds; `ImplementsNestedLists` |
| `memory` | 8 500 | `EachBlockOwnedOnce`; `NoBadAccess`; `CopyKeepsValue` |
| `typecheck` | 52 600 | `AcceptsWhatFits`, sound and complete with respect to `Denotes`; `BroadcastReads`; `OutputsHaveTheirPlaces`; `ChecksAgree`: the optimized check with the general one, the second check with the first |
| `layouts` | 404 000 | `LayoutsFit`: members and items are aligned, disjoint and inside, and no byte is lost; `UnifiedHoldsBoth`: the least type that holds the values of both; `CopiesAreEqual`: copies and round trips through bytes, and nothing left over when they fail; `EachValueHasItsBit`; `BoundsCoverAllValues`; `ReshapeKeepsItems`; `ArithmeticIsExact`; `EachItemOnce` |

Four further runs end in a violation each; section 6 explains them.

Deadlock is checked in `type_heap` only. The other state machines end: a call
returns, a chain of subscripts has its length, a table is full, memory has been
misused.

### Bounds, and why they are enough

* **type_heap**: three cells, three variables, one typedef, two children, at
  most five pointers that are not null. Three cells make every shape of sharing
  of depth two: one child twice, a diamond on a shared child, a chain. The bound on
  pointers cuts fan-in only. `Bounded` also fixes the order in which cells and
  variables are used, which loses no behaviour up to renaming (TLC's symmetry
  sets would not do, since the run has a liveness property). The theorems of
  section 5 do without these bounds, here and in the runs for threads,
  splits and tables below.
* **threaded_apply**: three arguments, two of them 2 × 2 arrays and one with an
  inner dimension, as none to two outputs, given or not, with and without dtype,
  on both devices; up to three threads, so that one column is uneven; any set of
  bad elements and any failure. `GM_THREAD_CUTOFF`, a million items, is the Boolean `large`.
* **dispatch**: splits into up to thirteen parts of up to three dimensions of
  length 0 to 3: parts fewer than, equal to and more than the items of one, two
  and three dimensions, divisible or not (thirteen exceeds the twelve items of
  2 × 2 × 3). Choices for two arguments of up to three dimensions (and a ragged
  one), lengths 0 to 2, steps −1 to 2: the flags depend on a dimension being
  empty, single or longer and on a step being that of C or Fortran order, zero
  or another, and two arguments suffice since flags are intersected. Look-ups
  for every function class, pair of dtypes, pattern of optional arguments and
  kind of dimensions on both devices: these are not bounded at all. Kernels on
  arrays within blocks of four elements (`Extent`), with every pattern of
  missing values and steps that go forwards, backwards or nowhere.
* **function_table**: three names, two of them prefixes of one another and one
  invalid; three signatures, two that overlap and one that does not parse;
  `GM_MAX_KERNELS` is 3 instead of 8192, and 3 functions can be allocated
  (`MaxFuncs`).
* **subscript**: chains of three subscripts (`Keys`), the first two of up to
  two and three keys; slices forwards, backwards, with step 2, empty for some
  lists only; seven containers with empty, single and longer lists.
* **memory**: eight types that nest every tag below every other that behaves
  differently, one or two containers, values that fit, do not fit, or are empty,
  and 0, 1, 2 or enough successful allocations (`Budgets`). `MaxBlocks` is above
  what any reachable memory holds. The types leave out four combinations that
  are known to fail; section 6 lists them.
* **typecheck**: 9 261 calls of twenty-three signatures, taken from the kernels of
  gumath, its examples and the tests of `ndt_typecheck`; arrays of up to three
  dimensions of length 0 to 3, C, Fortran and reversed; ragged and flexible
  ones. Symbols occur several times, alone and with type variables, and each
  kind of ellipsis occurs.

* **layouts**: every behaviour is one call, so that the bounds are those of the
  calls. Up to three members of ten types with every combination of alignment,
  packing and padding, sensible or refused; `MaxSize` = 255 and `MaxAlign` = 16
  stand for `INT64_MAX` and 32768, so that overflow is within reach of small
  shapes; `NDT_MAX_DIM` = 3, `MaxTags` = 2. Unification takes every pair out of
  93 types that have each kind of member inside each other; so does
  serialization, with every length of the buffer and memory for 0, 1, 2, 3, 5 or
  enough blocks (`Lefts`). Numbers have 4 bits (`Bits`), and all pairs are
  divided, multiplied and compared; loops of up to `MaxItems` = 40 items exceed
  both the eight that the CPU does at a time and the 32 that unsigned integers
  of 5 bits count, with blocks of 4 threads.

Exceptions that properties make are stated in them by name, not hidden in bounds:

* `ThreadsKeepTheirArguments` excepts a failed `pthread_create`;
* `CallGivesBack` excepts what the code keeps: the arguments when no kernel is
  found or the dtype does not fit, and the inputs of kernels with several outputs
  (`ArgumentsKept`); the dtype of calls that fail before it is used
  (`DtypeKept`); the types of a kernel set that has no kernel for the layout
  (`TypesKept`); and the contiguous type made for a dtype;
* `ChecksAgree` excepts, for the second check, outer dimensions of at most one
  item, a contiguous type that does not have the order that is required, a type
  variable that stands for an array which is not contiguous, and ragged items of
  different size, and is claimed one way only for the optimized check of signatures
  with an inner dimension;
* `OutputsHaveTheirPlaces` excepts symbols and type variables that bring the steps
  of an argument into an output (`BringsSteps`), and claims the order that a
  signature asks for only where substitution can give it (`GetsOrder`): not for
  Fortran order of inner dimensions that are symbolic or nested, and not for C order
  of an output that ends in dimensions of arrays;
* `KernelIsTheCalls` excepts bitwise functions of uint16 and another integer,
  for which the location is out of order; `ElementwiseResult` excepts equaln
  with missing values and a result that does not start its block;
* `UnifiedHoldsBoth` excepts pairs without an order (`Unordered`: bfloat16 and
  float16, bcomplex32 and complex32, utf8 and ucs2: the result holds one of the
  two only), and claims that nothing is refused without need except for
  references against unknown types, flexible arrays of different items, fixed
  bytes whose larger size is no multiple of the larger alignment, slices, and
  abstract types (`Strict`);
* `CopiesAreEqual` excepts unions, whose copy the program does not survive, the
  `elemwise` of functions, which neither a copy nor a read sets, and the node of
  a function that is lost when a buffer ends in the positions of its arguments;
* `BoundsCoverAllValues` excepts types that hide values between their corners
  (`HidesValues`): empty lists in a ragged dimension of ragged lists, first or
  last members without bytes, and negative steps in tuples of three members;
* `EachItemOnce` is claimed for CUDA as long as items and one block can be
  counted with unsigned integers (2^32 in the code); beyond that it says that
  no item is left out if the loop ends;
* `ArithmeticIsExact` states what the code makes of undefined divisions (zeros),
  and that a signed power that is the smallest number becomes zero.

## 4. Fairness

* `WF_vars(ndt_del)` in `TypeHeap`: the frames on `stack` are function calls in
  progress. A C function goes on; the caller cannot do anything before it
  returns (all other actions need `Idle`). `DelReturns` is about the recursion
  ending, whatever the sharing.
* `_gufunc_call`, `CallerStep` and `apply_thread(t)` for each thread in
  `FairSpecCall`, each weakly fair: the code of the call goes on, and the
  operating system schedules runnable threads. `Join` waits (it is enabled only
  when the thread has exited), so weak fairness does not grant that a join
  succeeds; it follows from the fairness of the threads. No fairness favours
  success over failure: `SplitFails`, `CreateFails` and bad elements are steps
  like the others.

All other specifications are safety specifications without fairness.

## 5. What is proved

TLAPS checks the theorems for every value of the constants that the assumptions
allow; TLC had found each of them true on the instances above first. The
assumptions are named and stated with the constants, and TLC evaluates them:

| Assumption | What it says |
|---|---|
| `HeapAssumption` | finite sets of cells, variables and typedef names, disjoint from each other; at least one child slot; null and the static types are no cells |
| `ApplyAssumption` | at least one argument; every argument has at least the outer dimensions, and these are the same (what `ndt_broadcast_all` leaves); a number of processors |
| `CallsAssumption` | signatures are as the parser and `check_function_invariants` leave them (`SignatureOK`): all types have the same ellipsis or none, fixed and array dimensions are not mixed, the symbols of outputs occur in inputs or are computed; arguments have dimensions and a dtype |
| `TableAssumption` | names are strings; room for at least one kernel in a function; null is no name, no function and no list |
| `BoundsAssumption` | the bounds on parts, dimensions, ranks, shapes and cuts are natural numbers, steps are integers |

### Types: `TypeHeapProofs`

| Theorem | Statement |
|---|---|
| `TypeCorrect` | `Spec => []TypeOK` |
| `CountsAreExact` | `Spec => []CountExact` |
| `NothingDangles` | `Spec => []NoDangling` |
| `NothingFreedTwice` | `Spec => []StackSound` |
| `NothingLeaks` | `Spec => []NoLeak` |
| `ValuesImplemented` | `Spec => ImplementsValues`: the heap implements `TypeValues` |

`NoDangling` is not inductive: whether freeing a cell leaves a dangling pointer
depends on its count being the number of its users. `CountExact` alone is not
either. `New` fills the slots of a free cell, and counts stay exact only if
those slots were null before: the last conjunct of `StackSound`. `DelFree` frees
the innermost cell of the stack, which must have no users and no second place on
the stack: the other two conjuncts. The inductive invariant is

```
IInv == TypeOK /\ CountExact /\ StackSound /\ MethodsLive
```

and `NoDangling` follows from it without a step (`PointersLive`): the pointer
is itself one of the users that the count counts. `MethodsLive` is inductive
because only `ndt_finalize` takes entries out of the table (`MethodsStep`).

The argument is about cardinalities of sets of sites. `UsersUpdate` says how
the number of users of a cell changes when one site changes, `UsersFill` when
all slots of a free cell are filled at once. On them rest one lemma for each way
the code changes pointers: `AcquireStep`, `DecrefStep` (which uses `PushStep` when the
count reaches zero), `MoveStep`, `NewStep`, `AbandonStep`, `FreeStep`.
`ConstructCases` reduces the eight constructors to a cell that is filled and
kept or filled and abandoned (`ConstructStep`), `StepIInv` splits `Next`, and
`Invariance` concludes by PTL.

`IInv` does not imply `NoLeak`: two cells that point to each other have exact
counts and nobody reaches them. That the code cannot make them is a second
invariant,

```
Acyclic == every set of cells that is not empty has a member to which no member points
```

because a cell that nobody points to is filled with pointers to older ones
(`FilledCell`) and children are otherwise only dropped (`FewerChildren`). If the
cells in use that no holder reaches were not an empty set, one of them would be
pointed to by none of them, nor by a cell that is reached, nor by a holder; its
count would be 0, and a live cell's is not.

The refinement needs to know what a pointer stands for when cells are given new
contents and freed. `UnfoldEquation` unrolls the recursion of `Value`,
`UnfoldSame` says that a value depends only on the cells below it,
and `UnfoldDeep` that unfolding a set of cells that is closed and acyclic deeper than it
has members changes nothing: by induction on the size of the set, taking away
a cell to which no other points. So a new cell has the value that
its constructor was asked for (`NewValue`), all other values stay, also those of
cells below one that is being freed (`ValueOther`, `TypesKept`), and
each step is one of `TypeValues` for one holder or a stutter (`ValuesStep`).

### Splitting: `SplitProofs` and `Induction`

`LastColumnPartitions`: for every number of parts `n >= 1` and length `m >= n`,
the `n` slices of `last_column` start at 0, end at `m`, follow each other
without a gap, are not empty, and every index is in exactly one.

`SplitPartitions`: for every number of parts, every number of dimensions and
all their lengths, the rows of `xnd_split` cut the outer dimensions into a
partition (`Partitions`). There is no assumption on constants.
`KernelDispatchProofs` draws the conclusion for the calls of the dispatch model
(`PartitionHolds`: `Spec => []Partition`).

The proof goes up the dimensions, as `schedule` does: `CutsInto(rows, n, shape)`
says that the rows cut the last dimensions into what `n` parts make of them, and
`LevelCuts` that it is kept when one dimension is put in front, whether that
dimension has items for all parts (`LastColumnCuts`) or every item gets several
parts (`ColumnCuts`, from `Blocks`: numbers are cut into blocks, and a row of a
flattened list is a row of one block). What the induction
theorems of the library cannot be asked for, since they take the property as an
operator, is asked for as a set: `Least` and `NatSetInduction` are derived
from the well-foundedness of `<`, and `Recursion` gives a recursive function
over a range its equations.

### Choice of a kernel: `KernelDispatchProofs`

`KernelFitsHolds` (`Spec => []KernelFits`): for two arguments of any rank, shape and
steps, or one and an argument with var dimensions, for any kernel set and any number of
threads, every kernel but a strided one finds each element at its address, in the whole
arguments and in every slice that `xnd_split` makes for a thread, although it was
chosen for the whole ones; a kernel with a loop dimension has one; a strided kernel has
room for all dimensions and steps.

The inductive invariant, `SelectInv`, says what a call can be given and that its
result is `select_kernel`'s. The rest is about the operators:

* an address is a fold over all dimensions. `SumRuns` gives the fold of the community
  modules its equations (`Iteration`: it is a `CHOOSE` of a function on sets of
  positions, which has to be shown to exist), `SumSplit` takes it apart, and
  `AddressSplit` gives the part that the loops of `gm_apply` follow and the part
  that is left to the kernel;
* `Fit` says, for each kernel, which steps are those of a contiguous array, and
  `ChosenFits` that the flags left by `check_c`, `check_f` and `check_strided` for all
  arguments allow a kernel only where it fits each; a dimension of
  at most one item may have any step, since its index is 0 (`SameDistance`);
  `FitFinds` concludes for a whole array;
* a row of `xnd_split` only shortens dimensions, keeps all steps and leaves the inner
  dimensions alone, which the steps of a contiguous array are computed from
  (`SlicedProperties`, `SameSteps`), so that a kernel that fits an array
  fits each cut of it (`FitCut`); that rows are such is `SplitCuts`.

### Threads: `ThreadedApplyProofs`

| Theorem | Statement |
|---|---|
| `DataKept` | `Spec => []ThreadsKeepTheirData` |
| `WrittenOnce` | `Spec => []EachElementOnce` |
| `ErrorIsSequential` | `Spec => []SequentialError` |
| `AllReleased` | `Spec => []ReleasesAll` |

for any arguments, dimensions, threads, bad elements, failures and schedules. The
inductive invariant `Inv` (`InvHolds`) has one conjunct for each place of the
caller. What it says of threads is in two parts:

* `Working(S, T, error)`: an executor with the share `S` that has `T` in front of
  it has written `S \ T` once and `T` never, met no bad element, and all
  of `bad \cap S` is in `T`; or it stopped at the first one. `EachElementOnce` is
  not inductive without it: that nobody else writes a thread's elements is a
  property of shares, and that nothing is left out is one of `todo`.
* `FirstError(joined)`: the context of the caller has the error of the first of
  the joined threads that failed, and those before it have no bad
  elements. That this is the error of the sequential call follows when
  all are joined, since shares follow each other in memory
  order (`SplitPartitions`): the one property of splitting that nobody would miss
  before looking at errors.

Steps of threads keep `Threaded` (`MovesKeepThreaded`) whatever the caller does, which
is the whole of the argument about interleaving.

### Calls: `GufuncCallProofs`

| Theorem | Statement |
|---|---|
| `CallApplies` | `SpecCall => Spec`: a call implements `ThreadedApply` |
| `CallWritesOnce`, `CallErrorIsSequential`, `CallReleasesAll` | what follows from it for calls |
| `CallKeepsArguments` | `SpecCall => []ThreadsKeepTheirArguments` |
| `CallGivesBackHolds` | `SpecCall => []CallGivesBack` |

for kernels with any number of inputs and outputs. `CallGivesBack` is about calls
that have returned; the invariant `CallInv` says for each phase what the call
holds: a prefix of the stack up to the arguments, up to the output that is being
made, or all of it, and which of dtype, spec and results it owns besides.
It also ties the phases to the places of `gm_apply_thread`, so that no thread runs
before or after the phase `apply`.

### Function tables: `FunctionTableProofs`

| Theorem | Statement |
|---|---|
| `TableOwns` | `Spec => []TableOwnsAll` |
| `SelectionIsStable` | `Spec => SelectionStable` |
| `RegistryImplemented` | `Spec => ImplementsRegistry`: the table implements `FunctionRegistry` |

All operations have one of five effects (`Effect`, from `TblAdd`, `FuncAdd`,
`AddKernelEffect`): nothing, a function that could not be entered and is deleted,
a new function without or with a kernel, a function with one kernel more. The
invariant `TableInv` adds to `TableOwnsAll` that the entries of the trie are
functions with the name they are found under and that each function which is
alive has an entry: this is why a kernel goes to one name only
(`EntriesApart`), and a selection, the first kernel of a function that
fits, stays when kernels come after it (`ChosenStays`).

### Type checking: `TypecheckProofs`

| Theorem | Statement |
|---|---|
| `AcceptsWhatFitsHolds` | `Spec => [](Ellipsis # "var" => AcceptsWhatFits)` |
| `BroadcastReadsHolds` | `Spec => []BroadcastReads` |
| `OutputsHaveTheirPlacesHolds` | `Spec => [](Ellipsis # "var" => OutputsHaveTheirPlaces)` |

for any signatures and arguments with any number of dimensions of any lengths and
steps. Signatures with a ragged ellipsis are excepted in two of them: for an argument
without dimensions the code compares with an uninitialized pointer, and may accept or
refuse; and ragged outputs have no places to be counted.

`AcceptsWhatFits` compares the outcome of a run through the arguments, which fills a
table, with the existence of one binding for all of them. It is not inductive: what is
needed in between is that the table has what was matched so far and nothing without
reason. The invariant `Inv` (`InvHolds`) has a part for each thing that passes from
phase to phase:

* `CallInv`: the call is one of `Calls` and the phase fits its state;
* `TableInv`: each argument that was matched fits the table (`ArgFits`), and each
  binding that the matched arguments fit agrees with all of its entries. The first
  makes an acceptance right, the second a refusal;
* `ShapeInv`: the entry for the ellipsis is the common shape of the outer dimensions
  of the matched arguments (`CommonShape`). Other entries never change; this one is
  replaced when the next argument is broadcast against it, by a shape that reads the
  old one (`Keeps`);
* `TypesInv`: the inputs are the arguments, stretched to that shape when they have been
  broadcast, and all types start with it;
* `Refusals`: a call that failed has no binding, or two arguments that cannot be
  broadcast together.

`MatchSound` and `MatchComplete` are about one argument: what is matched fits the new
table, and what a binding that agrees with the table fits is matched; both by induction
over the dimensions, which are walked from the front (`MatchDimSound`,
`MatchDimComplete`, `MatchDtypeSound`, ...). `ResolveProperties` and `NoCommonShape` say
that the shape the code finds for two arguments is one both read, and that where it
fails there is none. That a broadcast type reads its argument's items is an equation
of sums: `AddDimsProperties` and `AddressSteps` give the recursive functions of
`Broadcast` their equations, `SameAddress` compares them term by term, and
`ReadsItsItems` concludes for all indices. One lemma for each action
(`CheckArityStep`, ..., `CheckAgainStep`) shows that `Inv` is kept.

`OutputsHaveTheirPlaces` is about the last phase only, after an output was made by
substitution, put around the common shape and put into order. A second invariant,
`OutInv`, says what it is in each of these phases as a function of the table and
its pattern: `Substitute(p)`, `Inferred(p)`, `Final(p)`. It is kept next to `Inv`, because
the table no longer changes after the arguments (`SameOutputs`, `OutputGrows`,
`BroadcastOut`, `OrderOut`). What remains is about operators:

* `Packed(dims)`: the extent is the product of the lengths, and the indices are
  numbered by their addresses, each number once. The second alone does not carry
  over when a dimension is put in front, since the code computes its step from the
  extent of what is inside and not from the number of items (`GrownExtent`);
  with the first it does (`PackedCons`), and likewise when one is put behind and the
  number of items before it is its step, as in Fortran order (`PackedSnoc`,
  `FortranPacked`). `Combined` is the arithmetic: numbers below
  `m * n` are pairs of numbers below `m` and `n`;
* `InOrder(dims)`: the steps are those of a contiguous array. It is what is required
  of the dimensions of an argument that an output is made around
  (`BringsSteps` excepts the others), and implies `Packed` (`InOrderPacked`);
* `Laid` and `EndsWith`: where the dimensions of a pattern, of its symbols and of its
  type variable end up in the result (`InnerLaid`, `OuterLaid`, `FinalLaid`), so that the
  result fits the pattern (`LaidFits`), in the order that it asks for (`FinalOrdered`).

## 6. Where the code and its documents disagree

Each of these runs checks one property that states what the repository says, and
TLC shows a behaviour of the code that violates it.

1. `dispatch_traversal` — `gm_np_map` calls a strided kernel with the last
   outer dimension still in front (`nploops.c:200`). For kernels with an inner
   dimension, such as `extending/quaternion.c:122`, the kernel then goes through
   the outer dimension and computes one element of every vector.
   `functions.rst:77` says outer dimensions are traversed first.
2. `function_table_fail` — `gm_tbl_add` deletes a function that it cannot
   insert and `gm_add_func` deletes it again (`func.c:91`); the documentation
   promises an error.
3. `memory_union` — a union that held a number and is given a string reads the
   bits of the number as its old pointer (`_xnd.c:771`), against the comment at
   `xnd.c:209`.
4. `typecheck_fold` — the explicit output of a fold is broadcast with the steps
   of an output (`match.c:818`), so that a kernel from the general check writes
   past the accumulator.

Further observations have no run of their own, because no line of the
repository says otherwise or because a run exists for a close relative. They
are the hazards with a note in `PROJECT.json`:

* a failed `pthread_create` frees slices that running threads read;
* a call of a function with several outputs (`divmod`) never releases its inputs,
  nor does a call for which no kernel is found; a call with a dtype argument
  never releases the contiguous type (`_gumath.c:316-338`, `:450`);
* a tuple of two references leaks the first target when there is no memory for
  the second, and `xnd_clear` of a reference to pointers may follow null;
* `xnd_copy` between flexible arrays of strings loses the old strings, and of an
  array onto itself reads the new, empty block;
* `resolve_constraint` takes a mismatch with an explicit output for success;
* contiguity is required of arguments before broadcasting only;
* `gm_select` goes on to the next kernel after any error, lack of memory included;
* `max_tag` (`unify.c:55`) takes the later of two types where neither holds the
  values of the other (bfloat16 and float16), against the comment before it;
* `ndt_copy_union` (`copy.c:226`) allocates a node of the wrong kind;
* `ndt_copy_function` (`copy.c:134`) and `read_function` (`deserialize.c:384`) never
  set `Function.elemwise`, which only `ndt_function` does (`ndtypes.c:1427`): copies
  of a signature hold whatever the memory held. No code in C reads the member yet;
* nominal types that are left when `ndt_finalize` is called point to methods that
  it has freed;
* `read_function` (`deserialize.c`) loses its node when a buffer ends early;
* two threads may set bits in one byte of a bitmap (`common.h`, `set_bit`), which
  `ThreadedApply` has not;
* equaln applies the index of its result twice (`common.c:172`);
* broadcasting 3 with 0 gives 0, but 0 with 3 is an error (`AcceptsWhatFits` calls
  neither compatible, so either is allowed);
* a call with a dtype argument fails if an outer dimension of the output has at
  most one item;
* a type variable that stands for an array passes its steps, negative ones too, to
  outputs which are made with it, and a Fortran order asked for inner dimensions
  is dropped without an error if they come from a symbol.

## 7. What is only model-checked, and what is not modelled

Only model-checked:

* liveness (`DelReturns`, `CallReturns`): the provers have neither fairness nor
  `ENABLED`;
* everything in `Subscript`, `NestedLists`, `XndMemory`, `Unify`, `Serialize`,
  `Traversal`, `Bitmaps`, `Bounds`, `Reshape` and `DeviceMath`, the refinement
  `ImplementsNestedLists` with it: the definitions are recursive over types and
  values and use `RECURSIVE` operators, which the provers do not handle;
* `KernelIsTheCalls`, `ResultsAreExact` and `LoopsAreLinked` go through finite
  tables, which TLC does completely; `ElementwiseResult` depends on loops
  over bitmaps;
* of `Typecheck`: `ChecksAgree`, which compares two runs of different algorithms;
  and what a ragged ellipsis accepts.

Left out inside modelled parts:

* `TypeHeap`: names, flags and shapes; counts that wrap around (they are
  64 bit wide); calls that fail before they touch a count, which change nothing.
* `ThreadedApply`: what kernels compute; a `pthread_join` of an existing thread
  does not fail.
* `GufuncCall`: the types and data of the arguments (`Typecheck`, `KernelDispatch`)
  and the checks of their classes, of which only success or failure is kept.
* `KernelDispatch`: item sizes (a common factor of the strides of an argument).
* `FunctionTable`: a signature is the set of argument types it accepts; the
  optimized type checks select by position and are in `Typecheck`; `gm_tbl_del`,
  which ends the table, is left out.
* Kernels: the promotion of small integers to `int` in C (a product of two
  `uint16` may overflow it), rounding, signed zeros, transcendental functions and byte orders;
  the kernels of `extending/` beyond their signatures.
* `TypeLayout`: how attributes are parsed; `Unify` and `Serialize`: strings,
  bytes, characters, categorical types, modules, ellipses, and buffers whose
  bytes were changed rather than cut off.
* `Subscript`: fields of tuples, records and unions as keys; flexible arrays.
* `XndMemory`: ragged dimensions, bitmaps, constraints of nominal types, views
  into a container and so overlapping copies; copies that change the tag of a
  union (`copy.c:772`).
* `Typecheck`: patterns that are tuples, records, unions, functions, references
  or kinds of scalars; slices of ragged arguments; symbols that stay unbound;
  lack of memory. What the parser guarantees of signatures is
  `CallsAssumption`.

Not modelled, and why: the lexer, grammar and printer (generated or pure text);
`xnd_equal` (a case for every pair of scalar types under one recursion, without
state) and `ndt_equal` (the equality of the models' records); the kernel
generator `xndtools` (writes C text); the wrappers of the CUDA runtime; build
files. The Python objects (MemoryBlock, views, buffer exports) own memory through
the reference counts of Python, which the repository uses and does not define:
their values are in `XndMemory`, their views in `Subscript`, their ownership is
not modelled. `gumath.reduce` and `gumath.fold` are Python code that composes
calls and reshapes. The error context holds one message, on which no decision
depends but the one in `SequentialError`.

## 8. Plan

The order puts first what other parts rely on and what a test reaches least.

1. `TypeHeap`, `TypeValues` — ownership of types; `TypeHeapProofs`.
2. `Split`, `ThreadedApply` — the only concurrency; `SplitProofs`.
3. `KernelDispatch`, `FunctionTable`, `FunctionRegistry` — which kernel, on what.
4. `Subscript`, `NestedLists` — views.
5. `XndMemory` — embedded pointers.
6. `Broadcast`, `Typecheck` — calls.
7. `KernelTables` and its kin — which kernel set, and what it computes.
8. `TypeLayout`, `Unify`, `Serialize`, `Bitmaps`, `Bounds`, `Reshape`,
   `DeviceMath` — the algorithms without state, in `MCLayouts`.
9. `GufuncCall` — what a call from Python owns.

All of these are done. Left to be modelled: the order in which the Python objects
let go of data and types, and bitmaps of results in `ThreadedApply`.

Next, to be proved:

* `KernelDispatch`: `StridedVisitsAll` for arrays of any number of dimensions;
  `SumSplit` takes the addresses apart, what is missing is that the recursion of
  `gm_np_map` lists them in row-major order.
