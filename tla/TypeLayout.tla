----------------------------- MODULE TypeLayout ------------------------------
(***************************************************************************)
(* The constructors of concrete types (ndtypes.c): what they refuse, and   *)
(* the sizes, alignments, steps, offsets and paddings they compute.        *)
(*                                                                         *)
(* A type is a record with the fields below; types of several members have *)
(* them in types, types of one in type.  All the library knows of a scalar *)
(* is its size and alignment.                                              *)
(***************************************************************************)
EXTENDS Integers, Sequences, SequencesExt, TLC

CONSTANTS
    MaxSize,        \* the largest int64_t
    MaxAlign,       \* the largest power of two that fits a uint16_t
    NDT_MAX_DIM,
    MaxTags         \* members of a union: 255 in the code

\* An attribute that is not given, and a step that is not given.
Nothing == -1
DefaultStep == MaxSize

Error == [tag |-> "error"]
IsError(t) == t.tag = "error"

\* Arithmetic that leaves the range of int64_t is an error in the end.
InRange(n) == -MaxSize - 1 <= n /\ n <= MaxSize
AbsValue(n) == IF n < 0 THEN -n ELSE n

\* ndt_subtree_flags of several types.
ndt_subtree_flags(types) ==
    [suboption |-> \E t \in Range(types) : t.opt \/ t.suboption,
     pointer |-> \E t \in Range(types) : t.pointer,
     ref |-> \E t \in Range(types) : t.ref]

NoFlags == ndt_subtree_flags(<<>>)

Scalar(name, size, align, opt) ==
    [tag |-> name, opt |-> opt, ndim |-> 0, size |-> size, align |-> align, concrete |-> TRUE] @@ NoFlags

\* The alignment of what is abstract.
UINT16_MAX == 2 * MaxAlign - 1

ndt_new(tag, opt) ==
    [tag |-> tag, opt |-> opt, ndim |-> 0, size |-> 0, align |-> UINT16_MAX, concrete |-> FALSE] @@ NoFlags

\* Types of no value, that stand for others.
ndt_scalar_kind(opt) == ndt_new("ScalarKind", opt)
ndt_any_kind(opt) == ndt_new("Any", opt)
ndt_typevar(name) == ndt_new("Typevar", FALSE) @@ [name |-> name]

ndt_itemsize(t) == IF t.tag \in {"FixedDim", "VarDim"} THEN t.itemsize ELSE t.size

\* Memory: the blocks that are alive, those that can still be allocated, and
\* for functions what a byte reads as that nothing has been written to (fill).
CanAllocate(mem, n) == mem.left >= n
Allocated(mem, n) == [mem EXCEPT !.live = @ + n, !.left = @ - n]
Freed(mem, n) == [mem EXCEPT !.live = @ - n]

\* Nodes with room for several members, as they are allocated.  Nothing is
\* written to elemwise; the numbers of arguments and results follow at once.
NullPointer == [tag |-> "null"]
NoName == ""

ndt_function_new(nargs, fill) ==
    ndt_new("Function", FALSE) @@ [elemwise |-> fill, types |-> [i \in 1..nargs |-> NullPointer]]

ndt_tuple_new(variadic, shape, opt) ==
    ndt_new("Tuple", opt)
    @@ [variadic |-> variadic, types |-> [i \in 1..shape |-> NullPointer], offset |-> [i \in 1..shape |-> 0],
        aligns |-> [i \in 1..shape |-> 1], pad |-> [i \in 1..shape |-> 0]]

ndt_record_new(variadic, shape, opt) ==
    [ndt_tuple_new(variadic, shape, opt) EXCEPT !.tag = "Record"] @@ [names |-> [i \in 1..shape |-> NoName]]

-----------------------------------------------------------------------------
(* Dimensions.                                                             *)

check_type_invariants(type) == type.ndim < NDT_MAX_DIM

check_fixed_invariants(type) == type.tag \notin {"VarDim", "Array"} /\ type.ndim < NDT_MAX_DIM

check_var_invariants(type) ==
    /\ type.tag \notin {"FixedDim", "Array"}
    /\ type.ndim < NDT_MAX_DIM
    /\ type.tag = "VarDim" => type.concrete

check_array_invariants(type) == type.tag \notin {"FixedDim", "SymbolicDim", "VarDim"} /\ ~type.ref

fixed_step(type, step) ==
    IF step # DefaultStep THEN step
    ELSE IF type.tag # "FixedDim" THEN 1
    ELSE IF type.itemsize = 0 THEN type.shape * type.step
    ELSE type.size \div type.itemsize

\* Faulty variant: a negative step needs no room.
fixed_datasize_Signed(type, shape, step, itemsize) ==
    IF shape = 0 \/ type.size = 0 THEN 0 ELSE (shape - 1) * step * itemsize + type.size

fixed_datasize(type, shape, step, itemsize) ==
    IF shape = 0 \/ type.size = 0 THEN 0 ELSE (shape - 1) * AbsValue(step) * itemsize + type.size

ndt_fixed_dim(type, shape, step) ==
    LET s == fixed_step(type, step)
        size == fixed_datasize(type, shape, s, ndt_itemsize(type)) IN
    IF ~check_fixed_invariants(type) \/ shape < 0 THEN Error
    ELSE IF type.concrete /\ ~(InRange(s) /\ InRange(size)) THEN Error
    ELSE [tag |-> "FixedDim", opt |-> FALSE, shape |-> shape, type |-> type, ndim |-> type.ndim + 1,
          concrete |-> type.concrete, step |-> IF type.concrete THEN s ELSE MaxSize,
          itemsize |-> IF type.concrete THEN ndt_itemsize(type) ELSE 0,
          size |-> IF type.concrete THEN size ELSE 0, align |-> IF type.concrete THEN type.align ELSE UINT16_MAX]
         @@ ndt_subtree_flags(<<type>>)

ndt_symbolic_dim(name, type) ==
    IF ~check_fixed_invariants(type) THEN Error
    ELSE [tag |-> "SymbolicDim", opt |-> FALSE, name |-> name, type |-> type, ndim |-> type.ndim + 1,
          concrete |-> FALSE, size |-> 0, align |-> UINT16_MAX]
         @@ ndt_subtree_flags(<<type>>)

\* The offsets of a dimension delimit its lists; the last counts their items.
ndt_var_dim(type, offsets, slices, opt) ==
    LET n == Last(offsets)
        size == IF type.tag = "VarDim" THEN type.size ELSE n * type.size IN
    IF ~check_var_invariants(type) \/ Len(offsets) < 2 \/ ~type.concrete THEN Error
    ELSE IF type.tag = "VarDim" /\ n # Len(type.offsets) - 1 THEN Error
    ELSE IF ~InRange(size) THEN Error
    ELSE [tag |-> "VarDim", opt |-> opt, type |-> type, ndim |-> type.ndim + 1, concrete |-> TRUE,
          size |-> size, align |-> type.align, itemsize |-> ndt_itemsize(type),
          offsets |-> offsets, slices |-> slices]
         @@ ndt_subtree_flags(<<type>>)

\* A flexible array and a reference are pointers, whatever they point to.
PointerSize == 8

ndt_array(type, opt) ==
    IF ~check_array_invariants(type) THEN Error
    ELSE [tag |-> "Array", opt |-> opt, type |-> type, ndim |-> type.ndim + 1, concrete |-> type.concrete,
          itemsize |-> type.size, size |-> 2 * PointerSize, align |-> PointerSize]
         @@ [ndt_subtree_flags(<<type>>) EXCEPT !.pointer = TRUE]

ndt_ref(type, opt) ==
    IF ~check_type_invariants(type) THEN Error
    ELSE [tag |-> "Ref", opt |-> opt, type |-> type, ndim |-> 0, concrete |-> type.concrete,
          size |-> PointerSize, align |-> PointerSize]
         @@ [ndt_subtree_flags(<<type>>) EXCEPT !.pointer = TRUE, !.ref = TRUE]

ndt_constr(name, type, opt) ==
    IF ~check_type_invariants(type) THEN Error
    ELSE [tag |-> "Constr", opt |-> opt, name |-> name, type |-> type, ndim |-> 0, concrete |-> type.concrete,
          size |-> IF type.concrete THEN type.size ELSE 0,
          align |-> IF type.concrete THEN type.align ELSE UINT16_MAX]
         @@ ndt_subtree_flags(<<type>>)

\* known: the name has a typedef and the type, if it is given, matches it.
ndt_nominal(name, known, type, opt) ==
    IF ~known THEN Error
    ELSE [tag |-> "Nominal", opt |-> opt, name |-> name, type |-> type, ndim |-> 0, concrete |-> type.concrete,
          size |-> type.size, align |-> type.align]
         @@ ndt_subtree_flags(<<type>>)

is_elemwise(types) ==
    \A t \in Range(types) : t.ndim = 0 \/ (t.ndim = 1 /\ t.tag = "EllipsisDim")

\* Types of functions; those with ellipses are Typecheck's.
ndt_function(types, nin) ==
    IF nin = 0 /\ \E i \in DOMAIN types : ~types[i].concrete THEN Error
    ELSE ndt_subtree_flags(types) @@ [nin |-> nin, nout |-> Len(types) - nin]
         @@ [ndt_function_new(Len(types), FALSE) EXCEPT !.elemwise = is_elemwise(types), !.types = types]

-----------------------------------------------------------------------------
(* Fields.                                                                 *)

ispower2(n) == n \in {2^k : k \in 0..15} /\ n <= MaxAlign
Larger(m, n) == IF m >= n THEN m ELSE n

\* Faulty variant: the next multiple, also of a multiple.
round_up_Beyond(offset, align) == (offset \div align + 1) * align

round_up(offset, align) == ((offset + align - 1) \div align) * align

\* The alignment of a member, or that the attributes are refused.
min_field_align(type, align, pack) ==
    LET n == IF align # Nothing THEN Larger(align, type.align)
             ELSE IF pack # Nothing THEN pack
             ELSE IF type.concrete THEN type.align ELSE 1 IN
    IF align # Nothing /\ pack # Nothing THEN Nothing
    ELSE IF ~type.concrete /\ (align # Nothing \/ pack # Nothing) THEN Nothing
    ELSE IF ~ispower2(n) THEN Nothing ELSE n

get_align(align, default) ==
    IF align = Nothing THEN default ELSE IF ispower2(align) THEN align ELSE Nothing

ndt_fixed_bytes(size, align, opt) ==
    LET n == get_align(align, 1) IN
    IF n = Nothing THEN Error ELSE IF size % n # 0 THEN Error ELSE Scalar("FixedBytes", size, n, opt)

ndt_sizeof_encoding(encoding) ==
    CASE encoding \in {"ascii", "utf8"} -> 1 [] encoding \in {"ucs2", "utf16"} -> 2 [] encoding = "utf32" -> 4

ndt_fixed_string(length, encoding, opt) ==
    LET n == ndt_sizeof_encoding(encoding) IN
    IF ~InRange(n * length) THEN Error
    ELSE Scalar("FixedString", n * length, n, opt) @@ [length |-> length, encoding |-> encoding]

ndt_field(name, type, align, pack, pad) ==
    IF IsError(type) \/ min_field_align(type, align, pack) = Nothing THEN Error
    ELSE [tag |-> "Field", name |-> name, type |-> type, align |-> min_field_align(type, align, pack),
          explicit_align |-> align # Nothing \/ pack # Nothing, pad |-> pad]

Types(fields) == [i \in DOMAIN fields |-> fields[i].type]
Names(fields) == [i \in DOMAIN fields |-> fields[i].name]

\* The offset, alignment and padding of every member.
init_concrete_fields(fields, align_attr, pack) ==
    LET n == Len(fields)
        align == [i \in 1..n |-> IF pack # Nothing THEN pack ELSE fields[i].align]
        maxalign == FoldLeft(Larger, get_align(align_attr, 1), align)
        end[i \in 0..n] == IF i = 0 THEN 0 ELSE round_up(end[i - 1], align[i]) + fields[i].type.size
        offset == [i \in 1..n |-> round_up(end[i - 1], align[i])]
        size == round_up(end[n], maxalign)
        pad == [i \in 1..n |-> (IF i < n THEN offset[i + 1] ELSE size) - end[i]]
    IN IF get_align(align_attr, 1) = Nothing \/ get_align(pack, 1) = Nothing THEN Error
       ELSE IF pack # Nothing /\ \E i \in 1..n : fields[i].explicit_align THEN Error
       ELSE IF \E i \in 1..n : fields[i].pad \notin {Nothing, pad[i]} THEN Error
       ELSE IF ~InRange(size + maxalign - 1) THEN Error
       ELSE [tag |-> "Fields", size |-> size, align |-> maxalign, aligns |-> align, offset |-> offset, pad |-> pad]

\* A new node with its members and their layout.
Fielded(node, fields, align, pack) ==
    LET concrete == ~node.variadic /\ \A i \in DOMAIN fields : fields[i].type.concrete
        l == init_concrete_fields(fields, align, pack)
        t == ndt_subtree_flags(Types(fields)) @@ [node EXCEPT !.types = Types(fields), !.concrete = concrete]
    IN IF \E i \in DOMAIN fields : IsError(fields[i]) THEN Error
       ELSE IF \E i \in DOMAIN fields : ~check_type_invariants(fields[i].type) THEN Error
       ELSE IF ~concrete
            THEN IF \E i \in DOMAIN fields : fields[i].type.concrete /\ fields[i].explicit_align THEN Error ELSE t
       ELSE IF IsError(l) THEN Error
       ELSE [t EXCEPT !.size = l.size, !.align = l.align, !.offset = l.offset, !.aligns = l.aligns, !.pad = l.pad]

ndt_tuple(variadic, fields, align, pack, opt) ==
    Fielded(ndt_tuple_new(variadic, Len(fields), opt), fields, align, pack)
ndt_record(variadic, fields, align, pack, opt) ==
    LET t == Fielded(ndt_record_new(variadic, Len(fields), opt), fields, align, pack) IN
    IF IsError(t) THEN Error ELSE [t EXCEPT !.names = Names(fields)]

\* A union has its tag in the first byte and its members, unaligned, behind.
init_concrete_tags(fields) ==
    IF \E i \in DOMAIN fields : fields[i].type.ref THEN Error
    ELSE [tag |-> "Fields", align |-> 1,
          size |-> 1 + FoldLeft(LAMBDA m, f : Larger(f.type.size, m), 0, fields)]

ndt_union(fields, opt) ==
    LET concrete == \A i \in DOMAIN fields : fields[i].type.concrete
        t == [tag |-> "Union", opt |-> opt, ndim |-> 0, types |-> Types(fields), names |-> Names(fields),
              concrete |-> concrete]
             @@ ndt_subtree_flags(Types(fields))
    IN IF fields = <<>> \/ Len(fields) > MaxTags \/ \E i \in DOMAIN fields : IsError(fields[i]) THEN Error
       ELSE IF \E i \in DOMAIN fields : ~check_type_invariants(fields[i].type) THEN Error
       ELSE IF ~concrete
            THEN IF \E i \in DOMAIN fields : fields[i].type.concrete /\ fields[i].explicit_align
                 THEN Error ELSE t @@ [size |-> 0, align |-> UINT16_MAX]
       ELSE IF IsError(init_concrete_tags(fields)) THEN Error ELSE t @@ init_concrete_tags(fields)
=============================================================================
