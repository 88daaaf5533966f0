------------------------------ MODULE MCLayouts ------------------------------
(***************************************************************************)
(* The algorithms on one value that keep no state: layouts of types        *)
(* (TypeLayout), copies and unification (Unify), serialization             *)
(* (Serialize), the bitmaps beside the data (Bitmaps), the bounds of       *)
(* foreign buffers (Bounds), new shapes (Reshape) and the arithmetic and   *)
(* the loops of devices (DeviceMath).  Every behavior is one call of one   *)
(* of them, from a small set of calls.                                     *)
(***************************************************************************)
EXTENDS Bitmaps, Bounds, Reshape, DeviceMath, Unify, Serialize, FiniteSets

CONSTANTS
    MaxItems,           \* bounds the shapes of an array and the items of a loop
    Lefts               \* after how many allocations memory runs out

VARIABLES call, result

vars == <<call, result>>

NotYet == [none |-> TRUE]

-----------------------------------------------------------------------------
(* Types.                                                                  *)

I8(opt) == Scalar("int8", 1, 1, opt)
I16 == Scalar("int16", 2, 2, FALSE)
I32 == Scalar("int32", 4, 4, FALSE)

Plain(type) == ndt_field("f", type, Nothing, Nothing, Nothing)
TupleWith(types) == ndt_tuple(FALSE, [i \in DOMAIN types |-> Plain(types[i])], Nothing, Nothing, FALSE)
RecordWith(types, opt) == ndt_record(FALSE, [i \in DOMAIN types |-> Plain(types[i])], Nothing, Nothing, opt)
UnionWith(types) == ndt_union([i \in DOMAIN types |-> Plain(types[i])], FALSE)
Packed(types) == ndt_tuple(FALSE, [i \in DOMAIN types |-> Plain(types[i])], Nothing, 1, FALSE)

Fixeds(ns, type) == FoldRight(LAMBDA n, t : ndt_fixed_dim(t, n, DefaultStep), ns, type)
Var(type, offsets) == ndt_var_dim(type, offsets, <<>>, FALSE)

Constructed(types) == {t \in types : ~IsError(t)}

-----------------------------------------------------------------------------
(* Calls.                                                                  *)

\* Attributes of fields: none, sensible ones, and some that are refused.
Attributes == {<<Nothing, Nothing, Nothing>>, <<4, Nothing, Nothing>>, <<3, Nothing, Nothing>>,
               <<Nothing, 1, Nothing>>, <<Nothing, 3, Nothing>>, <<2, 1, Nothing>>,
               <<Nothing, Nothing, 0>>, <<Nothing, Nothing, 3>>}
FewAttributes == {<<Nothing, Nothing, Nothing>>, <<8, Nothing, Nothing>>, <<Nothing, 1, Nothing>>}

FieldTypes ==
    {I8(FALSE), I32, Fixeds(<<3>>, I16), Fixeds(<<0>>, I32), TupleWith(<<I32, I8(FALSE)>>), TupleWith(<<>>),
     Packed(<<I8(FALSE), I32>>), UnionWith(<<I8(FALSE), I32>>), ndt_ref(I8(TRUE), TRUE), ndt_scalar_kind(FALSE)}
FewFieldTypes == {I8(FALSE), I16, Fixeds(<<3>>, I16), TupleWith(<<I32, I8(FALSE)>>)}

FieldsOf(n, types, attributes) == [1..n -> types \X attributes]

ChooseConstruct ==
    \E tag \in {"Tuple", "Record", "Union"}, align \in {Nothing, 4, 5}, pack \in {Nothing, 1, 4} :
        \E fields \in UNION {FieldsOf(n, FieldTypes, Attributes) : n \in 0..1}
                      \cup FieldsOf(2, FieldTypes, FewAttributes) \cup FieldsOf(2, FewFieldTypes, Attributes)
                      \cup FieldsOf(3, FewFieldTypes, FewAttributes) :
            /\ tag = "Union" => align = Nothing /\ pack = Nothing
            /\ call = [op |-> "construct", tag |-> tag, fields |-> fields, align |-> align, pack |-> pack]

\* Dimensions as pairs of a shape and a step.
SomeSteps == {DefaultStep, -2, -1, 0, 1, 3}
ChooseDims ==
    \E dtype \in {I8(FALSE), I16, TupleWith(<<I16, I8(FALSE)>>), TupleWith(<<>>), Var(I8(FALSE), <<0, 2>>)} :
        \E dims \in UNION {[1..n -> (0..3) \X SomeSteps] : n \in 1..2} :
            call = [op |-> "dims", dims |-> dims, dtype |-> dtype]

OptionalMembers ==
    {I8(FALSE), I8(TRUE), Fixeds(<<2>>, I8(TRUE)), Fixeds(<<0>>, I8(TRUE)), Var(I8(TRUE), <<0, 2>>),
     ndt_ref(I8(TRUE), FALSE), ndt_array(I8(TRUE), FALSE), ndt_constr("c", I8(TRUE), TRUE)}

OptionalDtypes ==
    Constructed({I8(TRUE), TupleWith(<<>>)}
                \cup {TupleWith(<<x, y>>) : x, y \in OptionalMembers}
                \cup {RecordWith(<<x, y>>, TRUE) : x, y \in {I8(FALSE), I8(TRUE), Fixeds(<<2>>, I8(TRUE))}}
                \cup {UnionWith(<<I8(TRUE), y>>) : y \in OptionalMembers}
                \cup {ndt_constr("c", TupleWith(<<I8(TRUE)>>), TRUE), ndt_nominal("n", TRUE, I8(TRUE), FALSE)})

OptionalTypes ==
    Constructed(OptionalDtypes
                \cup {Fixeds(ns, t) : ns \in {<<2>>, <<2, 3>>, <<0, 2>>}, t \in OptionalDtypes}
                \cup {Var(t, <<0, 2>>) : t \in OptionalDtypes}
                \cup {Var(Var(t, <<0, 1, 3>>), <<0, 2>>) : t \in OptionalDtypes}
                \cup {ndt_var_dim(I8(TRUE), <<0, 2>>, <<>>, TRUE), Fixeds(<<9>>, I8(TRUE)),
                      ndt_fixed_dim(ndt_fixed_dim(I8(TRUE), 3, 2), 2, 1)})

ChooseBitmap ==
    \E t \in OptionalTypes, left \in Lefts : call = [op |-> "bitmap", type |-> t, left |-> left]

\* Types to copy, to unify and to serialize.
F32(opt) == ndt_primitive("float32", opt)
RecordOf(names, types) ==
    ndt_record(FALSE, [i \in DOMAIN types |-> ndt_field(names[i], types[i], Nothing, Nothing, Nothing)],
               Nothing, Nothing, FALSE)
Strided(n, step, type) == ndt_fixed_dim(type, n, step)
AnyType == ndt_any_kind(FALSE)

SomeDtypes ==
    {ndt_primitive(name, FALSE) : name \in {"bool", "int8", "int32", "uint16"} \cup NamesOf(FloatTags) \cup NamesOf(ComplexTags)}
    \cup {I8(TRUE), F32(TRUE), AnyType, ndt_any_kind(TRUE), ndt_scalar_kind(FALSE), ndt_typevar("T")}
    \cup {ndt_fixed_string(n, e, FALSE) : n \in {1, 2}, e \in {"ascii", "utf8", "ucs2", "utf16", "utf32"}}
    \cup {ndt_fixed_bytes(n, a, FALSE) : n \in {2, 3, 4}, a \in {1, 2}}

Composed ==
    UNION {{TupleWith(<<x, y>>) : x, y \in {I8(FALSE), I32, F32(TRUE), AnyType}},
           {RecordOf(names, <<I8(TRUE), x>>) : names \in {<<"a", "b">>, <<"b", "a">>}, x \in {I8(FALSE), I32, AnyType}},
           {UnionWith(<<x>>) : x \in {I8(FALSE), I32}},
           {ndt_ref(x, opt) : x \in {I8(FALSE), I32}, opt \in BOOLEAN}, {ndt_array(x, FALSE) : x \in {I8(FALSE), I32}},
           {ndt_constr(name, x, FALSE) : name \in {"c", "d"}, x \in {I8(FALSE), I32}},
           {ndt_nominal(name, TRUE, I8(FALSE), FALSE) : name \in {"n", "m"}},
           {TupleWith(<<>>), Packed(<<I8(FALSE), I32>>), TupleWith(<<I8(FALSE)>>), UnionWith(<<I8(FALSE), I8(TRUE)>>),
            TupleWith(<<UnionWith(<<I8(FALSE)>>), TupleWith(<<AnyType>>)>>), ndt_ref(TupleWith(<<I32, AnyType>>), FALSE)}}

Dimensioned ==
    UNION {{Strided(n, s, x) : n \in {2, 3}, s \in {DefaultStep, -2}, x \in {I8(FALSE), I32, AnyType}},
           {Fixeds(<<2, 3>>, x) : x \in {I8(FALSE), TupleWith(<<I8(FALSE), I32>>)}},
           {Var(x, o) : x \in {I8(FALSE), I32}, o \in {<<0, 2>>, <<0, 1, 2>>}},
           {Var(Var(I8(TRUE), <<0, 1, 3>>), <<0, 2>>), ndt_symbolic_dim("N", I8(FALSE)),
            ndt_var_dim(I8(FALSE), <<0, 2>>, <<[start |-> 0, stop |-> 1, step |-> 1]>>, TRUE)}}

Functions ==
    {ndt_function(<<>>, 0), ndt_function(<<ndt_typevar("T"), I8(FALSE)>>, 1),
     ndt_function(<<Strided(2, DefaultStep, I8(FALSE)), I32>>, 1),
     ndt_function(<<RecordOf(<<"a">>, <<AnyType>>), ndt_ref(I32, TRUE), ndt_constr("c", AnyType, FALSE)>>, 2)}

ManyTypes == Constructed(SomeDtypes \cup Composed \cup Dimensioned)

\* What uninitialised memory reads as matters for functions only.
Fills(t) == IF t.tag = "Function" THEN BOOLEAN ELSE {FALSE}
Memory == [live |-> 0, left |-> call.left, fill |-> call.fill]

ChooseCopy ==
    \E t \in ManyTypes \cup Functions, left \in Lefts : \E fill \in Fills(t) :
        call = [op |-> "copy", type |-> t, left |-> left, fill |-> fill]
ChooseUnify == \E t, u \in ManyTypes, any \in BOOLEAN : call = [op |-> "unify", t |-> t, u |-> u, any |-> any]

\* end: how many cells of the buffer there are.
ChooseSerialize ==
    \E t \in ManyTypes \cup Functions, known \in BOOLEAN, left \in Lefts :
        \E end \in 0..Len(ndt_serialize(t)), fill \in Fills(t) :
            call = [op |-> "serialize", type |-> t, known |-> known, left |-> left, fill |-> fill, end |-> end]

BoundedTypes ==
    LET fixed == UNION {{ndt_fixed_dim(t, n, s) : n \in 0..3, s \in {-1, 1, 2}} : t \in {I8(FALSE), I16}}
        twice == {ndt_fixed_dim(t, n, s) : t \in fixed, n \in 1..2, s \in {-3, 1, 4}}
        lists == {Var(I16, o) : o \in {<<0, 2>>, <<1, 2>>, <<0, 1, 3>>, <<0, 2, 2>>}}
        slice == [start |-> -1, stop |-> -9, step |-> -2]
    IN Constructed({I8(FALSE), I8(TRUE), TupleWith(<<I16, I8(FALSE)>>), UnionWith(<<I16>>), ndt_scalar_kind(FALSE)}
                   \cup fixed \cup twice \cup lists
                   \cup {Var(t, <<0, 2>>) : t \in lists} \cup {ndt_var_dim(I16, <<0, 3>>, <<slice>>, FALSE)}
                   \cup {TupleWith(<<I8(FALSE), t, y>>) : t \in fixed, y \in {I16, TupleWith(<<>>)}}
                   \cup {ndt_fixed_dim(ndt_constr("c", TupleWith(<<I8(FALSE), t>>), FALSE), 2, s) : t \in fixed, s \in {-1, 2}})

ChooseBounds ==
    \E t \in BoundedTypes, index \in {-2, 0, 1, 3, MaxSize}, bufsize \in {0, 3, 4, 8, 20} :
        call = [op |-> "bounds", type |-> t, index |-> index, bufsize |-> bufsize]

\* Arrays with steps of all kinds, and new shapes.
Ranked(n, shapes, steps) == {[i \in 1..n |-> Fixed(x[i], y[i])] : x \in [1..n -> shapes], y \in [1..n -> steps]}
SourceDims ==
    {<<>>} \cup Ranked(1, {0, 1, 2, 4, 6}, {-1, 1, 2}) \cup Ranked(2, {0, 1, 2, 3, 4}, {-1, 0, 1, 2, 3, 4})
    \cup Ranked(3, {1, 2}, {1, 2, 4})
NewShapes == UNION {[1..n -> {0, 1, 2, 3, 4}] : n \in 0..3} \cup {<<6>>, <<8>>, <<9>>, <<16>>, <<12>>}

ChooseReshape ==
    \E dims \in SourceDims, shape \in NewShapes, order \in {"C", "F", "A"} :
        /\ Product(shape) = Product(Shape(dims)) \/ shape = <<2, 3>>
        /\ call = [op |-> "reshape", dims |-> dims, shape |-> shape, order |-> order]

\* Arithmetic.
Signeds == MIN..MAX
Floats == (-3..3) \cup {NaN, Inf, MinusInf}
Complexes == [re : {-1, 0, 1, NaN}, im : {-1, 0, 1, NaN}]

ChooseArithmetic ==
    \/ \E a, b \in 0..UMAX, f \in {"divmod_unsigned", "pow_unsigned"} : call = [op |-> f, a |-> a, b |-> b]
    \/ \E a, b \in Signeds, f \in {"divmod_signed", "pow_signed"} : call = [op |-> f, a |-> a, b |-> b]
    \/ \E a \in Signeds : call = [op |-> "abs", a |-> a]
    \/ \E a, b \in Floats : call = [op |-> "divmod_float", a |-> a, b |-> b]
    \/ \E a, b \in Complexes : call = [op |-> "lexorder", a |-> a, b |-> b]
    \/ \E a \in [re : -2..2, im : -2..2], n \in 0..5 : call = [op |-> "powu", a |-> a, b |-> n]

ChooseLoop ==
    \E N \in 0..MaxItems :
        \/ call = [op |-> "loop", device |-> "cpu", N |-> N, step |-> 1]
        \/ \E step \in {-2, 0, 3} : call = [op |-> "loop", device |-> "cpu strided", N |-> N, step |-> step]
        \/ call = [op |-> "loop", device |-> "cuda", N |-> N, step |-> 1]

Init ==
    /\ ChooseConstruct \/ ChooseDims \/ ChooseCopy \/ ChooseUnify \/ ChooseSerialize
       \/ ChooseBitmap \/ ChooseBounds \/ ChooseReshape \/ ChooseArithmetic \/ ChooseLoop
    /\ result = NotYet

-----------------------------------------------------------------------------
(* The steps: one for each kind of call.                                   *)

Is(ops) == call.op \in ops /\ result = NotYet

Fields(fields) ==
    [i \in DOMAIN fields |->
        ndt_field("f", fields[i][1], fields[i][2][1], fields[i][2][2], fields[i][2][3])]

Construct ==
    /\ Is({"construct"})
    /\ result' = CASE call.tag = "Tuple" -> ndt_tuple(FALSE, Fields(call.fields), call.align, call.pack, FALSE)
                   [] call.tag = "Record" -> ndt_record(FALSE, Fields(call.fields), call.align, call.pack, TRUE)
                   [] call.tag = "Union" -> ndt_union(Fields(call.fields), FALSE)
    /\ UNCHANGED call

AddDimension(d, t) == IF IsError(t) THEN t ELSE ndt_fixed_dim(t, d[1], d[2])

ConstructDims ==
    /\ Is({"dims"})
    /\ result' = FoldRight(AddDimension, call.dims, call.dtype)
    /\ UNCHANGED call

Copy ==
    /\ Is({"copy"})
    /\ result' = ndt_copy(call.type, Memory)
    /\ UNCHANGED call

UnifyTypes ==
    /\ Is({"unify"})
    /\ result' = IF call.any THEN ndt_unify_replace_any(call.t, call.u) ELSE ndt_unify(call.t, call.u)
    /\ UNCHANGED call

SerializeAndRead ==
    /\ Is({"serialize"})
    /\ result' = ndt_deserialize(SubSeq(ndt_serialize(call.type), 1, call.end), Memory, call.known)
    /\ UNCHANGED call

InitBitmap ==
    /\ Is({"bitmap"})
    /\ result' = xnd_bitmap_init(call.type, [live |-> 0, left |-> call.left])
    /\ UNCHANGED call

CheckBounds ==
    /\ Is({"bounds"})
    /\ result' = [ok |-> xnd_bounds_check(call.type, call.index, call.bufsize)]
    /\ UNCHANGED call

ReshapeArray ==
    /\ Is({"reshape"})
    /\ result' = xnd_reshape(call.dims, call.shape, call.order)
    /\ UNCHANGED call

Arithmetic ==
    /\ Is({"divmod_unsigned", "divmod_signed", "divmod_float", "pow_unsigned", "pow_signed", "powu", "abs",
           "lexorder"})
    /\ LET a == call.a
            b == call.b IN
       result' = CASE call.op = "divmod_unsigned" -> divmod_unsigned(a, b)
                   [] call.op = "divmod_signed" -> divmod_signed(a, b)
                   [] call.op = "divmod_float" -> divmod_float(a, b)
                   [] call.op = "pow_unsigned" -> [p |-> pow_unsigned(a, b, UMAX)]
                   [] call.op = "pow_signed" -> [p |-> pow_signed(a, b)]
                   [] call.op = "powu" -> [p |-> c_powu(a, b)]
                   [] call.op = "abs" -> [p |-> abs_signed(a)]
                   [] call.op = "lexorder" ->
                        [lt |-> lexorder_lt(a, b), le |-> lexorder_le(a, b), eqn |-> lexorder_eqn(a, b),
                         ge |-> lexorder_ge(a, b), gt |-> lexorder_gt(a, b)]
    /\ UNCHANGED call

RunLoop ==
    /\ Is({"loop"})
    /\ result' = CASE call.device = "cpu" -> [places |-> CPU_DEVICE_BINARY_C(call.N)]
                   [] call.device = "cpu strided" -> [places |-> CPU_DEVICE_BINARY_S(call.N, call.step)]
                   [] call.device = "cuda" ->
                        [visits |-> [th \in Threads(call.N) |-> CUDA_DEVICE_BINARY_Visits(call.N, th)]]
    /\ UNCHANGED call

Next ==
    Construct \/ ConstructDims \/ Copy \/ UnifyTypes \/ SerializeAndRead \/ InitBitmap \/ CheckBounds \/ ReshapeArray \/ Arithmetic \/ RunLoop

Spec == Init /\ [][Next]_vars

-----------------------------------------------------------------------------
(* Layouts.                                                                *)

Given(op) == call.op = op /\ result # NotYet
Apart(x, y) == x.block # y.block \/ x.ptr + x.type.size <= y.ptr \/ y.ptr + y.type.size <= x.ptr
Inside(x, t) == x.block = <<>> => 0 <= x.ptr /\ x.ptr + x.type.size <= t.size

\* Nothing is packed, in the call or in a member.
NaturallyAligned ==
    /\ call.pack = Nothing
    /\ \A i \in DOMAIN call.fields :
          call.fields[i][2][2] = Nothing /\ call.fields[i][1].tag # "Union"
          /\ call.fields[i][1] # Packed(<<I8(FALSE), I32>>)

FieldsFit ==
    Given("construct") /\ ~IsError(result) /\ result.concrete =>
        LET t == result
            leaves == {x \in Leaves(Root(t)) : x.type.size > 0} IN
        /\ \A x \in leaves : Inside(x, t)
        /\ IF t.tag = "Union" THEN \A x \in leaves : x.ptr >= 1
           ELSE LET n == Len(t.types)
                    End(i) == t.offset[i] + t.types[i].size + t.pad[i] IN
                /\ n > 0 => t.offset[1] = 0
                /\ \A i \in 1..n :
                      /\ t.offset[i] % t.aligns[i] = 0
                      /\ End(i) = IF i < n THEN t.offset[i + 1] ELSE t.size
                      /\ t.pad[i] \in 0..((IF i < n THEN t.aligns[i + 1] ELSE t.align) - 1)
                /\ t.size % t.align = 0
                /\ NaturallyAligned => \A x \in leaves : x.ptr % x.type.align = 0 /\ t.align % x.type.align = 0
                /\ ~(\E i \in 1..n : t.types[i].tag = "Union") =>
                      \A x, y \in leaves : x = y \/ Apart(x, y)

Lowest(leaves) == CHOOSE x \in leaves : \A y \in leaves : x.ptr <= y.ptr
Highest(leaves) == CHOOSE x \in leaves : \A y \in leaves : x.ptr + x.type.size >= y.ptr + y.type.size

DimsFit ==
    Given("dims") /\ ~IsError(result) /\ call.dtype.tag # "Tuple" =>
        LET leaves == Leaves(Root(result)) IN
        /\ leaves = {} <=> result.size = 0
        /\ leaves # {} => result.size = Highest(leaves).ptr + Highest(leaves).type.size - Lowest(leaves).ptr
        /\ (\A i \in DOMAIN call.dims : call.dims[i][2] = DefaultStep) =>
              \A x, y \in leaves : x.index = y.index \/ Apart(x, y)

(* A tuple or record lays its members out in order, each at a multiple of  *)
(* the alignment that its attributes give it and as early as that allows,  *)
(* and the paddings account for every byte between them and at the end;    *)
(* no two values share a byte, in a union none shares one with the tag,    *)
(* and all lie within the data size.  Unless something is packed every     *)
(* value, however deep, is aligned, in the items of an array too: the data *)
(* size is a multiple of the alignment (init_concrete_fields).  The data   *)
(* size of fixed dimensions, with steps of any sign, is the room from the  *)
(* first byte that an item has to the last; with the steps that the        *)
(* library chooses no two items overlap (fixed_step, fixed_datasize).      *)
LayoutsFit == FieldsFit /\ DimsFit

-----------------------------------------------------------------------------
(* Copies, unification and serialization.                                  *)

\* Kinds of scalars by what they can tell apart: the bits of the exponent and
\* of the rest.
Precision ==
    [bool |-> <<0, 1>>, int8 |-> <<0, 8>>, int16 |-> <<0, 16>>, int32 |-> <<0, 32>>, uint8 |-> <<0, 8>>,
     uint16 |-> <<0, 16>>, bfloat16 |-> <<8, 8>>, float16 |-> <<5, 11>>, float32 |-> <<8, 24>>,
     float64 |-> <<11, 53>>, bcomplex32 |-> <<8, 8>>, complex32 |-> <<5, 11>>, complex64 |-> <<8, 24>>]
AtLeast(x, y) == Precision[x][1] >= Precision[y][1] /\ Precision[x][2] >= Precision[y][2]
Encodes(e, f) == EncodingRank(e) >= EncodingRank(f) /\ ~(e = "ucs2" /\ f = "utf8")

\* Every value of t is a value of w, wherever it is stored.
RECURSIVE Holds(_, _)
SameForm(w, t) ==
    /\ w.tag = t.tag /\ w.tag \in SingleTags \cup SeveralTags /\ Len(Parts(w)) = Len(Parts(t))
    /\ CASE w.tag = "FixedDim" -> w.shape = t.shape
         [] w.tag = "VarDim" -> w.offsets = t.offsets /\ w.slices = t.slices
         [] w.tag \in {"Record", "Union"} -> w.names = t.names
         [] w.tag \in {"Constr", "Nominal"} -> w.name = t.name
         [] OTHER -> TRUE
Holds(w, t) ==
    /\ t.opt => w.opt
    /\ \/ IsAny(t)
       \/ w.tag \in {"ScalarKind", "Typevar"} /\ w.tag = t.tag
       \/ SameForm(w, t) /\ \A i \in DOMAIN Parts(w) : Holds(Parts(w)[i], Parts(t)[i])
       \/ w.tag = "FixedString" /\ t.tag = w.tag /\ w.length >= t.length /\ Encodes(w.encoding, t.encoding)
       \/ w.tag = "FixedBytes" /\ t.tag = w.tag /\ w.size >= t.size /\ w.align >= t.align
       \/ IsPrimitive(w.tag) /\ IsPrimitive(t.tag) /\ KindOf(w.tag) = KindOf(t.tag) /\ AtLeast(w.tag, t.tag)

\* The formats of 16 bits have no order, and neither do UTF-8 and UCS-2.
NoOrder == {{"bfloat16", "float16"}, {"bcomplex32", "complex32"}}
Unordered(t, u) ==
    \/ {t.tag, u.tag} \in NoOrder
    \/ t.tag = "FixedString" /\ u.tag = "FixedString" /\ {t.encoding, u.encoding} = {"utf8", "ucs2"}

RECURSIVE Within(_)
Within(t) == {t} \cup (IF t.tag \in SingleTags \cup SeveralTags THEN UNION {Within(u) : u \in Range(Parts(t))} ELSE {})

\* Refused although other types hold both: references, whose flag Any has not,
\* flexible arrays of different items, bytes of the larger size and alignment if
\* they are no type, slices, and what is abstract.
Tags(t) == {v.tag : v \in Within(t)}
Strict(t, u) ==
    \/ t.ref # u.ref \/ "Array" \in Tags(t)
    \/ t.tag = "FixedBytes" /\ u.tag = "FixedBytes" /\ Larger(t.size, u.size) % Larger(t.align, u.align) # 0
    \/ \E v \in Within(t) : v.tag = "VarDim" /\ v.slices # <<>>
    \/ {"ScalarKind", "Typevar", "SymbolicDim"} \cap (Tags(t) \cup Tags(u)) # {}

(* Unification gives a type that holds the values of both, and the least   *)
(* such type: it fails only if there is none, and whatever holds both      *)
(* holds the result; so neither the order of the two types nor how often   *)
(* they are unified matters (unify.c).                                     *)
UnifiedHoldsBoth ==
    Given("unify") /\ result # Crash =>
        LET t == call.t
            u == call.u IN
        /\ ~IsError(result) /\ ~Unordered(t, u) => Holds(result, t) /\ Holds(result, u)
        /\ ~call.any /\ ~Unordered(t, u) /\ ~Strict(t, u) =>
              \A v \in ManyTypes : Holds(v, t) /\ Holds(v, u) => ~IsError(result) /\ Holds(v, result)

\* A type with every elemwise left out, as ndt_equal sees it.
RECURSIVE WithoutElemwise(_)
WithoutElemwise(t) ==
    LET u == IF t.tag = "Function" THEN Only(t, DOMAIN t \ {"elemwise"}) ELSE t IN
    CASE t.tag \in SingleTags -> [u EXCEPT !.type = WithoutElemwise(@)]
      [] t.tag \in SeveralTags -> [u EXCEPT !.types = [i \in DOMAIN @ |-> WithoutElemwise(@[i])]]
      [] OTHER -> u
SameType(t, u) == WithoutElemwise(t) = WithoutElemwise(u)

\* A copy shares the offsets.
CopyBlocks(t) == IF t.tag = "VarDim" THEN OwnBlocks(t) - 2 ELSE OwnBlocks(t)

CopiedEqual ==
    Given("copy") /\ result.type # Crash =>
        IF IsError(result.type) THEN call.left < CopyBlocks(call.type) /\ result.mem.live = 0
        ELSE SameType(result.type, call.type) /\ result.mem.live = CopyBlocks(call.type)

ReadEqual ==
    Given("serialize") =>
        LET t == call.type
            whole == call.end = Len(ndt_serialize(t)) IN
        IF IsError(result.type)
        THEN /\ \/ ~whole
                \/ call.left < TypeBlocks(t) + Cardinality({v \in Within(t) : v.tag = "VarDim"})
                \/ "Nominal" \in Tags(t) /\ ~call.known
             /\ result.mem.live = 0 \/ (t.tag = "Function" /\ ~whole)
        ELSE whole /\ SameType(result.type, t) /\ result.mem.live = TypeBlocks(t)

(* A copy is equal to the type, with the steps, offsets and paddings it    *)
(* has, and so is what is read back from the bytes of the type; what is    *)
(* cut off, names an unknown typedef or needs more memory than there is    *)
(* gives an error, and no memory is left over, of the names that a record  *)
(* has got so far neither.  Excepted are the copies of unions, which the   *)
(* program does not survive; the elemwise of functions, which              *)
(* ndt_copy_function and read_function leave as the memory was; and the    *)
(* node that read_function drops when the positions of arguments end       *)
(* early.                                                                  *)
CopiesAreEqual ==
    /\ CopiedEqual
    /\ ReadEqual
    /\ Given("copy") /\ result.type = Crash => call.type.tag = "Union"

-----------------------------------------------------------------------------
(* Bitmaps.                                                                *)

Optional(t) == {x \in Places(Root(t)) : x.type.opt}

(* Every optional value of a container, at any depth, has a bit of its own *)
(* in the bitmap that is built for its type, and the way to it exists; so  *)
(* xnd_bitmap_next never answers "missing bitmap" or "invalid index".  If  *)
(* memory runs out, or a type is refused, nothing that was allocated is    *)
(* left over.                                                              *)
EachValueHasItsBit ==
    Given("bitmap") =>
        LET values == Optional(call.type) IN
        IF result.ok
        THEN /\ result.mem.live = Blocks(result.b)
             /\ \A x \in values : HasBit(result.b, x)
             /\ \A x, y \in values : BitOf(x) = BitOf(y) => x.block = y.block /\ x.ptr = y.ptr
        ELSE result.mem.live = 0 /\ Blocks(result.b) = 0

-----------------------------------------------------------------------------
(* Bounds.                                                                 *)

InBuffer(x) == 0 <= x.ptr /\ x.ptr + x.type.size <= call.bufsize
NoSuchList(t, index) == t.tag = "VarDim" /\ index \notin 0..(Len(t.offsets) - 2)
ValuesFrom(t, index) ==
    IF NoSuchList(t, index) THEN {} ELSE {x \in Leaves(Start(t, index)) : x.type.size > 0}

\* Corners say nothing of what lies between them where a first or last list is
\* empty, where a first or last member has no bytes, and where a member in the
\* middle of a tuple has negative steps.
Backward(t) == \E u \in Within(t) : u.tag = "FixedDim" /\ u.step < 0
EmptyList(t) == \E i \in 1..(Len(t.offsets) - 1) : t.offsets[i] = t.offsets[i + 1]
HidesValues(t) ==
    \/ t.tag = "VarDim" /\ t.type.tag = "VarDim" /\ EmptyList(t.type)
    \/ /\ t.tag = "Tuple" /\ Len(t.types) > 2
       /\ t.types[1].size = 0 \/ Last(t.types).size = 0 \/ \E u \in Range(t.types) : Backward(u)

(* A type and an index that the check accepts keep every value within the  *)
(* buffer, although it looks at the corners only and does its arithmetic   *)
(* with wrap-around; and it accepts them whenever every value is inside    *)
(* and no sum overflows.                                                   *)
BoundsCoverAllValues ==
    Given("bounds") =>
        LET values == ValuesFrom(call.type, call.index)
            supported == ~\E u \in Within(call.type) : Unsupported(u) IN
        /\ result.ok /\ ~(\E u \in Within(call.type) : HidesValues(u)) => \A x \in values : InBuffer(x)
        /\ ~result.ok /\ supported /\ call.index # MaxSize =>
              \/ \E x \in values : ~InBuffer(x)
              \/ NoSuchList(call.type, call.index)

-----------------------------------------------------------------------------
(* New shapes.                                                             *)

\* The indices in the order in which the last, or the first, runs fastest.
NthIndex(n, shape, fortran) ==
    [k \in DOMAIN shape |->
        (n \div Product(IF fortran THEN SubSeq(shape, 1, k - 1) ELSE SubSeq(shape, k + 1, Len(shape)))) % shape[k]]
ReadIn(fortran, dims) ==
    [n \in 1..Product(Shape(dims)) |-> Address(dims, NthIndex(n - 1, Shape(dims), fortran))]

AsFortran == call.order = "F" \/ (call.order = "A" /\ IsFContiguous(call.dims))

\* The only steps that could put the items in order: those that the items next
\* to the first one in each dimension ask for.
UnitIndex(k) == [j \in DOMAIN call.shape |-> IF j = k THEN 1 ELSE 0]
PlaceOf(ix) ==
    FoldLeft(LAMBDA a, k : a * call.shape[k] + ix[k], 0,
             IF AsFortran THEN Reverse([k \in DOMAIN call.shape |-> k]) ELSE [k \in DOMAIN call.shape |-> k])
Candidate(items) ==
    [k \in DOMAIN call.shape |->
        Fixed(call.shape[k], IF call.shape[k] > 1 THEN items[PlaceOf(UnitIndex(k)) + 1] - items[1] ELSE 0)]

(* The reshaped view has the same items in the same order, read in C or in *)
(* Fortran order as asked, for arrays with steps of any kind; in place     *)
(* reshaping is refused only if the number of items differs or no steps    *)
(* put the items in that order; and nothing is read before the start of    *)
(* the new dimensions (last_stride in xnd_nocopy_reshape).                 *)
ReshapeKeepsItems ==
    Given("reshape") =>
        LET items == ReadIn(AsFortran, call.dims) IN
        CASE result.err = "none" ->
               /\ Shape(result.dims) = call.shape
               /\ Product(call.shape) > 0 => ReadIn(AsFortran, result.dims) = items
          [] result.err = "count" -> Product(call.shape) # Len(items)
          [] result.err = "inplace" -> ReadIn(AsFortran, Candidate(items)) # items
          [] result.err = "too many" -> \E s \in {call.shape, Shape(call.dims)} : prod(s) < 0

-----------------------------------------------------------------------------
(* Devices.                                                                *)

IsFloorDivision(a, b, d) ==
    /\ a = d.q * b + d.r
    /\ d.r # 0 => (d.r < 0 <=> b < 0) /\ Magnitude(d.r) < Magnitude(b)

\* The power modulo the unsigned dtype; and the power, while it is in reach.
PowerModulo(base, exp) == FoldLeft(LAMBDA p, k : (p * base) % (UMAX + 1), 1, [k \in 1..exp |-> k])
Power(base, exp) ==
    FoldLeft(LAMBDA p, k : IF p \in (2 * MIN)..(2 * MAX) THEN p * base ELSE p, 1, [k \in 1..exp |-> k])
PowerOf(z, n) == FoldLeft(LAMBDA p, k : Times(p, z), [re |-> 1, im |-> 0], [k \in 1..n |-> k])

(* Division rounds down and the remainder has the sign of the divisor, for *)
(* every dtype, as in Python; what is undefined in C (a zero divisor, the  *)
(* smallest number by -1) gives zeros, for floats NaN.  Powers are those   *)
(* of the integers modulo the unsigned dtype, and exact for a signed one   *)
(* that holds the power, except that its smallest number becomes zero.     *)
(* Complex numbers are in one lexicographic order, in which NaN has no     *)
(* place but equals itself for eqn.                                        *)
ArithmeticIsExact ==
    result # NotYet =>
        LET a == call.a
            b == call.b IN
        CASE call.op \in {"divmod_unsigned", "divmod_signed"} ->
               IF b = 0 \/ (call.op = "divmod_signed" /\ a = MIN /\ b = -1) THEN result = Division(0, 0)
               ELSE IsFloorDivision(a, b, result)
          [] call.op = "divmod_float" ->
               IF {a, b} \cap {NaN} # {} \/ Infinite(a) \/ b = 0 THEN result = Division(NaN, NaN)
               ELSE IF Infinite(b)
                    THEN result = IF a = 0 \/ Negative(a) = Negative(b) THEN Division(0, a) ELSE Division(-1, b)
               ELSE IsFloorDivision(a, b, result)
          [] call.op = "pow_unsigned" -> result.p = PowerModulo(a, b)
          [] call.op = "pow_signed" ->
               b >= 0 /\ Power(a, b) \in MIN..MAX =>
                   result.p = IF Power(a, b) = MIN THEN 0 ELSE Power(a, b)
          [] call.op = "powu" -> result.p = PowerOf(a, b)
          [] call.op = "abs" -> a # MIN => result.p = Magnitude(a)
          [] call.op = "lexorder" ->
               /\ result.le <=> result.lt \/ (result.eqn /\ ~isnan(a))
               /\ result.ge <=> result.gt \/ (result.eqn /\ ~isnan(a))
               /\ isnan(a) \/ isnan(b) => ~result.lt /\ ~result.gt /\ (result.eqn <=> a = b)
               /\ ~isnan(a) /\ ~isnan(b) =>
                     /\ Cardinality({r \in {"lt", "eqn", "gt"} : result[r]}) = 1
                     /\ \A c \in Complexes : lexorder_lt(b, c) /\ result.le => lexorder_lt(a, c)
          [] OTHER -> TRUE

(* The loops go through every item once: the CPU's, eight items at a time  *)
(* or with steps, in order; and the threads of CUDA's blocks together, as  *)
(* long as the threads can be counted with unsigned int.  Beyond that a    *)
(* loop computes items more than once, or does not end, but leaves none    *)
(* out.                                                                    *)
EachItemOnce ==
    Given("loop") =>
        LET N == call.N IN
        IF call.device # "cuda" THEN result.places = [k \in 1..N |-> (k - 1) * call.step]
        ELSE LET visitors(i) == Cardinality({th \in Threads(N) : i \in result.visits[th]}) IN
             IF N + BlockSize <= 2^UnsignedBits THEN Ends(N) /\ \A i \in 0..(N - 1) : visitors(i) = 1
             ELSE Ends(N) => \A i \in 0..(N - 1) : visitors(i) >= 1
=============================================================================
