-------------------------------- MODULE Unify --------------------------------
(***************************************************************************)
(* Copies of types (ndt_copy of copy.c), and the unification of two types  *)
(* to one that holds the values of both (unify.c).                         *)
(***************************************************************************)
EXTENDS TypeLayout

\* The primitive types of each kind in the order of their tags, as <<name,
\* size, alignment>>.
SignedTags == <<<<"int8", 1, 1>>, <<"int16", 2, 2>>, <<"int32", 4, 4>>>>
UnsignedTags == <<<<"uint8", 1, 1>>, <<"uint16", 2, 2>>>>
FloatTags == <<<<"bfloat16", 2, 2>>, <<"float16", 2, 2>>, <<"float32", 4, 4>>, <<"float64", 8, 8>>>>
ComplexTags == <<<<"bcomplex32", 4, 2>>, <<"complex32", 4, 2>>, <<"complex64", 8, 4>>>>
Primitives == {<<<<"bool", 1, 1>>>>, SignedTags, UnsignedTags, FloatTags, ComplexTags}

NamesOf(kind) == {kind[i][1] : i \in DOMAIN kind}
IsPrimitive(tag) == \E kind \in Primitives : tag \in NamesOf(kind)
KindOf(tag) == CHOOSE kind \in Primitives : tag \in NamesOf(kind)
Rank(tag) == CHOOSE i \in DOMAIN KindOf(tag) : KindOf(tag)[i][1] = tag
ndt_primitive(tag, opt) == LET p == KindOf(tag)[Rank(tag)] IN Scalar(p[1], p[2], p[3], opt)

Encodings == <<"ascii", "utf8", "ucs2", "utf16", "utf32">>
EncodingRank(e) == CHOOSE i \in DOMAIN Encodings : Encodings[i] = e

-----------------------------------------------------------------------------
(* Copies.                                                                 *)

\* The program writes where it has no memory.
Crash == [tag |-> "crash"]

copy_common(u, t) ==
    [u EXCEPT !.opt = t.opt, !.suboption = t.suboption, !.pointer = t.pointer, !.ref = t.ref,
              !.ndim = t.ndim, !.size = t.size, !.align = t.align, !.concrete = t.concrete]

CopyOf(type, mem) == [type |-> type, mem |-> mem]

\* A constructor's copy, with the name or the slices it is given; it frees them
\* when it fails.
Constructor(u, t, blocks, mem) ==
    IF IsError(u) \/ ~CanAllocate(mem, blocks) THEN CopyOf(Error, mem)
    ELSE CopyOf(copy_common(u, t), Allocated(mem, blocks))

\* Nothing is written to elemwise.
ndt_copy_function(t, mem) ==
    LET u == copy_common(ndt_function_new(Len(t.types), mem.fill), t) IN
    IF ~CanAllocate(mem, 1) THEN CopyOf(Error, mem)
    ELSE CopyOf([nin |-> t.nin, nout |-> t.nout] @@ [u EXCEPT !.types = t.types], Allocated(mem, 1))

\* Faulty variant: the members have no layout.
ndt_copy_tuple_NoLayout(t, mem) ==
    LET u == copy_common(ndt_tuple_new(t.variadic, Len(t.types), t.opt), t) IN
    IF ~CanAllocate(mem, 1) THEN CopyOf(Error, mem)
    ELSE CopyOf([u EXCEPT !.types = t.types], Allocated(mem, 1))

ndt_copy_tuple(t, mem) ==
    LET u == copy_common(ndt_tuple_new(t.variadic, Len(t.types), t.opt), t) IN
    IF ~CanAllocate(mem, 1) THEN CopyOf(Error, mem)
    ELSE CopyOf([u EXCEPT !.types = t.types, !.offset = t.offset, !.aligns = t.aligns, !.pad = t.pad],
                Allocated(mem, 1))

\* Faulty variant: the node is freed without the names it has got.
CopyMember_KeepsNames(t, c, i) ==
    IF IsError(c.type) THEN c
    ELSE IF ~CanAllocate(c.mem, 1) THEN CopyOf(Error, Freed(c.mem, 1))
    ELSE CopyOf([c.type EXCEPT !.names[i] = t.names[i], !.types[i] = t.types[i], !.offset[i] = t.offset[i],
                               !.aligns[i] = t.aligns[i], !.pad[i] = t.pad[i]],
                Allocated(c.mem, 1))

\* One member of a record, with a name of its own: c is the copy so far, a node
\* and i - 1 names.
CopyMember(t, c, i) ==
    IF IsError(c.type) THEN c
    ELSE IF ~CanAllocate(c.mem, 1) THEN CopyOf(Error, Freed(c.mem, i))
    ELSE CopyOf([c.type EXCEPT !.names[i] = t.names[i], !.types[i] = t.types[i], !.offset[i] = t.offset[i],
                               !.aligns[i] = t.aligns[i], !.pad[i] = t.pad[i]],
                Allocated(c.mem, 1))

ndt_copy_record(t, mem) ==
    LET u == copy_common(ndt_record_new(t.variadic, Len(t.types), t.opt), t) IN
    IF ~CanAllocate(mem, 1) THEN CopyOf(Error, mem)
    ELSE FoldLeft(LAMBDA c, i : CopyMember(t, c, i), CopyOf(u, Allocated(mem, 1)), [i \in DOMAIN t.types |-> i])

\* The node gets the number of members for its tag and no room for them.
ndt_copy_union(mem) == IF ~CanAllocate(mem, 1) THEN CopyOf(Error, mem) ELSE CopyOf(Crash, mem)

\* The members, the offsets and the static types are shared.
ndt_copy(t, mem) ==
    CASE t.tag = "FixedDim" -> Constructor(ndt_fixed_dim(t.type, t.shape, t.step), t, 1, mem)
      [] t.tag = "VarDim" ->
            Constructor(ndt_var_dim(t.type, t.offsets, t.slices, t.opt), t, IF t.slices = <<>> THEN 1 ELSE 2, mem)
      [] t.tag = "SymbolicDim" -> Constructor(ndt_symbolic_dim(t.name, t.type), t, 2, mem)
      [] t.tag = "Array" -> Constructor(ndt_array(t.type, t.opt), t, 1, mem)
      [] t.tag = "Tuple" -> ndt_copy_tuple(t, mem)
      [] t.tag = "Record" -> ndt_copy_record(t, mem)
      [] t.tag = "Union" -> ndt_copy_union(mem)
      [] t.tag = "Ref" -> Constructor(ndt_ref(t.type, t.opt), t, 1, mem)
      [] t.tag = "Constr" -> Constructor(ndt_constr(t.name, t.type, t.opt), t, 2, mem)
      [] t.tag = "Nominal" -> Constructor(ndt_nominal(t.name, TRUE, t.type, t.opt), t, 2, mem)
      [] t.tag = "Typevar" -> Constructor(ndt_typevar(t.name), t, 2, mem)
      [] t.tag = "Function" -> ndt_copy_function(t, mem)
      [] t.tag \in {"Any", "ScalarKind", "FixedString", "FixedBytes"} -> Constructor(t, t, 1, mem)
      [] IsPrimitive(t.tag) -> CopyOf(t, mem)

-----------------------------------------------------------------------------
(* Unification; what it does without memory is left out.                   *)

Ample == [live |-> 0, left |-> MaxSize, fill |-> FALSE]
Copied(t) == ndt_copy(t, Ample).type

\* Faulty variant: what is optional in the second type only is lost.
unify_common_OfFirst(w, t, u) ==
    IF w = Crash \/ IsError(w) THEN w
    ELSE IF t.ref # u.ref THEN Error
    ELSE [w EXCEPT !.opt = t.opt, !.suboption = t.suboption, !.pointer = t.pointer]

\* Flags other than those of options and pointers must be equal.
unify_common(w, t, u) ==
    IF w = Crash \/ IsError(w) THEN w
    ELSE IF t.ref # u.ref THEN Error
    ELSE [w EXCEPT !.opt = t.opt \/ u.opt, !.suboption = t.suboption \/ u.suboption,
                   !.pointer = t.pointer \/ u.pointer]

\* What two types with members must have in common.
Alike(t, u) ==
    /\ t.tag = u.tag
    /\ CASE t.tag = "FixedDim" -> t.shape = u.shape
         [] t.tag = "VarDim" -> t.slices = <<>> /\ u.slices = <<>> /\ t.offsets = u.offsets
         [] t.tag = "Array" -> t.itemsize = u.itemsize
         [] t.tag \in {"Tuple", "Record"} ->
               t.variadic = u.variadic /\ Len(t.types) = Len(u.types) /\ (t.tag = "Record" => t.names = u.names)
         [] t.tag = "Union" -> t.names = u.names
         [] t.tag = "Constr" -> t.name = u.name
         [] OTHER -> t.tag = "Ref"

Parts(t) == IF t.tag \in {"Tuple", "Record", "Union", "Function"} THEN t.types ELSE <<t.type>>

\* The type with the unified parts.  Fields get the alignment that is natural
\* for them, dimensions the steps of the first type.
Rebuilt(t, parts, opt) ==
    LET fields == [i \in DOMAIN parts |->
                      ndt_field(IF t.tag = "Tuple" THEN "" ELSE t.names[i], parts[i], Nothing, Nothing, Nothing)] IN
    CASE t.tag = "FixedDim" -> ndt_fixed_dim(parts[1], t.shape, t.step)
      [] t.tag = "VarDim" -> ndt_var_dim(parts[1], t.offsets, <<>>, opt)
      [] t.tag = "Array" -> ndt_array(parts[1], opt)
      [] t.tag = "Tuple" -> ndt_tuple(t.variadic, fields, Nothing, Nothing, opt)
      [] t.tag = "Record" -> ndt_record(t.variadic, fields, Nothing, Nothing, opt)
      [] t.tag = "Union" -> ndt_union(fields, opt)
      [] t.tag = "Ref" -> ndt_ref(parts[1], opt)
      [] t.tag = "Constr" -> ndt_constr(t.name, parts[1], opt)

max_tag(t, u) == IF Rank(t.tag) >= Rank(u.tag) THEN t.tag ELSE u.tag
max_encoding(x, y) == IF EncodingRank(x) >= EncodingRank(y) THEN x ELSE y

unify_primitive(t, u) ==
    IF u.tag \in NamesOf(KindOf(t.tag)) THEN ndt_primitive(max_tag(t, u), t.opt \/ u.opt) ELSE Error

unify_strings(t, u) ==
    CASE u.tag # t.tag -> Error
      [] t.tag = "FixedString" ->
            ndt_fixed_string(Larger(t.length, u.length), max_encoding(t.encoding, u.encoding), t.opt \/ u.opt)
      [] t.tag = "FixedBytes" -> ndt_fixed_bytes(Larger(t.size, u.size), Larger(t.align, u.align), t.opt \/ u.opt)

IsAny(t) == t.tag = "Any"

\* replace: what neither type knows becomes float64.
RECURSIVE unify(_, _, _)
UnifiedParts(t, u, replace) == [i \in DOMAIN Parts(t) |-> unify(Parts(t)[i], Parts(u)[i], replace)]
unify(t, u, replace) ==
    CASE IsAny(t) /\ IsAny(u) /\ replace -> ndt_primitive("float64", t.opt \/ u.opt)
      [] IsAny(u) /\ ~(IsAny(t) /\ replace) -> unify_common(Copied(t), t, u)
      [] IsAny(t) /\ ~IsAny(u) -> unify_common(Copied(u), t, u)
      [] ~IsAny(t) /\ ~IsAny(u) ->
            CASE IsPrimitive(t.tag) -> unify_common(unify_primitive(t, u), t, u)
              [] t.tag \in {"FixedString", "FixedBytes"} -> unify_common(unify_strings(t, u), t, u)
              [] t.tag = "Nominal" -> IF t # u THEN Error ELSE unify_common(Copied(t), t, u)
              [] t.tag \in {"ScalarKind", "Typevar", "SymbolicDim", "Function"} -> Error
              [] OTHER ->
                    IF ~Alike(t, u) THEN Error
                    ELSE LET parts == UnifiedParts(t, u, replace) IN
                         IF Crash \in Range(parts) THEN Crash
                         ELSE IF \E i \in DOMAIN parts : IsError(parts[i]) THEN Error
                         ELSE unify_common(Rebuilt(t, parts, t.opt \/ u.opt), t, u)

ndt_unify(t, u) == unify(t, u, FALSE)
ndt_unify_replace_any(t, u) == unify(t, u, TRUE)
=============================================================================
