------------------------------ MODULE Traversal ------------------------------
(***************************************************************************)
(* Going down a memory block along its type: the functions xnd_*_next of   *)
(* xnd.h and inline.h, with the bitmap that belongs to each place          *)
(* (xnd_bitmap_next of bitmaps.c).                                         *)
(*                                                                         *)
(* A place is [type, index, block, ptr, bitmap]: index is linear and       *)
(* counts items within the innermost sequence of dimensions, block is the  *)
(* path of pointers that leads to the place and ptr its position there in  *)
(* bytes, and bitmap is the path from the bitmap of the container.         *)
(***************************************************************************)
EXTENDS TypeLayout, Slices

Start(t, index) == [type |-> t, index |-> index, block |-> <<>>, ptr |-> 0, bitmap |-> <<>>]
Root(t) == Start(t, 0)

\* The pointer moves when the last dimension has been passed.
Item(x, index) ==
    LET u == x.type.type IN
    [x EXCEPT !.type = u, !.index = index,
              !.ptr = IF u.ndim = 0 THEN @ + index * u.size ELSE @]

xnd_fixed_dim_next(x, i) == Item(x, x.index + i * x.type.step)
xnd_var_dim_next(x, start, step, i) == Item(x, start + i * step)

\* Members of a type and what types of one member refer to have bitmaps of
\* their own; k counts from 0.
BitmapsPerItem(t) == IF t.tag \in {"Tuple", "Record", "Union"} THEN Len(t.types) ELSE 1
xnd_bitmap_next(x, k) ==
    IF x.type.suboption THEN Append(x.bitmap, x.index * BitmapsPerItem(x.type) + k) ELSE x.bitmap

Member(x, k, type, ptr) ==
    [x EXCEPT !.type = type, !.index = 0, !.ptr = ptr, !.bitmap = xnd_bitmap_next(x, k)]

xnd_tuple_next(x, k) == Member(x, k, x.type.types[k + 1], x.ptr + x.type.offset[k + 1])
xnd_record_next(x, k) == Member(x, k, x.type.types[k + 1], x.ptr + x.type.offset[k + 1])
xnd_union_next(x, k) == Member(x, k, x.type.types[k + 1], x.ptr + 1)
xnd_ref_next(x) == [Member(x, 0, x.type.type, 0) EXCEPT !.block = Append(x.block, x.ptr)]
xnd_constr_next(x) == Member(x, 0, x.type.type, x.ptr)
xnd_nominal_next(x) == Member(x, 0, x.type.type, x.ptr)

\* All places at and below a place; the items of a flexible array are in a
\* block that the type knows nothing of.
RECURSIVE Places(_)
Below(x) ==
    LET t == x.type IN
    CASE t.tag = "FixedDim" -> {xnd_fixed_dim_next(x, i) : i \in 0..(t.shape - 1)}
      [] t.tag = "VarDim" ->
            LET v == ndt_var_indices(t, x.index) IN
            {xnd_var_dim_next(x, v.start, v.step, i) : i \in 0..(v.shape - 1)}
      [] t.tag \in {"Tuple", "Record"} -> {xnd_tuple_next(x, k) : k \in 0..(Len(t.types) - 1)}
      [] t.tag = "Union" -> {xnd_union_next(x, k) : k \in 0..(Len(t.types) - 1)}
      [] t.tag = "Ref" -> {xnd_ref_next(x)}
      [] t.tag \in {"Constr", "Nominal"} -> {xnd_constr_next(x)}
      [] OTHER -> {}
Places(x) == {x} \cup UNION {Places(y) : y \in Below(x)}

\* Scalars, and what has the size of a scalar.
Compound == {"FixedDim", "VarDim", "Tuple", "Record", "Union", "Constr", "Nominal"}
Leaves(x) == {y \in Places(x) : y.type.tag \notin Compound}
=============================================================================
