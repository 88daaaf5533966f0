-------------------------------- MODULE Bounds -------------------------------
(***************************************************************************)
(* Whether a type and a linear index stay within a buffer that xnd does    *)
(* not own (bounds.c).  The corners are visited: the first and the last    *)
(* item of a dimension, the first and the last member of a tuple.          *)
(*                                                                         *)
(* Arithmetic wraps around; that it has done so is looked at after the     *)
(* corners below have been visited with the wrapped values.                *)
(***************************************************************************)
EXTENDS Traversal

Wrapped(n) == ((n + MaxSize + 1) % (2 * MaxSize + 2)) - MaxSize - 1

\* A place that was reached, and whether computing it has overflown.
Reached(x, exact) == [x |-> x, overflow |-> \E n \in exact : ~InRange(n)]

Corner(x, index, exact) ==
    LET u == x.type.type
        bytes == Wrapped(index) * u.size
        ptr == x.ptr + Wrapped(bytes) IN
    IF u.ndim > 0 THEN Reached([x EXCEPT !.type = u, !.index = Wrapped(index)], exact \cup {index})
    ELSE Reached([x EXCEPT !.type = u, !.index = Wrapped(index), !.ptr = Wrapped(ptr)],
                 exact \cup {index, bytes, ptr})

fixed_dim_next(x, i) == Corner(x, x.index + Wrapped(i * x.type.step), {i * x.type.step})
var_dim_next(x, start, step, i) == Corner(x, start + Wrapped(i * step), {i * step})

tuple_next(x, k) ==
    LET ptr == x.ptr + x.type.offset[k] IN
    Reached([x EXCEPT !.type = x.type.types[k], !.index = 0, !.ptr = Wrapped(ptr)], {ptr})

constr_next(x) == Reached([x EXCEPT !.type = x.type.type, !.index = 0], {})

\* Faulty variant: only the first item and the first member.
Corners_First(x) ==
    LET t == x.type IN
    CASE t.tag = "FixedDim" -> {fixed_dim_next(x, i) : i \in {0} \cap (0..(t.shape - 1))}
      [] t.tag = "VarDim" ->
            LET v == ndt_var_indices(t, x.index) IN
            {var_dim_next(x, v.start, v.step, i) : i \in {0} \cap (0..(v.shape - 1))}
      [] t.tag \in {"Tuple", "Record"} -> {tuple_next(x, k) : k \in {1} \cap DOMAIN t.types}
      [] t.tag \in {"Constr", "Nominal"} -> {constr_next(x)}
      [] OTHER -> {}

Corners(x) ==
    LET t == x.type IN
    CASE t.tag = "FixedDim" -> {fixed_dim_next(x, i) : i \in {0, t.shape - 1} \cap (0..(t.shape - 1))}
      [] t.tag = "VarDim" ->
            LET v == ndt_var_indices(t, x.index) IN
            {var_dim_next(x, v.start, v.step, i) : i \in {0, v.shape - 1} \cap (0..(v.shape - 1))}
      [] t.tag \in {"Tuple", "Record"} -> {tuple_next(x, k) : k \in {1, Len(t.types)} \cap DOMAIN t.types}
      [] t.tag \in {"Constr", "Nominal"} -> {constr_next(x)}
      [] OTHER -> {}

\* Types that refer to other memory, or have optional members, are refused.
Unsupported(t) ==
    \/ ~t.concrete \/ t.suboption
    \/ t.tag \in {"Union", "Ref", "Array", "String"}

\* Everything that is wrong on the way to the corners.
RECURSIVE Errors(_, _)
Errors(x, bufsize) ==
    LET t == x.type IN
    IF Unsupported(t) THEN {"not implemented"}
    ELSE IF t.tag = "VarDim" /\ x.index \notin 0..(Len(t.offsets) - 2) THEN {"index"}
    ELSE IF t.tag \notin Compound
         THEN IF ~InRange(x.ptr + t.size) THEN {"overflow"}
              ELSE IF x.ptr < 0 \/ x.ptr + t.size > bufsize THEN {"bounds"} ELSE {}
    ELSE UNION {Errors(c.x, bufsize) \cup (IF c.overflow THEN {"overflow"} ELSE {}) : c \in Corners(x)}

xnd_bounds_check(t, linear_index, bufsize) == Errors(Start(t, linear_index), bufsize) = {}
=============================================================================
