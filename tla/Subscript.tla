----------------------------- MODULE Subscript -----------------------------
(***************************************************************************)
(* Subscripts of xnd containers (xnd.c, ndtypes.c): zero-copy views.  A    *)
(* type is the sequence of its dimensions, outermost first, over a scalar  *)
(* dtype of size one; a view is a type and a linear index into the memory  *)
(* block.  A ragged dimension has an offset array and a stack of slices,   *)
(* and turns into a hidden VarDimElem when it is indexed under a slice.    *)
(***************************************************************************)
EXTENDS Slices, SequencesExt, Functions

CONSTANTS Arrays,     \* the containers a run starts from
          Keys        \* tuples of indices and slices: the set that every step of
                      \* a chain of subscripts may take, so its length a bound

VARIABLES view,       \* the xnd_t last returned
          list,       \* what reading it gives (a ghost)
          indices,    \* the last argument of xnd_subscript
          raised,     \* xnd_subscript returned xnd_error
          steps

vars == <<view, list, indices, raised, steps>>

\* The results of one call: a view, or IndexError.
View(type, index) == [err |-> FALSE, type |-> type, index |-> index]
IndexError        == [err |-> TRUE, type |-> <<>>, index |-> 0]

ndim(x) == Len(x.type)
Is(x, tags) == x.type # <<>> /\ Head(x.type).tag \in tags

xnd_fixed_dim_next(x, i) == View(Tail(x.type), x.index + i * Head(x.type).step)
xnd_var_dim_next(x, start, step, i) == View(Tail(x.type), start + i * step)

\* The element i of a dimension, or IndexError.
at(x, r, i) ==
    IF adjust_index(i, r.shape) < 0 THEN IndexError
    ELSE xnd_var_dim_next(x, r.start, r.step, adjust_index(i, r.shape))

element(x, i) ==
    IF Is(x, {"FixedDim"})
      THEN IF adjust_index(i, Head(x.type).shape) < 0 THEN IndexError
           ELSE xnd_fixed_dim_next(x, adjust_index(i, Head(x.type).shape))
      ELSE at(x, ndt_var_indices(Head(x.type), x.index), i)

apply_stored_index(x) == element(x, Head(x.type).elem)

RECURSIVE apply_stored_indices(_)
apply_stored_indices(x) ==
    IF ~x.err /\ Is(x, {"VarDimElem"})
      THEN apply_stored_indices(apply_stored_index(x)) ELSE x

---------------------------------------------------------------------------
(***************************************************************************)
(* Only indices: the view is the subtree that they lead to.                *)
(***************************************************************************)
RECURSIVE xnd_subtree(_, _), descend(_, _)
descend(x, ks) ==
    IF x.err \/ ks = <<>> THEN x
    ELSE IF x.type = <<>> THEN IndexError
    ELSE xnd_subtree(element(x, Head(ks).i), Tail(ks))
xnd_subtree(x, ks) == descend(apply_stored_indices(x), ks)

---------------------------------------------------------------------------
(***************************************************************************)
(* With slices: the view keeps the pointer and gets a new type.  A ragged  *)
(* dimension that is indexed cannot be left out of the type, because each  *)
(* of its lists has a shape of its own: it stores the index.               *)
(***************************************************************************)
ndt_logical_ndim(x) == Len(SelectSeq(x.type, LAMBDA d : d.tag # "VarDimElem"))

VarElem(d, i) == [tag |-> "VarDimElem", offsets |-> d.offsets,
                  slices |-> d.slices, elem |-> i]

ndt_var_add_slice_Pushed(d, s) == [d EXCEPT !.slices = <<s>> \o @]
ndt_var_add_slice(d, s) == [d EXCEPT !.slices = Append(@, s)]

FixedSlice(d, s, a) == [d EXCEPT !.shape = a.shape, !.step = @ * s.step]

Outer(dim, x, inner) ==
    IF inner.err THEN IndexError ELSE View(<<dim>> \o inner.type, x.index)
Sliced(dim, inner) == Outer(dim, inner, inner)

RECURSIVE xnd_multikey(_, _), xnd_index(_, _, _), xnd_slice(_, _, _),
          FixedSliced(_, _, _, _)
xnd_index(x, d, ks) ==
    CASE d.tag = "VarDimElem" ->
           Outer(d, x, xnd_multikey(xnd_var_dim_next(x, 0, 1, 0), ks))
      [] d.tag = "FixedDim" -> xnd_multikey(element(x, Head(ks).i), Tail(ks))
      [] d.tag = "VarDim" ->
           Outer(VarElem(d, Head(ks).i), x,
                 xnd_multikey(xnd_var_dim_next(x, 0, 1, 0), Tail(ks)))

FixedSliced(x, d, ks, a) ==
    Sliced(FixedSlice(d, Head(ks), a),
           xnd_multikey(xnd_fixed_dim_next(x, a.start), Tail(ks)))

xnd_slice(x, d, ks) ==
    CASE d.tag = "VarDimElem" ->
           Outer(d, x, xnd_multikey(xnd_var_dim_next(x, 0, 1, 0), ks))
      [] d.tag = "FixedDim" ->
           FixedSliced(x, d, ks, ndt_slice_adjust_indices(d.shape, Head(ks)))
      [] d.tag = "VarDim" ->
           Sliced(ndt_var_add_slice(d, Head(ks)),
                  xnd_multikey(View(Tail(x.type), x.index), Tail(ks)))

xnd_multikey(x, ks) ==
    IF x.err \/ Len(ks) > ndt_logical_ndim(x) THEN IndexError
    ELSE IF ks = <<>> THEN x
    ELSE IF Head(ks).tag = "Index" THEN xnd_index(x, Head(x.type), ks)
    ELSE xnd_slice(x, Head(x.type), ks)

elements(x, r) == {xnd_var_dim_next(x, r.start, r.step, i) : i \in 0 .. r.shape - 1}

\* Every list that an index was stored for must have it.
RECURSIVE validate_indices_Shallow(_)
validate_indices_Shallow(x) ==
    IF Is(x, {"VarDim"})
      THEN \A y \in elements(x, ndt_var_indices_non_empty(Head(x.type), x.index)) :
              validate_indices_Shallow(y)
    ELSE Is(x, {"VarDimElem"}) => ~apply_stored_index(x).err

RECURSIVE validate_indices(_)
validate_indices(x) ==
    IF x.err THEN FALSE
    ELSE IF Is(x, {"VarDim"})
      THEN \A y \in elements(x, ndt_var_indices_non_empty(Head(x.type), x.index)) :
              validate_indices(y)
    ELSE Is(x, {"VarDimElem"}) => validate_indices(apply_stored_index(x))

Checked(res, ks) ==
    IF res.err \/ (/\ \E n \in DOMAIN ks : ks[n].tag = "Index"
                  /\ ~validate_indices(res))
      THEN IndexError ELSE res

xnd_subscript(x, ks) ==
    IF \E n \in DOMAIN ks : ks[n].tag = "Slice"
      THEN Checked(xnd_multikey(x, ks), ks) ELSE xnd_subtree(x, ks)

---------------------------------------------------------------------------
(***************************************************************************)
(* Reading a view (_pyxnd_value): the nested list of the cells it visits,  *)
(* with a node of position -2 where a stored index is out of bounds.       *)
(***************************************************************************)
RECURSIVE Value(_), Ragged(_, _)
Node(p, s) == [pos |-> p, items |-> s]
Ragged(x, r) == Node(-1, [i \in 1 .. r.shape |->
                             Value(xnd_var_dim_next(x, r.start, r.step, i - 1))])
Value(x) ==
    IF x.err THEN Node(-2, <<>>)
    ELSE IF x.type = <<>> THEN Node(x.index, <<>>)
    ELSE IF Is(x, {"FixedDim"})
      THEN Node(-1, [i \in 1 .. Head(x.type).shape |-> Value(xnd_fixed_dim_next(x, i - 1))])
    ELSE IF Is(x, {"VarDim"}) THEN Ragged(x, ndt_var_indices(Head(x.type), x.index))
    ELSE Value(apply_stored_index(x))

---------------------------------------------------------------------------
Init == /\ view \in Arrays /\ list = Value(view)
        /\ indices = <<>> /\ raised = FALSE /\ steps = 0

Subscript(ks) ==
    /\ view.type # <<>>
    /\ steps' = steps + 1
    /\ indices' = ks
    /\ \E res \in {xnd_subscript(view, ks)} :
          /\ raised' = res.err
          /\ view' = IF res.err THEN view ELSE res
          /\ list' = IF res.err THEN list ELSE Value(res)

Next == steps < Len(Keys) /\ \E ks \in Keys[steps + 1] : Subscript(ks)
Spec == Init /\ [][Next]_vars

---------------------------------------------------------------------------
RECURSIVE Readable(_, _)
Readable(v, depth) ==
    IF depth = 0 THEN v.pos >= 0
    ELSE v.pos = -1 /\ \A i \in DOMAIN v.items : Readable(v.items[i], depth - 1)

(***************************************************************************)
(* ReadsNeverFail: whatever chain of subscripts made a view, reading it    *)
(* meets no stored index that is out of bounds, and every path through it  *)
(* ends in a scalar at its logical number of dimensions: what              *)
(* validate_indices checked when an index was stored still holds after     *)
(* later slices and subtrees (xnd_subscript, apply_stored_index).          *)
(***************************************************************************)
ReadsNeverFail ==
    /\ (list.pos >= 0) = (view.type = <<>>)
    /\ Readable(list, ndt_logical_ndim(view))

(***************************************************************************)
(* ImplementsNestedLists: each subscript of a view is the subscript of the *)
(* nested list it stands for, cell by cell: composed slices, offsets and   *)
(* stored indices select what getitem selects, an index is refused where   *)
(* getitem refuses it, and only there (xnd_subscript).                     *)
(***************************************************************************)
AllKeys == UNION Range(Keys)
Lists == INSTANCE NestedLists
             WITH Lists <- {Value(x) : x \in Arrays}, Keys <- AllKeys
ImplementsNestedLists == Lists!Spec
=============================================================================
