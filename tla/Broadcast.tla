----------------------------- MODULE Broadcast ------------------------------
(***************************************************************************)
(* Fixed dimensions and their broadcasting: the steps that ndt_fixed_dim   *)
(* computes (ndtypes.c), contiguity (util.c, ndtypes.c) and the shape that *)
(* several arguments share (match.c).                                      *)
(*                                                                         *)
(* A dimension is a record [kind, shape, step]; an array type has a        *)
(* sequence of them, outermost first, and steps count items.               *)
(***************************************************************************)
EXTENDS Integers, Sequences, SequencesExt

Fixed(n, s) == [kind |-> "fixed", shape |-> n, step |-> s]

Shape(dims) == [i \in DOMAIN dims |-> dims[i].shape]

Product(ns) == FoldLeft(LAMBDA a, n : a * n, 1, ns)

AbsOf(n) == IF n < 0 THEN -n ELSE n

\* The items between the first and the last that the dimensions reach, and
\* one: the data size divided by the item size.
Extent(dims) ==
  IF \E i \in DOMAIN dims : dims[i].shape = 0
  THEN 0
  ELSE FoldLeft(LAMBDA a, d : a + (d.shape - 1) * AbsOf(d.step), 1, dims)

\* ndt_fixed_dim with the step left to fixed_step.
AddDim(n, dims) == <<Fixed(n, Extent(dims))>> \o dims

\* The last of ns is added first.
AddDims(ns, dims) ==
  LET added[k \in 0 .. Len(ns)] ==
        IF k = 0 THEN dims ELSE AddDim(ns[Len(ns) + 1 - k], added[k - 1])
  IN added[Len(ns)]

IsCContiguous(dims) ==
  \A i \in DOMAIN dims :
     dims[i].shape > 1 =>
       dims[i].step = Product(Shape(SubSeq(dims, i + 1, Len(dims))))

IsFContiguous(dims) ==
  \A i \in DOMAIN dims :
     dims[i].shape > 1 => dims[i].step = Product(Shape(SubSeq(dims, 1, i - 1)))

ToFortran(dims) ==
  [i \in DOMAIN dims |-> Fixed(dims[i].shape, Product(Shape(SubSeq(dims, 1, i - 1))))]

(***************************************************************************)
(* The common shape.  v is the shape found so far, w that of the next      *)
(* argument; the two are not treated alike: 3 followed by 0 gives 0, but 0 *)
(* followed by 3 is an error.                                              *)
(***************************************************************************)
NoShape == <<-1>>

\* Faulty variant: a leading length of one is not stretched.
ResolveDim_NoStretch(n, m) ==
  CASE m = n -> n
    [] m # n /\ m = 0 -> 0
    [] m # n /\ m = 1 -> n
    [] OTHER -> -1

ResolveDim(n, m) ==
  CASE m = n -> n
    [] m # n /\ n = 1 -> m
    [] m # n /\ n # 1 /\ m = 0 -> 0
    [] m # n /\ n # 1 /\ m = 1 -> n
    [] OTHER -> -1

Resolve(v, w) ==
  LET size == IF Len(v) >= Len(w) THEN Len(v) ELSE Len(w)
      i(k) == k - (size - Len(v))
      j(k) == k - (size - Len(w))
      u == [k \in 1 .. size |->
              IF i(k) < 1 THEN w[j(k)]
              ELSE IF j(k) < 1 THEN v[i(k)]
              ELSE ResolveDim(v[i(k)], w[j(k)])]
  IN IF \E k \in 1 .. size : u[k] = -1 THEN NoShape ELSE u

\* Faulty variant: the step of a single item is kept.
Stretch_KeepsStep(d, n) == Fixed(n, d.step)

\* Faulty variant: off by one.
Stretch_ClearsTwo(d, n) == Fixed(n, IF d.shape <= 2 THEN 0 ELSE d.step)

\* A single item is read again and again.
Stretch(d, n) == Fixed(n, IF d.shape <= 1 THEN 0 ELSE d.step)

\* Faulty variant: outputs are stretched like inputs.
BroadcastTo_ZeroSteps(dims, shape, inner, output) ==
  LET outer == Len(dims) - inner
      new   == Len(shape) - outer
  IN [k \in 1 .. new |-> Fixed(shape[k], 0)]
     \o [k \in 1 .. outer |-> Stretch(dims[k], shape[new + k])]
     \o SubSeq(dims, outer + 1, Len(dims))

(***************************************************************************)
(* broadcast(): the dimensions of an argument with its last inner ones     *)
(* kept and the others stretched to shape.  A leading dimension that the   *)
(* argument does not have gets step 0, or its own step if it is an output. *)
(***************************************************************************)
BroadcastTo(dims, shape, inner, output) ==
  LET outer == Len(dims) - inner
      new   == Len(shape) - outer
      kept  == [k \in 1 .. outer |-> Stretch(dims[k], shape[new + k])]
               \o SubSeq(dims, outer + 1, Len(dims))
  IN IF output
     THEN AddDims(SubSeq(shape, 1, new), kept)
     ELSE [k \in 1 .. new |-> Fixed(shape[k], 0)] \o kept

-----------------------------------------------------------------------------
(***************************************************************************)
(* What the type checks promise, stated with indices.                      *)
(***************************************************************************)
\* The indices of an array of the given shape, counted from 0.
Indices(shape) ==
  { ix \in [DOMAIN shape -> UNION { 0 .. shape[k] - 1 : k \in DOMAIN shape }] :
      \A k \in DOMAIN shape : ix[k] < shape[k] }

\* The items before index ix, summed up from the innermost dimension.
Address(dims, ix) ==
  LET inner[k \in 0 .. Len(dims)] ==
        IF k = 0 THEN 0
        ELSE inner[k - 1] + ix[Len(dims) + 1 - k] * dims[Len(dims) + 1 - k].step
  IN inner[Len(dims)]
=============================================================================
