-------------------------------- MODULE Slices -------------------------------
(***************************************************************************)
(* Indices, slices and the lists of ragged dimensions (slice.h, xnd.h,     *)
(* ndt_var_indices of ndtypes.c).  A slice is [start, stop, step]; a       *)
(* ragged dimension d has d.offsets, which delimit its lists, and          *)
(* d.slices, a stack of slices that applies to each of them.               *)
(***************************************************************************)
EXTENDS Integers, Sequences, SequencesExt

adjust_index(i, shape) ==                        \* -1 is IndexError
    LET k == IF i < 0 THEN i + shape ELSE i
    IN  IF k < 0 \/ k >= shape THEN -1 ELSE k

ndt_slice_adjust_indices(length, s) ==
    LET Clip(i) == LET k == IF i < 0 THEN i + length ELSE i
                   IN  IF k < 0 THEN IF s.step < 0 THEN -1 ELSE 0
                       ELSE IF k >= length
                         THEN IF s.step < 0 THEN length - 1 ELSE length
                       ELSE k
        start == Clip(s.start)
        stop  == Clip(s.stop)
        shape == IF s.step < 0 /\ stop < start
                   THEN (start - stop - 1) \div (-s.step) + 1
                 ELSE IF s.step > 0 /\ start < stop
                   THEN (stop - start - 1) \div s.step + 1
                 ELSE 0
    IN  [start |-> start, shape |-> shape]

\* One slice of the stack of a ragged dimension on what the earlier ones left.
Narrow(r, s) ==
    LET a == ndt_slice_adjust_indices(r.shape, s)
    IN  [start |-> r.start + a.start * r.step, step |-> r.step * s.step,
         shape |-> a.shape]

\* The whole list that a ragged dimension has at an index.
Whole(d, index) ==
    [start |-> 0, step |-> 1, shape |-> d.offsets[index + 2] - d.offsets[index + 1]]

ndt_var_indices(d, index) ==
    LET r == FoldLeft(Narrow, Whole(d, index), d.slices)
    IN  [r EXCEPT !.start = @ + d.offsets[index + 1]]

ndt_var_indices_non_empty(d, index) ==
    LET r == FoldLeft(LAMBDA p, s : IF Narrow(p, s).shape > 0 THEN Narrow(p, s) ELSE p,
                      Whole(d, index), d.slices)
    IN  [r EXCEPT !.start = @ + d.offsets[index + 1]]
=============================================================================
