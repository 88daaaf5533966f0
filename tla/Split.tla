-------------------------------- MODULE Split -------------------------------
(***************************************************************************)
(* xnd_split (libxnd/split.c): cutting the outer dimensions of an array    *)
(* into at most n slices for as many threads.                              *)
(*                                                                         *)
(* A row is the sequence of index slices that xnd_split hands to           *)
(* xnd_subscript, outermost dimension first; dimensions that a row does    *)
(* not mention are taken whole.  The C code writes the rows into a matrix  *)
(* of n rows, every call returning how many rows it filled; here each call *)
(* returns its rows, and the asserts on the matrix are RowsFit.            *)
(***************************************************************************)
EXTENDS Integers, Sequences, FiniteSets, SequencesExt

\* The i-th of n consecutive parts of q * n + r items; the first r parts are
\* one item longer.
start(i, r, q) == IF i < r THEN i * (q + 1) ELSE r + i * q
stop(i, r, q) == IF i < r THEN (i + 1) * (q + 1) ELSE r + (i + 1) * q
step(i, r, q) == IF i < r THEN q + 1 ELSE q

\* Faulty variant: the remainder is given to the last parts.
slice_LastLonger(i, r, q) ==
    [start |-> i * q, stop |-> IF i < r THEN (i + 1) * q + 1 ELSE (i + 1) * q]

single_step_slice(i) == [start |-> i, stop |-> i + 1]
slice(i, r, q) == [start |-> start(i, r, q), stop |-> stop(i, r, q)]

\* prepend: the same slice in front of every row of a subtree.
prepend(s, rows) == [i \in DOMAIN rows |-> <<s>> \o rows[i]]

\* last_column: at least as many items as parts.
last_column(n, m) == [i \in 1..n |-> slice(i - 1, m % n, m \div n)]

\* column: fewer items than parts, one subtree of parts for every item.
column(n, m, subtree) ==
    FlattenSeq([i \in 1..m |->
        prepend(single_step_slice(i - 1), subtree[step(i - 1, n % m, n \div m)])])

\* One dimension of m items cut for every number of parts up to n, where rest
\* holds the rows for the dimensions behind it.
level(n, m, rest) ==
    [k \in 1..n |->
        IF k <= m THEN [i \in 1..k |-> <<last_column(k, m)[i]>>]
        ELSE column(k, m, rest)]

\* schedule: the rows for n parts of the dimensions shape.
schedule(n, shape) ==
    LET rows[len \in 0..Len(shape)] ==      \* for the last len dimensions
            IF len = 0 THEN [k \in 1..n |-> << <<>> >>]
            ELSE level(n, shape[Len(shape) - len + 1], rows[len - 1])
    IN rows[Len(shape)][n]

\* get_shape: the outer dimensions, or an error if any dimension is empty.
get_shape(dims, max_outer) ==
    IF \E i \in DOMAIN dims : dims[i] <= 0 THEN [ok |-> FALSE]
    ELSE [ok |-> TRUE,
          shape |-> SubSeq(dims, 1, IF max_outer < Len(dims) THEN max_outer ELSE Len(dims))]

xnd_split(nparts, dims, max_outer) ==
    LET outer == get_shape(dims, max_outer) IN
    IF nparts < 1 \/ ~outer.ok THEN [ok |-> FALSE]
    ELSE [ok |-> TRUE, rows |-> schedule(nparts, outer.shape)]

-----------------------------------------------------------------------------
\* The index vectors of an array, and those that a row selects.
Indices(shape) ==
    {x \in [DOMAIN shape -> UNION {0..(shape[d] - 1) : d \in DOMAIN shape}] :
        \A d \in DOMAIN shape : x[d] < shape[d]}

Selected(row, shape) ==
    {x \in Indices(shape) : \A d \in DOMAIN row : row[d].start <= x[d] /\ x[d] < row[d].stop}

\* x comes before y in row-major order.
Before(x, y) == \E d \in DOMAIN x : x[d] < y[d] /\ \A e \in 1..(d - 1) : x[e] = y[e]

(* Rows cut the dimensions shape into disjoint parts that cover all of it  *)
(* and follow each other in memory order: no element is computed twice or  *)
(* left out.  There are as many rows as asked for, and so as many as were  *)
(* allocated, unless there are fewer elements; no row is longer than the   *)
(* dimensions (the asserts in prepend and last_column of split.c), and no  *)
(* part is empty.                                                          *)
Partitions(rows, nparts, shape) ==
    LET n == Cardinality(Indices(shape)) IN
    /\ \A x \in Indices(shape) :
           Cardinality({i \in DOMAIN rows : x \in Selected(rows[i], shape)}) = 1
    /\ Len(rows) = IF n < nparts THEN n ELSE nparts
    /\ \A i \in DOMAIN rows : Len(rows[i]) <= Len(shape) /\ Selected(rows[i], shape) # {}
    /\ \A i, j \in DOMAIN rows : i < j =>
           \A x \in Selected(rows[i], shape), y \in Selected(rows[j], shape) : Before(x, y)
=============================================================================
