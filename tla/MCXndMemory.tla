---------------------------- MODULE MCXndMemory ----------------------------
(***************************************************************************)
(* Small types for XndMemory, with all values they can be given: right or  *)
(* wrong ones, empty ones, and arrays of up to two elements.               *)
(***************************************************************************)
EXTENDS XndMemory

Scalar   == [tag |-> "Scalar"]
String   == [tag |-> "String"]
Bytes    == [tag |-> "Bytes"]
Ref(t)   == [tag |-> "Ref", type |-> t]
Array(t) == [tag |-> "Array", type |-> t]
Tuple(s) == [tag |-> "Tuple", types |-> s]
Union(s) == [tag |-> "Union", types |-> s]
Dim(n, t) == [tag |-> "FixedDim", shape |-> n, type |-> t]

Wrong == [ok |-> FALSE, n |-> 0, items |-> <<>>]
Leaf(n) == [ok |-> TRUE, n |-> n, items |-> <<>>]
Node(n, s) == [ok |-> TRUE, n |-> n, items |-> s]

\* The values of a type.
RECURSIVE ValuesOf(_)
ValuesOf(t) ==
    CASE t.tag \in {"Scalar", "Bytes"} -> {Wrong, Leaf(0), Leaf(7)}
      [] t.tag = "String" -> {Wrong, Leaf(0)}
      [] t.tag = "Ref" -> ValuesOf(t.type)
      [] t.tag = "FixedDim" -> {Node(0, s) : s \in [1 .. t.shape -> ValuesOf(t.type)]}
      [] t.tag = "Array" -> {Wrong} \cup {Node(0, s) : s \in
                              UNION {[1 .. n -> ValuesOf(t.type)] : n \in 0 .. 2}}
      [] t.tag = "Tuple" -> {Node(0, s) : s \in
                              {f \in [DOMAIN t.types -> UNION {ValuesOf(t.types[i]) :
                                                              i \in DOMAIN t.types}] :
                                 \A i \in DOMAIN t.types : f[i] \in ValuesOf(t.types[i])}}
      [] t.tag = "Union" -> {Wrong} \cup UNION {{Node(i - 1, <<v>>) : v \in ValuesOf(t.types[i])}
                                                 : i \in DOMAIN t.types}

PartsOf(t) == {t} \cup (IF t.tag = "Tuple" THEN Range(t.types) ELSE {})
AllValues == [t \in UNION {PartsOf(u) : u \in Types} |-> ValuesOf(t)]

\* Assignments: references, members of different sizes in a union, arrays of
\* strings.  Left out are the combinations that are known to fail: a union
\* with a number and a pointer, and below the copies of arrays with pointers.
Assigned == {Ref(Tuple(<<Bytes, String>>)), Tuple(<<Ref(Scalar), Array(Bytes)>>),
             Union(<<String, Bytes, Tuple(<<String, String>>)>>),
             Array(Tuple(<<String, Scalar>>)), Ref(Union(<<String, Bytes>>))}
\* Copies between two containers.
Copied   == {Ref(Tuple(<<Bytes, Scalar>>)), Array(Scalar),
             Tuple(<<Union(<<Scalar, Scalar>>), Ref(Scalar)>>)}
Checked  == Assigned \cup Copied

\* A number and a string in one union.
Variant  == {Union(<<Scalar, String>>)}

Blocks == [t \in Types |-> IF t \in Copied THEN {"a", "b"} ELSE {"a"}]
Distinct == {p \in {"a", "b"} \X {"a", "b"} : p[1] # p[2]}
=============================================================================
