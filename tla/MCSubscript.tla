---------------------------- MODULE MCSubscript ----------------------------
(***************************************************************************)
(* Chains of subscripts on ragged and on fixed containers that have empty, *)
(* short and long lists.                                                   *)
(***************************************************************************)
EXTENDS Subscript

V(o) == [tag |-> "VarDim", offsets |-> o, slices |-> <<>>]
F(shape, step) == [tag |-> "FixedDim", shape |-> shape, step |-> step]
I(i) == [tag |-> "Index", i |-> i]
S(a, b, c) == [tag |-> "Slice", start |-> a, stop |-> b, step |-> c]

Ragged2 == {View(<<V(<<0, 3>>), V(<<0, 2, 2, 5>>)>>, 0),
            View(<<V(<<0, 2>>), V(<<0, 3, 4>>)>>, 0)}
Ragged3 == {View(<<V(<<0, 2>>), V(<<0, 2, 3>>), V(<<0, 2, 3, 5>>)>>, 0),
            View(<<V(<<0, 2>>), V(<<0, 0, 2>>), V(<<0, 1, 3>>)>>, 0)}
Fixed   == {View(<<F(3, 2), F(2, 1)>>, 0), View(<<F(2, 4), F(2, 2), F(2, 1)>>, 0),
            View(<<F(2, 0), F(0, 1)>>, 0)}

UpTo(n, set) == UNION {[1 .. k -> set] : k \in 1 .. n}

MCArrays == Ragged2 \cup Ragged3 \cup Fixed

\* Two dimensions at most, then any number, then one.
MCKeys == <<UpTo(2, {S(0, 9, 1), S(1, 9, 1), S(9, -9, -1), S(-9, 9, 2), S(5, 9, 1),
                     I(0), I(1), I(-1)}),
            UpTo(3, {S(1, 9, 1), S(9, -9, -1), S(5, 9, 1), I(0), I(1), I(-1)}),
            UpTo(1, {S(-9, 9, 2), S(1, 9, 1), S(9, -9, -1), I(0)})>>
=============================================================================
