----------------------------- MODULE TypeValues -----------------------------
(***************************************************************************)
(* What the type heap promises to those who hold types: a type is a value. *)
(* Building one makes a new value out of values at hand, and nothing that  *)
(* another holder does, and no failure of another call, ever changes it.   *)
(* No counts, no sharing, no memory.                                       *)
(***************************************************************************)
EXTENDS Integers

CONSTANTS Root, Kid, Sort, NULL, StaticValue

VARIABLE val        \* the type that every holder has, or NULL

Init == val = [r \in Root |-> NULL]

Make(r) ==
    /\ val[r] = NULL
    /\ \E t \in Sort, kids \in [Kid -> {val[q] : q \in Root} \cup {NULL}] :
           val' = [val EXCEPT ![r] = [sort |-> t, kids |-> kids]]

Borrow(r) ==
    /\ val[r] = NULL
    /\ \E x \in {val[q] : q \in Root} \cup {StaticValue} : val' = [val EXCEPT ![r] = x]

Drop(r) == val' = [val EXCEPT ![r] = NULL]

Hand(r, q) == r # q /\ val' = [val EXCEPT ![r] = val[q], ![q] = NULL]

Next ==
    \/ \E r \in Root : Make(r) \/ Borrow(r) \/ Drop(r)
    \/ \E r, q \in Root : Hand(r, q)

Spec == Init /\ [][Next]_val
=============================================================================
