---------------------------- MODULE NestedLists ----------------------------
(***************************************************************************)
(* What subscripting promises: the definition of multidimensional indexing *)
(* and slicing on nested lists that the test suite keeps beside the code   *)
(* (NDArray and getitem in xnd_randvalue.py).  A list is a node with items *)
(* and a scalar a node with a position of the memory block, so two views   *)
(* are equal when they select the same cells in the same order.            *)
(***************************************************************************)
EXTENDS Integers, Sequences, FiniteSetsExt, SequencesExt

CONSTANTS Lists,    \* the nested lists a run starts from
          Keys      \* tuples of indices and slices

VARIABLES list, indices, raised

vars == <<list, indices, raised>>

List(s)   == [pos |-> -1, items |-> s]
Raise     == [pos |-> -2, items |-> <<>>]

IsIndex(k) == k.tag = "Index"
HasIndex(ks) == \E n \in DOMAIN ks : IsIndex(ks[n])

\* list.__getitem__ with a slice, by the elements it selects.
Wrapped(i, n) == IF i < 0 THEN i + n ELSE i
Hit(i, first, to, step) ==
    IF step > 0 THEN i >= first /\ i < to /\ (i - first) % step = 0
    ELSE i <= first /\ i > to /\ (first - i) % (-step) = 0
Selected(n, s) ==
    LET first == IF s.step > 0 THEN Max({Wrapped(s.start, n), 0})
                 ELSE Min({Wrapped(s.start, n), n - 1})
        hit   == {i \in 0 .. n - 1 : Hit(i, first, Wrapped(s.stop, n), s.step)}
    IN  SetToSortSeq(hit, LAMBDA a, b : IF s.step > 0 THEN a < b ELSE a > b)

RECURSIVE maxlevel(_)
maxlevel(l) ==
    IF l.pos >= 0 THEN 0
    ELSE 1 + Max({0} \cup {maxlevel(l.items[i]) : i \in DOMAIN l.items})

(***************************************************************************)
(* getitem.  "Empty slice: check if all subsequent indices are in range    *)
(* for the full slice."  An empty list has no elements to check them       *)
(* against: the strict definition then refuses every integer, the lenient  *)
(* one, which the tests accept of xnd, does not.                           *)
(***************************************************************************)
RECURSIVE getitem(_, _, _), each(_, _, _), pick(_, _, _, _)
Gathered(s) == IF Raise \in Range(s) THEN Raise ELSE List(s)
each(strict, s, ks) == Gathered([i \in DOMAIN s |-> getitem(strict, s[i], ks)])

pick(strict, l, sel, ks) ==
    IF sel # <<>> THEN each(strict, [i \in DOMAIN sel |-> l.items[sel[i] + 1]], ks)
    ELSE IF \/ l.items # <<>> /\ each(strict, l.items, ks) = Raise
            \/ l.items = <<>> /\ strict /\ HasIndex(ks)
      THEN Raise
    ELSE List(<<>>)

getitem(strict, l, ks) ==
    IF ks = <<>> THEN l
    ELSE IF l.pos # -1 THEN Raise
    ELSE IF ~IsIndex(Head(ks))
      THEN pick(strict, l, Selected(Len(l.items), Head(ks)), Tail(ks))
    ELSE IF Wrapped(Head(ks).i, Len(l.items)) \in 0 .. Len(l.items) - 1
      THEN getitem(strict, l.items[Wrapped(Head(ks).i, Len(l.items)) + 1], Tail(ks))
    ELSE Raise

\* NDArray.__getitem__.
Definition(l, ks) == IF Len(ks) > maxlevel(l) THEN Raise ELSE getitem(TRUE, l, ks)

Init == list \in Lists /\ indices = <<>> /\ raised = FALSE

(***************************************************************************)
(* One subscript.  Where the definition gives a list, that is the result;  *)
(* where it raises, the implementation raises, or it gives what the        *)
(* lenient definition does.                                                *)
(***************************************************************************)
Subscript(ks) ==
    /\ indices' = ks
    /\ \E l \in {list} : \E strict \in {Definition(l, ks)} :
          \/ strict # Raise /\ raised' = FALSE /\ list' = strict
          \/ strict = Raise /\ raised' = TRUE /\ list' = l
          \/ /\ strict = Raise /\ raised' = FALSE
             /\ \E lenient \in {getitem(FALSE, l, ks)} : lenient # Raise /\ list' = lenient

Next == \E ks \in Keys : Subscript(ks)
Spec == Init /\ [][Next]_vars
=============================================================================
