------------------------------- MODULE Bitmaps -------------------------------
(***************************************************************************)
(* The bitmaps of missing values (bitmaps.c): a tree of bit vectors beside *)
(* the data, built from the type and torn down again when memory runs out. *)
(*                                                                         *)
(* A bitmap is [bits, size, next]: the number of bits it has, or NoData,   *)
(* and the bitmaps of members.                                             *)
(***************************************************************************)
EXTENDS Traversal

NoData == -1
EmptyBitmap == [bits |-> NoData, size |-> 0, next |-> <<>>, array |-> FALSE]

bitmap_size(n) == (n + 7) \div 8

\* The blocks of memory a bitmap owns.
RECURSIVE Blocks(_)
Blocks(b) ==
    (IF b.bits # NoData THEN 1 ELSE 0) + (IF b.array THEN 1 ELSE 0)
    + FoldLeft(LAMBDA n, c : n + Blocks(c), 0, b.next)

\* Clearing leaves the size as it was.
xnd_bitmap_clear(b) == [EmptyBitmap EXCEPT !.size = b.size]

Outcome(ok, b, mem) == [ok |-> ok, b |-> b, mem |-> mem]
Cleared(b, mem) == Outcome(FALSE, xnd_bitmap_clear(b), Freed(mem, Blocks(b)))

RECURSIVE bitmap_init(_, _, _, _), InitMembers(_, _, _, _)

\* The bitmaps next[j], next[j + 1], ... of members of the types in turn.
InitMembers(b, types, j, mem) ==
    IF j = b.size THEN Outcome(TRUE, b, mem)
    ELSE LET r == bitmap_init(EmptyBitmap, types[(j % Len(types)) + 1], 1, mem) IN
         IF ~r.ok THEN Cleared([b EXCEPT !.next[j + 1] = r.b], r.mem)
         ELSE InitMembers([b EXCEPT !.next[j + 1] = r.b], types, j + 1, r.mem)

\* Faulty variant: one bitmap for each member, not for each member of each item.
MemberBitmaps_PerType(b, types, nitems, mem) ==
    LET n == Len(types) IN
    IF ~CanAllocate(mem, 1) THEN Cleared(b, mem)
    ELSE InitMembers([b EXCEPT !.size = n, !.next = [j \in 1..n |-> EmptyBitmap], !.array = TRUE],
                     types, 0, Allocated(mem, 1))

MemberBitmaps(b, types, nitems, mem) ==
    LET n == nitems * Len(types) IN
    IF ~CanAllocate(mem, 1) THEN Cleared(b, mem)
    ELSE InitMembers([b EXCEPT !.size = n, !.next = [j \in 1..n |-> EmptyBitmap], !.array = TRUE],
                     types, 0, Allocated(mem, 1))

bitmap_init(b, t, nitems, mem) ==
    LET d == IF t.opt THEN [b EXCEPT !.bits = 8 * bitmap_size(nitems)] ELSE b
        m == IF t.opt THEN Allocated(mem, 1) ELSE mem IN
    IF t.opt /\ (t.ndim > 0 \/ ~CanAllocate(mem, 1)) THEN Outcome(FALSE, b, mem)
    ELSE IF ~t.suboption THEN Outcome(TRUE, d, m)
    ELSE CASE t.tag = "FixedDim" -> bitmap_init(d, t.type, nitems * t.shape, m)
           [] t.tag = "VarDim" ->
                 bitmap_init(d, t.type, IF t.ndim = 1 THEN Last(t.offsets) ELSE nitems, m)
           [] t.tag \in {"Tuple", "Record", "Union"} -> MemberBitmaps(d, t.types, nitems, m)
           [] t.tag \in {"Ref", "Constr", "Nominal"} -> MemberBitmaps(d, <<t.type>>, nitems, m)
           [] t.tag = "Array" -> Outcome(FALSE, d, m)

xnd_bitmap_init(t, mem) == bitmap_init(EmptyBitmap, t, 1, mem)

-----------------------------------------------------------------------------
\* The bitmap at the end of a path, if every step of it exists.
RECURSIVE HasBitmap(_, _), BitmapAt(_, _)
HasBitmap(b, path) ==
    path = <<>> \/ (Head(path) \in 0..(Len(b.next) - 1) /\ HasBitmap(b.next[Head(path) + 1], Tail(path)))
BitmapAt(b, path) == IF path = <<>> THEN b ELSE BitmapAt(b.next[Head(path) + 1], Tail(path))

\* Where xnd_is_valid, xnd_set_valid and xnd_set_na look for a value.
BitOf(x) == <<x.bitmap, x.index>>
HasBit(b, x) == HasBitmap(b, x.bitmap) /\ x.index \in 0..(BitmapAt(b, x.bitmap).bits - 1)
=============================================================================
