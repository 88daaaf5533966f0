------------------------------ MODULE Serialize ------------------------------
(***************************************************************************)
(* Types as sequences of bytes (serialize.c) and back (deserialize.c).     *)
(*                                                                         *)
(* The bytes are grouped to cells, the values that are read with nothing   *)
(* but reads between them: the common fields of a type, then its own, then *)
(* its members; types of several members have the positions of the members *)
(* before them.  A buffer may end early and memory may run out.            *)
(***************************************************************************)
EXTENDS TypeLayout

CommonFields == {"tag", "opt", "suboption", "pointer", "ref", "ndim", "size", "align", "concrete"}
Only(t, fields) == [f \in fields \cap DOMAIN t |-> t[f]]

\* The types that refer to one type and those with members; the nodes of other
\* types are static unless they are parameterised or abstract.
SingleTags == {"FixedDim", "SymbolicDim", "VarDim", "Array", "Ref", "Constr", "Nominal"}
SeveralTags == {"Tuple", "Record", "Union", "Function"}
LeafTags == {"FixedString", "FixedBytes", "Typevar", "ScalarKind", "Any"}
IsStatic(tag) == tag \notin SingleTags \cup SeveralTags \cup LeafTags

-----------------------------------------------------------------------------
(* Writing.                                                                *)

write_common_fields(t) == Only(t, CommonFields)

\* The cells of a type's own fields.
OwnCells(t) ==
    CASE t.tag = "FixedDim" -> <<Only(t, {"shape", "step", "itemsize"})>>
      [] t.tag \in {"SymbolicDim", "Constr", "Nominal", "Typevar"} -> <<Only(t, {"name"})>>
      [] t.tag = "VarDim" -> <<Only(t, {"itemsize"}), Only(t, {"offsets"}), Only(t, {"slices"})>>
      [] t.tag = "Array" -> <<Only(t, {"itemsize"})>>
      [] t.tag \in {"Tuple", "Record"} ->
            <<[members |-> Len(t.types)] @@ Only(t, {"variadic"}), Only(t, {"offset", "aligns", "pad"})>>
            \o (IF t.tag = "Record" THEN <<Only(t, {"names"})>> ELSE <<>>)
      [] t.tag = "Union" -> <<[members |-> Len(t.types)], Only(t, {"names"})>>
      [] t.tag = "Function" -> <<[members |-> Len(t.types)] @@ Only(t, {"nin", "nout"})>>
      [] t.tag = "FixedString" -> <<Only(t, {"length", "encoding"})>>
      [] t.tag = "FixedBytes" -> <<Only(t, {"size", "align"})>>
      [] OTHER -> <<>>

\* offset: how many cells there are before the type.
RECURSIVE write_type(_, _)

WriteMembers(types, offset) ==
    LET n == Len(types)
        Write(w, t) == [starts |-> Append(w.starts, offset + n + Len(w.cells)),
                        cells |-> w.cells \o write_type(t, offset + n + Len(w.cells))]
        all == FoldLeft(Write, [starts |-> <<>>, cells |-> <<>>], types)
    IN all.starts \o all.cells

write_type(t, offset) ==
    LET own == <<write_common_fields(t)>> \o OwnCells(t) IN
    own \o (IF t.tag \in SingleTags THEN write_type(t.type, offset + Len(own))
            ELSE IF t.tag \in SeveralTags THEN WriteMembers(t.types, offset + Len(own)) ELSE <<>>)

ndt_serialize(t) == write_type(t, 0)

-----------------------------------------------------------------------------
(* Reading.                                                                *)

\* The blocks of memory of a type: nodes, names, offsets and slices.
RECURSIVE TypeBlocks(_)
OwnBlocks(t) ==
    CASE IsStatic(t.tag) -> 0
      [] t.tag \in {"SymbolicDim", "Constr", "Nominal", "Typevar"} -> 2
      [] t.tag = "VarDim" -> IF t.slices = <<>> THEN 3 ELSE 4
      [] t.tag \in {"Record", "Union"} -> 1 + Len(t.types)
      [] OTHER -> 1
TypeBlocks(t) ==
    OwnBlocks(t) + (IF t.tag \in SingleTags THEN TypeBlocks(t.type)
                    ELSE IF t.tag \in SeveralTags THEN FoldLeft(LAMBDA n, u : n + TypeBlocks(u), 0, t.types) ELSE 0)

ReadType(t, mem) == [type |-> t, mem |-> mem]
Refuse(mem) == ReadType(Error, mem)

\* How many blocks are allocated before and after a cell of own fields is read:
\* nodes with room for members, names, offsets and slices.
CellBlocks(tag, members) ==
    CASE tag \in {"FixedDim", "Array", "FixedString", "FixedBytes"} -> <<<<0, 0>>>>
      [] tag \in {"SymbolicDim", "Constr", "Nominal", "Typevar"} -> <<<<0, 1>>>>
      [] tag = "VarDim" -> <<<<0, 0>>, <<2, 0>>, <<1, 0>>>>
      [] tag = "Tuple" -> <<<<0, 1>>, <<0, 0>>>>
      [] tag = "Record" -> <<<<0, 1>>, <<0, 0>>, <<0, members>>>>
      [] tag = "Union" -> <<<<0, 1>>, <<0, members>>>>
      [] tag = "Function" -> <<<<0, 1>>>>
      [] OTHER -> <<>>

\* Reading one cell: whatever fails, what has been allocated is freed.
ReadCell(buf, r, blocks) ==
    LET n == blocks[1] + blocks[2] IN
    IF ~r.ok THEN r
    ELSE IF r.at >= Len(buf) \/ ~CanAllocate(r.mem, n)
         THEN [r EXCEPT !.ok = FALSE, !.mem = Freed(@, r.blocks)]
    ELSE [r EXCEPT !.at = @ + 1, !.type = @ @@ buf[r.at + 1], !.mem = Allocated(@, n), !.blocks = @ + n]

ReadOwn(buf, at, mem) ==
    LET c == buf[at + 1]
        members == IF c.tag \in SeveralTags /\ at + 1 < Len(buf) THEN buf[at + 2].members ELSE 0 IN
    FoldLeft(LAMBDA r, blocks : ReadCell(buf, r, blocks),
             [ok |-> TRUE, at |-> at + 1, type |-> c, mem |-> mem, blocks |-> 0],
             CellBlocks(c.tag, members))

RECURSIVE read_type(_, _, _, _), ReadMembers(_, _, _, _, _)

\* Faulty variant: the member is not released when there is no node for it.
NodeAround_KeepsMember(own, member) ==
    IF IsError(member.type) \/ ~CanAllocate(member.mem, 1) THEN Refuse(Freed(member.mem, own.blocks))
    ELSE ReadType(own.type @@ [type |-> member.type], Allocated(member.mem, 1))

\* A node of one member comes last; slices that are none are freed before.
NodeAround(own, member) ==
    IF IsError(member.type) THEN Refuse(Freed(member.mem, own.blocks))
    ELSE IF ~CanAllocate(member.mem, 1) THEN Refuse(Freed(member.mem, own.blocks + TypeBlocks(member.type)))
    ELSE ReadType(own.type @@ [type |-> member.type], Allocated(member.mem, 1))

WithoutEmptySlices(own) ==
    IF own.type.tag = "VarDim" /\ own.type.slices = <<>>
    THEN [own EXCEPT !.mem = Freed(@, 1), !.blocks = @ - 1] ELSE own

\* known: the names of nominal types have a typedef.
ReadSingle(buf, own, known) ==
    LET r == WithoutEmptySlices(own)
        member == read_type(buf, r.at, r.mem, known) IN
    IF r.type.tag = "Nominal" /\ ~known /\ ~IsError(member.type)
    THEN Refuse(Freed(member.mem, r.blocks + TypeBlocks(member.type)))
    ELSE NodeAround(r, member)

\* A node with its members.  The elemwise of a function is not in the buffer, and
\* nothing is written to it.
ReadNode(own, types, mem) ==
    LET node == Only(own, DOMAIN own \ {"members"}) @@ [types |-> types] IN
    IF node.tag = "Function" THEN node @@ [elemwise |-> mem.fill] ELSE node

\* The members i, i + 1, ...: their positions, then the members there.  A
\* function whose positions end early is not given back.
ReadMembers(buf, own, types, mem, known) ==
    LET i == Len(types) + 1
        meta == own.at + i
        blocks == own.blocks + FoldLeft(LAMBDA n, u : n + TypeBlocks(u), 0, types)
        member == read_type(buf, buf[meta], mem, known) IN
    IF i > own.type.members THEN ReadType(ReadNode(own.type, types, mem), mem)
    ELSE IF meta > Len(buf) THEN Refuse(IF own.type.tag = "Function" THEN mem ELSE Freed(mem, blocks))
    ELSE IF buf[meta] >= Len(buf) THEN Refuse(IF own.type.tag = "Function" THEN mem ELSE Freed(mem, blocks))
    ELSE IF IsError(member.type) THEN Refuse(Freed(member.mem, blocks))
    ELSE ReadMembers(buf, own, Append(types, member.type), member.mem, known)

read_type(buf, at, mem, known) ==
    IF at >= Len(buf) THEN Refuse(mem)
    ELSE LET own == ReadOwn(buf, at, mem) IN
         IF ~own.ok THEN Refuse(own.mem)
         ELSE CASE own.type.tag \in SingleTags -> ReadSingle(buf, own, known)
                [] own.type.tag \in SeveralTags -> ReadMembers(buf, own, <<>>, own.mem, known)
                [] own.type.tag \in LeafTags ->
                      IF CanAllocate(own.mem, 1) THEN ReadType(own.type, Allocated(own.mem, 1))
                      ELSE Refuse(Freed(own.mem, own.blocks))
                [] OTHER -> ReadType(own.type, own.mem)

ndt_deserialize(buf, mem, known) == read_type(buf, 0, mem, known)
=============================================================================
