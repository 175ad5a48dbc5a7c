------------------------------ MODULE RowFormat ------------------------------
(***************************************************************************)
(* What a row of "objs" holds for a table, from the format alone: the      *)
(* fields one behind the other, and the members of the table in the order  *)
(* in which the format stores them (the structures of imhex.pattern).      *)
(* The readers of the tables are checked against these definitions.        *)
(*                                                                         *)
(* A table is a record of its data format, as four bytes, and its fields,  *)
(* a sequence of [kind, id].  A row is a record of its identifier, as four *)
(* bytes, and its blob.                                                    *)
(***************************************************************************)
EXTENDS BlobFormat

\* Behind the magic stands the field with the data formats.
FirstField == 2

FormatThere(b) ==
  /\ FirstField <= Len(b)
  /\ Readable(b, FirstField, "IntArray", FieldId.DataFormat)
  /\ U16(b, FirstField + HeaderSize) > 0

\* The four bytes of the first data format.
FormatOf(b) == SubSeq(b, FirstField + HeaderSize + 3, FirstField + HeaderSize + 6)

\* Where the n-th field behind the data formats begins, counted from zero,
\* if all the fields before it are there.
Start(b, n) ==
  LET next     == [s \in 0..Len(b) |-> FieldEnd(b, s)]
      start[i \in 0..n] == next[IF i = 0 THEN FirstField ELSE start[i - 1]]
  IN start[n]

\* The member of a table whose identifier the field at s has.
MemberAt(b, s, fields) == CHOOSE m \in DOMAIN fields : fields[m].id = IdAt(b, s)

\* The field at s is a member of the table: whole, under the identifier of
\* the member and of its kind.
Belongs(b, s, fields) ==
  /\ HeaderThere(b, s)
  /\ \E m \in DOMAIN fields :
       /\ fields[m].id = IdAt(b, s)
       /\ Readable(b, s, fields[m].kind, fields[m].id)

\* The first k fields are members of the table in the order of the table.
InOrder(b, fields, k) ==
  /\ \A i \in 0..(k - 1) : Belongs(b, Start(b, i), fields)
  /\ \A i \in 1..(k - 1) :
       MemberAt(b, Start(b, i - 1), fields) < MemberAt(b, Start(b, i), fields)

\* What follows them is none of the members that may still come: the blob
\* ends, or goes on with something that is no field or has another identifier.
NoneFollows(b, fields, k) ==
  HeaderThere(b, Start(b, k)) =>
    /\ IdAt(b, Start(b, k)) # FieldId.None
    /\ \A m \in DOMAIN fields :
         fields[m].id = IdAt(b, Start(b, k)) =>
           k > 0 /\ m <= MemberAt(b, Start(b, k - 1), fields)

\* A blob with k fields a reader of the table can tell apart.
PlainUpTo(b, fields, k) ==
  FormatThere(b) /\ InOrder(b, fields, k) /\ NoneFollows(b, fields, k)

\* The members such a blob gives the table, each with the header it has.
MembersOf(b, fields, k) ==
  {[member |-> MemberAt(b, Start(b, i), fields), at |-> Start(b, i), filled |-> "whole"] :
     i \in 0..(k - 1)}

\* The number the blob gives as the identifier of its object, in four bytes,
\* of which a Byte has only the lowest; zero if it gives none.
IdentifierOf(b, k) ==
  LET ids == {i \in 0..(k - 1) : IdAt(b, Start(b, i)) = FieldId.SysId}
      at  == Start(b, CHOOSE i \in ids : TRUE) + HeaderSize
  IN IF ids = {} THEN <<0, 0, 0, 0>>
     ELSE IF FieldEnd(b, at - HeaderSize) = at + 1 THEN <<b[at + 1], 0, 0, 0>>
     ELSE <<b[at + 1], b[at + 2], b[at + 3], b[at + 4]>>
=============================================================================
