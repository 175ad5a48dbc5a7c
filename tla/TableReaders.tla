---------------------------- MODULE TableReaders -----------------------------
(***************************************************************************)
(* The readers of DudeDatabase, GetServerConfigData to GetPanelElementData.*)
(* Each asks the parser for the members of its table, one call after the   *)
(* other, and looks at no answer: a member that is not there keeps its     *)
(* default, and the next call starts wherever the last one left the cursor.*)
(* What the readers differ in is the list of members, in DudeTables.       *)
(***************************************************************************)
EXTENDS FieldReads

\* What one call of a reader adds to the object: the member it fills is known
\* by its number, the offset of the header it was read from, and how much of
\* it was read.  A header alone is none: nothing looks at the info of a member
\* again.
Taken(n, o, out) ==
  IF out.filled \in {"untouched", "header"} THEN {}
  ELSE {[member |-> n, at |-> o, filled |-> out.filled]}

\* A reader whose cursor is at o: from[n][p] is what it takes from its n-th
\* call on when the cursor is at p by then.
ReadMembers(b, o, fields) ==
  LET from[n \in 1..(Len(fields) + 1)] ==
        [p \in 0..Len(b) |->
          IF n > Len(fields) THEN {}
          ELSE LET out == ReadField(b, TRUE, p, fields[n].kind, fields[n].id)
               IN Taken(n, p, out) \cup from[n + 1][out.offset]]
  IN from[1][o]

\* A plausible slip: four bytes are taken whatever the type.
ObjectIdWide(b, taken, fields) ==
  LET ids == {t \in taken : fields[t.member].id = FieldId.SysId}
      at  == (CHOOSE t \in ids : TRUE).at + HeaderSize
  IN IF ids = {} THEN <<0, 0, 0, 0>> ELSE SubSeq(b, at + 1, at + 4)

\* object_id.value as an unsigned number of four bytes.  The one byte of a
\* Byte goes into the lowest of them; without the member it stays zero.
ObjectId(b, taken, fields) ==
  LET ids == {t \in taken : fields[t.member].id = FieldId.SysId}
      at  == (CHOOSE t \in ids : TRUE).at + HeaderSize
  IN IF ids = {} THEN <<0, 0, 0, 0>>
     ELSE IF TypeAt(b, at - HeaderSize) = FieldType.Byte THEN <<U8(b, at), 0, 0, 0>>
     ELSE SubSeq(b, at + 1, at + 4)
=============================================================================
