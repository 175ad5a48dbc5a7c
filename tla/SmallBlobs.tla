------------------------------ MODULE SmallBlobs -----------------------------
(***************************************************************************)
(* Blobs to check the parser and the readers with, put together field by   *)
(* field.                                                                  *)
(***************************************************************************)
EXTENDS DudeTypes, SequencesExt

Filler(n, byte) == [i \in 1..n |-> byte]

Field(id, type, payload) ==
  <<id % 256, (id \div 256) % 256, id \div 65536, type>> \o payload

\* The field with the data formats.
Format(entries) ==
  Field(FieldId.DataFormat, FieldType.IntArray,
        <<Len(entries), 0>> \o FlattenSeq([i \in 1..Len(entries) |-> <<entries[i], 0, 0, 0>>]))

\* The magic and the fields.
BytesOf(fields) == <<77, 50>> \o FlattenSeq(fields)
=============================================================================
