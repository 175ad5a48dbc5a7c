------------------------------ MODULE DudeTypes ------------------------------
(***************************************************************************)
(* The vocabulary the database modules share: the wire codes of the field  *)
(* types, the field identifiers that have a meaning of their own, the      *)
(* results of the field parser, and how little-endian numbers lie in a     *)
(* blob.  A blob is a sequence of bytes; an offset is the number of bytes  *)
(* before a position, so the byte at offset o is b[o + 1].                 *)
(***************************************************************************)
EXTENDS Integers, Sequences

Byte == 0..255

Bytes == Seq(Byte)

\* The type byte of a field header.
FieldType == [ BoolFalse |-> 0,   BoolTrue |-> 1,     Int |-> 8,
               Byte |-> 9,        Long |-> 16,        LongLong |-> 24,
               LongString |-> 32, ShortString |-> 33, LongArray |-> 49,
               IntArray |-> 136,  StringArray |-> 160 ]

FieldTypes == {0, 1, 8, 9, 16, 24, 32, 33, 49, 136, 160}

\* The identifiers every table shares; all others belong to one table.
FieldId == [ None |-> 0, SysId |-> 16646145, SysName |-> 16646160,
             DataFormat |-> 16711681 ]

ParserResult == {"Success", "Corrupted", "FieldTypeMismatch",
                 "FieldIdMismatch", "InvalidFieldType",
                 "InvalidFieldArguments", "EndOfFile"}

\* The size of a field header: 24 bits of identifier and 8 bits of type.
HeaderSize == 4

U8(b, o)  == b[o + 1]
U16(b, o) == b[o + 1] + 256 * b[o + 2]
U24(b, o) == b[o + 1] + 256 * b[o + 2] + 65536 * b[o + 3]

IdAt(b, o)   == U24(b, o)
TypeAt(b, o) == b[o + 4]
=============================================================================
