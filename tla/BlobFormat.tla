----------------------------- MODULE BlobFormat ------------------------------
(***************************************************************************)
(* What a row of the table "objs" looks like, taken from the pattern file  *)
(* the repository ships for a hex editor (imhex.pattern) and independent   *)
(* of the parser's code: a two byte magic, then fields one after another,  *)
(* each a four byte header and a payload whose length its type decides.    *)
(* The parser is checked and proved against these definitions.             *)
(***************************************************************************)
EXTENDS DudeTypes

\* Where the string at q of a string array ends, and where the last of n of
\* them does.  The end may lie behind the blob's; a string whose count is
\* missing ends there.
StringEnd(b, q) == IF q + 2 > Len(b) THEN Len(b) + 1 ELSE q + 2 + U16(b, q)

StringsEnd(b, p, n) ==
  LET end[i \in 0..n] == IF i = 0 THEN p ELSE StringEnd(b, end[i - 1])
  IN end[n]

\* Where the payload at p of a field of type t ends, when it has a count of
\* c bytes followed by that many units.
CountedEnd(b, p, c, unit) ==
  IF p + c > Len(b) THEN Len(b) + 1
  ELSE p + c + unit * (IF c = 1 THEN U8(b, p) ELSE U16(b, p))

PayloadEnd(b, p, t) ==
  CASE t \in {FieldType.BoolFalse, FieldType.BoolTrue}         -> p
    [] t = FieldType.Byte                                      -> p + 1
    [] t = FieldType.Int                                       -> p + 4
    [] t = FieldType.Long                                      -> p + 8
    [] t = FieldType.LongLong                                  -> p + 16
    [] t \in {FieldType.ShortString, FieldType.LongArray}      -> CountedEnd(b, p, 1, 1)
    [] t = FieldType.LongString                                -> CountedEnd(b, p, 2, 1)
    [] t = FieldType.IntArray                                  -> CountedEnd(b, p, 2, 4)
    [] t = FieldType.StringArray ->
         IF p + 2 > Len(b) THEN Len(b) + 1 ELSE StringsEnd(b, p + 2, U16(b, p))

\* There is a header at offset s and it names a type of the format.
HeaderThere(b, s) == s + HeaderSize <= Len(b) /\ TypeAt(b, s) \in FieldTypes

FieldEnd(b, s) == PayloadEnd(b, s + HeaderSize, TypeAt(b, s))

\* The whole of the field at offset s is there.
FieldThere(b, s) == HeaderThere(b, s) /\ FieldEnd(b, s) <= Len(b)

\* The types of a field that hold what a caller may ask for, from the comments
\* beside the fields in the pattern file.
HeldIn ==
  [ Bool |-> {FieldType.BoolFalse, FieldType.BoolTrue}, Byte |-> {FieldType.Byte},
    Int |-> {FieldType.Int, FieldType.Byte}, Time |-> {FieldType.Int},
    Long |-> {FieldType.Long}, LongLong |-> {FieldType.LongLong},
    Text |-> {FieldType.ShortString, FieldType.LongString},
    IntArray |-> {FieldType.IntArray}, LongArray |-> {FieldType.LongArray},
    Mac |-> {FieldType.LongArray}, StringArray |-> {FieldType.StringArray} ]

\* The field at s is one a caller asking for id and kind should get: whole,
\* under that identifier or none, of a type that holds the kind, and, for a
\* list of addresses, empty or long enough for one.
Readable(b, s, kind, id) ==
  /\ FieldThere(b, s)
  /\ IdAt(b, s) \in {FieldId.None, id}
  /\ TypeAt(b, s) \in HeldIn[kind]
  /\ kind = "Mac" => U8(b, s + HeaderSize) \notin 1..5

\* The field at s is one asked for as that kind under that identifier, but the
\* end of the blob cuts it off, or it is a list too short for an address.
CutShort(b, s, kind, id) ==
  /\ IdAt(b, s) \in {FieldId.None, id}
  /\ TypeAt(b, s) \in HeldIn[kind]
  /\ \/ FieldEnd(b, s) > Len(b)
     \/ kind = "Mac" /\ U8(b, s + HeaderSize) \in 1..5

\* The types of a field whose length no count gives.
FixedTypes == {FieldType.BoolFalse, FieldType.BoolTrue, FieldType.Byte,
               FieldType.Int, FieldType.Long, FieldType.LongLong}

\* Asked for as that kind under that identifier, the field at s is one whose
\* header is passed and whose payload is not: a Long asked for as an Int, or a
\* payload of fixed size the end of the blob cuts off.
HeaderLost(b, s, kind, id) ==
  /\ HeaderThere(b, s)
  /\ IdAt(b, s) \in {FieldId.None, id}
  /\ \/ kind = "Int" /\ TypeAt(b, s) = FieldType.Long
     \/ TypeAt(b, s) \in HeldIn[kind] \cap FixedTypes /\ ~FieldThere(b, s)
=============================================================================
