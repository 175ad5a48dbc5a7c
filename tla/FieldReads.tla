----------------------------- MODULE FieldReads ------------------------------
(***************************************************************************)
(* What one call of DudeFieldParser computes, as a function of the blob,   *)
(* of whether the blob passed the constructor, and of the cursor.  The     *)
(* module DudeFieldParser turns these into a state machine, the module     *)
(* DudeDatabase chains them into the readers of the tables.                *)
(*                                                                         *)
(* The content of a field is not copied: a field that was read is known by *)
(* the offset of its header.  "filled" says what the call left in the      *)
(* field it was given: nothing, the header at the cursor over the one that *)
(* was in its info, with it a part of the value (a count without the data  *)
(* it counts), or the whole.                                               *)
(***************************************************************************)
EXTENDS DudeTypes

\* The bounds check of ReadData.  Every size the parser asks for is counted
\* in a std::size_t, so the sum does not wrap.
Fits(b, o, n) == o + n <= Len(b)

Filled == {"untouched", "header", "partly", "whole"}

Outcome(result, offset, filled) ==
  [result |-> result, offset |-> offset, filled |-> filled]

\* A plausible slip: an identifier stored as None answers to nobody but None.
ReadFieldInfoStrict(b, valid, o, id) ==
  IF ~valid                             THEN "Corrupted"
  ELSE IF ~Fits(b, o, HeaderSize)       THEN "EndOfFile"
  ELSE IF TypeAt(b, o) \notin FieldTypes THEN "InvalidFieldType"
  ELSE IF IdAt(b, o) # id               THEN "FieldIdMismatch"
  ELSE "Success"

\* A plausible slip: the blob the constructor refused is read all the same.
ReadFieldInfoUnguarded(b, valid, o, id) ==
  IF ~Fits(b, o, HeaderSize)                   THEN "EndOfFile"
  ELSE IF TypeAt(b, o) \notin FieldTypes       THEN "InvalidFieldType"
  ELSE IF IdAt(b, o) \notin {FieldId.None, id} THEN "FieldIdMismatch"
  ELSE "Success"

\* ReadFieldInfo with its ValidataFieldInfo: the type is looked at first, and
\* a field stored without an identifier answers to every identifier.
ReadFieldInfo(b, valid, o, id) ==
  CASE ~valid                                         -> "Corrupted"
    [] valid /\ ~Fits(b, o, HeaderSize)               -> "EndOfFile"
    [] valid /\ Fits(b, o, HeaderSize) ->
         IF TypeAt(b, o) \notin FieldTypes            THEN "InvalidFieldType"
         ELSE IF IdAt(b, o) \notin {FieldId.None, id} THEN "FieldIdMismatch"
         ELSE "Success"

\* ReadFieldInfo copies the header into the caller's info before it looks at
\* it: what is left there when it answers so.
InfoFilled(header) ==
  IF header \in {"Corrupted", "EndOfFile"} THEN "untouched" ELSE "header"

\* The overloads of ReadField, by the field they fill; IpArrayField and
\* FontField inherit from IntArrayField and LongArrayField and use theirs.
Kinds == {"Bool", "Byte", "Int", "Time", "Long", "LongLong", "Text",
          "IntArray", "LongArray", "Mac", "StringArray"}

\* The types each overload takes.
Accepts ==
  [ Bool        |-> {FieldType.BoolFalse, FieldType.BoolTrue},
    Byte        |-> {FieldType.Byte},
    Int         |-> {FieldType.Int, FieldType.Byte},
    Time        |-> {FieldType.Int},
    Long        |-> {FieldType.Long},
    LongLong    |-> {FieldType.LongLong},
    Text        |-> {FieldType.ShortString, FieldType.LongString},
    IntArray    |-> {FieldType.IntArray},
    LongArray   |-> {FieldType.LongArray},
    Mac         |-> {FieldType.LongArray},
    StringArray |-> {FieldType.StringArray} ]

\* A plausible slip: no branch sends the cursor back.
TypeMismatchUnrestored(b, o, kind) ==
  Outcome("FieldTypeMismatch", o + HeaderSize, "header")

\* A type that is not accepted sends the cursor back to the header, except in
\* the branch of IntField for a Long, which only warns.
TypeMismatch(b, o, kind) ==
  Outcome("FieldTypeMismatch",
          IF kind = "Int" /\ TypeAt(b, o) = FieldType.Long THEN o + HeaderSize ELSE o,
          "header")

\* A plausible slip: a Long takes the four bytes of an Int.
FixedSizeShortLong(t) ==
  CASE t \in {FieldType.BoolFalse, FieldType.BoolTrue} -> 0
    [] t = FieldType.Byte                      -> 1
    [] t \in {FieldType.Int, FieldType.Long}   -> 4
    [] t = FieldType.LongLong                  -> 16

\* The bytes a fixed size payload takes.
FixedSize(t) ==
  CASE t \in {FieldType.BoolFalse, FieldType.BoolTrue} -> 0
    [] t = FieldType.Byte     -> 1
    [] t = FieldType.Int      -> 4
    [] t = FieldType.Long     -> 8
    [] t = FieldType.LongLong -> 16

\* A plausible slip: the payload is copied without a look at the end of the blob.
ReadFixedUnchecked(b, o) ==
  Outcome("Success", o + HeaderSize + FixedSize(TypeAt(b, o)), "whole")

\* A fixed size payload: the result of its ReadData is the result of the
\* call, so a payload that is cut off leaves the cursor behind the header.
ReadFixed(b, o) ==
  LET p == o + HeaderSize
      n == FixedSize(TypeAt(b, o))
  IN IF Fits(b, p, n) THEN Outcome("Success", p + n, "whole")
     ELSE Outcome("EndOfFile", p, "header")

\* A plausible slip: an address list is refused after its count, whatever its size.
ReadCountedEarly(b, o, kind, c, unit) ==
  LET p == o + HeaderSize
      n == unit * (IF c = 1 THEN U8(b, p) ELSE U16(b, p))
  IN IF ~Fits(b, p, c)              THEN Outcome("EndOfFile", o, "header")
     ELSE IF kind = "Mac"           THEN Outcome("InvalidFieldArguments", o, "partly")
     ELSE IF ~Fits(b, p + c, n)     THEN Outcome("EndOfFile", o, "partly")
     ELSE Outcome("Success", p + c + n, "whole")

\* A count of c bytes and as many units: the count is stored in the field
\* before the units are there, and any failure sends the cursor back.  The
\* address vector of a count below six is empty, which ReadData refuses.
ReadCounted(b, o, kind, c, unit) ==
  LET p == o + HeaderSize
      n == unit * (IF c = 1 THEN U8(b, p) ELSE U16(b, p))
  IN IF ~Fits(b, p, c)                 THEN Outcome("EndOfFile", o, "header")
     ELSE IF kind = "Mac" /\ n \in 1..5 THEN Outcome("InvalidFieldArguments", o, "partly")
     ELSE IF ~Fits(b, p + c, n)        THEN Outcome("EndOfFile", o, "partly")
     ELSE Outcome("Success", p + c + n, "whole")

\* One turn of the loop over the strings of an array: where it leaves the
\* cursor, or an offset behind the blob when one of its two reads fails.
EntryEnd(b, q) ==
  IF Fits(b, q, 2) /\ Fits(b, q + 2, U16(b, q)) THEN q + 2 + U16(b, q)
  ELSE Len(b) + 1

EntriesEnd(b, p, n) ==
  LET end[i \in 0..n] == IF i = 0 THEN p ELSE EntryEnd(b, end[i - 1])
  IN end[n]

ReadStrings(b, o) ==
  LET p == o + HeaderSize
      e == EntriesEnd(b, p + 2, U16(b, p))
  IN IF ~Fits(b, p, 2)    THEN Outcome("EndOfFile", o, "header")
     ELSE IF e > Len(b)   THEN Outcome("EndOfFile", o, "partly")
     ELSE Outcome("Success", e, "whole")

\* The payload of a field whose type the overload takes.
ReadPayload(b, o, kind) ==
  CASE kind \in {"Bool", "Byte", "Int", "Time", "Long", "LongLong"} -> ReadFixed(b, o)
    [] kind = "Text" ->
         ReadCounted(b, o, kind, IF TypeAt(b, o) = FieldType.ShortString THEN 1 ELSE 2, 1)
    [] kind = "IntArray"            -> ReadCounted(b, o, kind, 2, 4)
    [] kind \in {"LongArray", "Mac"} -> ReadCounted(b, o, kind, 1, 1)
    [] kind = "StringArray"         -> ReadStrings(b, o)

ReadField(b, valid, o, kind, id) ==
  LET header == ReadFieldInfo(b, valid, o, id)
  IN IF header # "Success"                   THEN Outcome(header, o, InfoFilled(header))
     ELSE IF TypeAt(b, o) \notin Accepts[kind] THEN TypeMismatch(b, o, kind)
     ELSE ReadPayload(b, o, kind)

\* The overload SkipField chooses for a type.
SkipKind(t) ==
  CASE t \in {FieldType.BoolFalse, FieldType.BoolTrue}         -> "Bool"
    [] t \in {FieldType.Int, FieldType.Byte}                   -> "Int"
    [] t = FieldType.Long                                      -> "Long"
    [] t = FieldType.LongLong                                  -> "LongLong"
    [] t \in {FieldType.LongString, FieldType.ShortString}     -> "Text"
    [] t = FieldType.LongArray                                 -> "LongArray"
    [] t = FieldType.IntArray                                  -> "IntArray"
    [] t = FieldType.StringArray                               -> "StringArray"

\* SkipField: look at the header with the identifier None, come back, and
\* read the field with the identifier None, into a field of its own.
SkipField(b, valid, o) ==
  LET header == ReadFieldInfo(b, valid, o, FieldId.None)
  IN IF header # "Success" THEN Outcome(header, o, InfoFilled(header))
     ELSE ReadField(b, valid, o, SkipKind(TypeAt(b, o)), FieldId.None)

\* Reset: the magic, then the field with the data formats, which must name at
\* least one.  Until it returns the blob counts as valid.
MagicSize == 2

Reset(b) ==
  LET format == ReadField(b, TRUE, MagicSize, "IntArray", FieldId.DataFormat)
  IN IF ~Fits(b, 0, MagicSize) THEN [is_data_valid |-> FALSE, offset |-> 0]
     ELSE [is_data_valid |-> format.result = "Success"
                             /\ U16(b, MagicSize + HeaderSize) > 0,
           offset        |-> format.offset]

\* GetMainFormat: the four bytes of the first data format; DataFormat::None
\* for a blob the constructor refused.
GetMainFormat(b, valid) ==
  IF valid THEN SubSeq(b, MagicSize + HeaderSize + 3, MagicSize + HeaderSize + 6)
  ELSE <<0, 0, 0, 0>>
=============================================================================
