--------------------------- MODULE DudeFieldParser ---------------------------
(***************************************************************************)
(* The class DudeFieldParser: a cursor over one blob that any sequence of  *)
(* calls on its public interface may move.  The blob never changes; a call *)
(* either takes the field the cursor stands at, or fails and should leave  *)
(* the cursor where it was, so that the caller may ask for another field.  *)
(* The readers of the tables depend on that: they ask for the fields of a  *)
(* table in order and ignore what each call answers.                       *)
(***************************************************************************)
EXTENDS FieldReads, BlobFormat

CONSTANTS
  Blobs,    \* the blobs, each with the offsets at which its fields begin or end
  Ids       \* the identifiers a caller asks for

\* A field that is there ends where the next one begins.
ASSUME BlobsAssumption ==
  \A blob \in Blobs :
    /\ blob.bytes \in Bytes
    /\ blob.starts \subseteq 0..Len(blob.bytes)
    /\ MagicSize <= Len(blob.bytes) => MagicSize \in blob.starts
    /\ \A s \in blob.starts :
         FieldThere(blob.bytes, s) => FieldEnd(blob.bytes, s) \in blob.starts

ASSUME IdsAssumption == Ids \subseteq Nat

VARIABLES
  raw_data,         \* the bytes of the row
  offset,           \* the cursor
  previous_offset,  \* where SaveOffset last put it aside
  is_data_valid,    \* the blob passed the constructor
  starts,           \* auxiliary: the offsets at which fields begin or end
  call,             \* auxiliary: the last call and what it answered
  slipped           \* auxiliary: a call since Reset failed and moved the cursor

vars == <<raw_data, offset, previous_offset, is_data_valid, starts, call, slipped>>

Ops == {"Reset", "ReadField", "GetFieldInfo", "SkipField"}

Answer(op, kind, id, out) ==
  [op |-> op, kind |-> kind, id |-> id, result |-> out.result, filled |-> out.filled]

\* Reset answers nothing; whether the blob is valid stands in for a result.
ResetAnswer(opened) ==
  Answer("Reset", "IntArray", FieldId.DataFormat,
         Outcome(IF opened.is_data_valid THEN "Success" ELSE "Corrupted",
                 opened.offset, "untouched"))

\* The constructor.  previous_offset is not initialised: a blob too short for
\* a magic leaves whatever was there, zero or an offset behind the blob.
Init ==
  \E blob \in Blobs :
    LET opened == Reset(blob.bytes)
    IN /\ raw_data = blob.bytes
       /\ starts = blob.starts
       /\ offset = opened.offset
       /\ is_data_valid = opened.is_data_valid
       /\ previous_offset \in IF Fits(raw_data, 0, MagicSize) THEN {MagicSize}
                              ELSE {0, Len(raw_data) + 1}
       /\ call = ResetAnswer(opened)
       /\ slipped = FALSE

ResetParser ==
  LET opened == Reset(raw_data)
  IN /\ offset' = opened.offset
     /\ is_data_valid' = opened.is_data_valid
     /\ previous_offset' = IF Fits(raw_data, 0, MagicSize) THEN MagicSize
                           ELSE previous_offset
     /\ call' = ResetAnswer(opened)
     /\ slipped' = FALSE
     /\ UNCHANGED <<raw_data, starts>>

\* A plausible slip: the cursor is not put aside, and a failure goes back to where an
\* earlier call, or Reset, put it.
ReturnUnsaved(op, kind, id, out) ==
  /\ previous_offset' = previous_offset
  /\ offset' = IF out.result = "Success" THEN out.offset ELSE previous_offset
  /\ slipped' = (slipped \/ (out.result # "Success" /\ out.offset # offset))
  /\ call' = Answer(op, kind, id, out)
  /\ UNCHANGED <<raw_data, starts, is_data_valid>>

\* Every other call goes through ReadFieldInfo, which first puts the cursor
\* aside, and ends with the outcome the module FieldReads computes.
Return(op, kind, id, out) ==
  /\ previous_offset' = offset
  /\ offset' = out.offset
  /\ slipped' = (slipped \/ (out.result # "Success" /\ out.offset # offset))
  /\ call' = Answer(op, kind, id, out)
  /\ UNCHANGED <<raw_data, starts, is_data_valid>>

CallReadField(kind, id) ==
  Return("ReadField", kind, id, ReadField(raw_data, is_data_valid, offset, kind, id))

\* GetFieldInfo comes back to where ReadFieldInfo put the cursor aside, with
\* the header in the caller's info.
CallGetFieldInfo ==
  LET header == ReadFieldInfo(raw_data, is_data_valid, offset, FieldId.None)
  IN Return("GetFieldInfo", "Bool", FieldId.None, Outcome(header, offset, InfoFilled(header)))

CallSkipField ==
  Return("SkipField", "Bool", FieldId.None, SkipField(raw_data, is_data_valid, offset))

Next ==
  \/ ResetParser
  \/ \E kind \in Kinds, id \in Ids : CallReadField(kind, id)
  \/ CallGetFieldInfo
  \/ CallSkipField

Spec == Init /\ [][Next]_vars
-----------------------------------------------------------------------------
\* The type invariant; its heart is that no sequence of calls takes the cursor
\* out of the blob (the unchecked pointer arithmetic of ReadData).
TypeOK ==
  /\ raw_data \in Bytes
  /\ starts \subseteq 0..Len(raw_data)
  /\ offset \in 0..Len(raw_data)
  /\ previous_offset \in 0..(Len(raw_data) + 1)
  /\ is_data_valid \in BOOLEAN
  /\ slipped \in BOOLEAN
  /\ call \in [op : Ops, kind : Kinds, id : Int, result : ParserResult,
               filled : Filled]

\* The cursor of a valid blob stands between two fields unless a failed call
\* has moved it: no successful call ever takes payload bytes for a header.
CursorAligned == (is_data_valid /\ ~slipped) => offset \in starts

\* A call of ReadField succeeds exactly when the format says that the field at
\* the cursor is there, whole, under that identifier and of such a type, and
\* then stops at the end the format gives the field.
ReadsWhatIsThere ==
  [][ (call'.op = "ReadField" /\ is_data_valid) =>
        /\ call'.result = "Success" <=> Readable(raw_data, offset, call'.kind, call'.id)
        /\ call'.result = "Success" => offset' = FieldEnd(raw_data, offset) ]_vars

\* No call but Reset moves the cursor backwards, not even to an offset put
\* aside by an earlier call.
ForwardOnly == [][ call'.op # "Reset" => offset' >= offset ]_vars

\* A failed call leaves the cursor where it was, but for a Long asked for as
\* an Int and for a payload the end of the blob cuts off.
FailedCallKeepsCursor ==
  [][ (call'.op # "Reset" /\ call'.result # "Success") =>
        \/ offset' = offset
        \/ call'.kind = "Int" /\ TypeAt(raw_data, offset) = FieldType.Long
        \/ ~FieldThere(raw_data, offset) ]_vars

\* What a failed ReadField leaves in the caller's field: the header the cursor
\* stood at is in its info whenever the blob is valid and has one there, even
\* if it is that of another field; its value is the old one unless the field
\* is the one that was asked for and the end of the blob cuts it off, or it is
\* an address list too short for one address.
FailureLeavesValue ==
  [][ (call'.op = "ReadField" /\ call'.result # "Success") =>
        /\ call'.filled # "untouched" <=>
             is_data_valid /\ offset + HeaderSize <= Len(raw_data)
        /\ call'.filled \notin {"untouched", "header"} =>
             call'.filled = "partly" /\ CutShort(raw_data, offset, call'.kind, call'.id) ]_vars

\* A blob the constructor refused stays refused: nothing is read from it, and
\* no Reset makes it valid.
RefusedForGood ==
  [][ ~is_data_valid => (call'.result # "Success" /\ ~is_data_valid') ]_vars

\* dude_field_parser.h: "If field type or id is mismatched stays in the same
\* location."  An Int asked for where a Long is stored moves the cursor.
MismatchStays ==
  [][ call'.result \in {"FieldTypeMismatch", "FieldIdMismatch"} => offset' = offset ]_vars
=============================================================================
