------------------------ MODULE DudeFieldParserProofs ------------------------
(***************************************************************************)
(* Proofs about the field parser, for every set of blobs and identifiers.  *)
(* The module FieldReadsProofs says what one call computes; the theorems   *)
(* lift that to every sequence of calls.                                   *)
(***************************************************************************)
EXTENDS DudeFieldParser, FieldReadsProofs

-----------------------------------------------------------------------------
(* Every sequence of calls.                                                *)

\* The parser keeps the blob it was built on, with the offsets at which its
\* fields begin or end, and the verdict of its constructor.
BlobKept ==
  /\ \A s \in starts : FieldThere(raw_data, s) => FieldEnd(raw_data, s) \in starts
  /\ MagicSize <= Len(raw_data) => MagicSize \in starts
  /\ is_data_valid = Reset(raw_data).is_data_valid

IInv == TypeOK /\ CursorAligned /\ BlobKept

LEMMA InitInvariant == Init => IInv
<1> SUFFICES ASSUME Init
             PROVE  IInv
  OBVIOUS
<1>1. PICK blob \in Blobs :
        /\ raw_data = blob.bytes
        /\ starts = blob.starts
        /\ offset = Reset(blob.bytes).offset
        /\ is_data_valid = Reset(blob.bytes).is_data_valid
        /\ previous_offset \in IF Fits(raw_data, 0, MagicSize) THEN {MagicSize}
                               ELSE {0, Len(raw_data) + 1}
        /\ call = ResetAnswer(Reset(blob.bytes))
        /\ slipped = FALSE
  BY DEF Init
<1>2. /\ raw_data \in Bytes
      /\ starts \subseteq 0..Len(raw_data)
      /\ MagicSize <= Len(raw_data) => MagicSize \in starts
      /\ \A s \in starts : FieldThere(raw_data, s) => FieldEnd(raw_data, s) \in starts
  BY <1>1, BlobsAssumption
<1>3. Len(raw_data) \in Nat
  BY <1>2, LengthIsNat
<1>4. /\ is_data_valid \in BOOLEAN
      /\ offset \in 0..Len(raw_data)
      /\ is_data_valid => /\ MagicSize <= Len(raw_data)
                          /\ FieldThere(raw_data, MagicSize)
                          /\ offset = FieldEnd(raw_data, MagicSize)
  BY <1>1, <1>2, ResetIsGood
<1>5. previous_offset \in 0..(Len(raw_data) + 1)
  BY <1>1, <1>3 DEF Fits, MagicSize
<1>6. call \in [op : Ops, kind : Kinds, id : Int, result : ParserResult,
                filled : Filled]
  BY <1>1 DEF ResetAnswer, Answer, Outcome, Ops, Kinds, ParserResult, FieldId, Filled
<1>7. TypeOK
  BY <1>1, <1>2, <1>4, <1>5, <1>6 DEF TypeOK
<1>8. CursorAligned
  BY <1>2, <1>4 DEF CursorAligned
<1>9. BlobKept
  BY <1>1, <1>2 DEF BlobKept
<1> QED
  BY <1>7, <1>8, <1>9 DEF IInv

\* What one step does, given the invariant: every action property of the
\* parser and the invariant itself follow from it.
GoodReturn ==
  /\ offset <= offset'
  /\ offset' \in 0..Len(raw_data)
  /\ previous_offset' = offset
  /\ call'.result = "Success" =>
       is_data_valid /\ (offset' # offset => FieldThere(raw_data, offset))
                     /\ (offset' # offset => offset' = FieldEnd(raw_data, offset))
  /\ slipped' = (slipped \/ (call'.result # "Success" /\ offset' # offset))
  /\ call' \in [op : Ops, kind : Kinds, id : Int, result : ParserResult,
                filled : Filled]
  /\ call'.op # "Reset"
  /\ call'.result # "Success" =>
       \/ offset' = offset
       \/ call'.kind = "Int" /\ TypeAt(raw_data, offset) = FieldType.Long
       \/ ~FieldThere(raw_data, offset)
  /\ call'.op = "ReadField" =>
       /\ (call'.filled # "untouched") <=>
            (is_data_valid /\ offset + HeaderSize <= Len(raw_data))
       /\ call'.filled = "partly" => CutShort(raw_data, offset, call'.kind, call'.id)
       /\ call'.filled = "whole" => call'.result = "Success"
  /\ (call'.op = "ReadField" /\ is_data_valid) =>
       /\ call'.result = "Success" <=> Readable(raw_data, offset, call'.kind, call'.id)
       /\ call'.result = "Success" => offset' = FieldEnd(raw_data, offset)
  /\ UNCHANGED <<raw_data, starts, is_data_valid>>

\* A record of the type invariant's shape, for the three calls below.
LEMMA AnswerTyped ==
  ASSUME NEW op \in Ops, NEW kind \in Kinds, NEW id \in Int, NEW out,
         out.result \in ParserResult, out.filled \in Filled
  PROVE  /\ Answer(op, kind, id, out) \in
              [op : Ops, kind : Kinds, id : Int, result : ParserResult,
               filled : Filled]
         /\ Answer(op, kind, id, out).op = op
         /\ Answer(op, kind, id, out).kind = kind
         /\ Answer(op, kind, id, out).id = id
         /\ Answer(op, kind, id, out).result = out.result
         /\ Answer(op, kind, id, out).filled = out.filled
BY DEF Answer

LEMMA ReadFieldStep ==
  ASSUME IInv, NEW kind \in Kinds, NEW id \in Ids, CallReadField(kind, id)
  PROVE  GoodReturn
<1> DEFINE out == ReadField(raw_data, is_data_valid, offset, kind, id)
<1>1. /\ previous_offset' = offset
      /\ offset' = out.offset
      /\ slipped' = (slipped \/ (out.result # "Success" /\ out.offset # offset))
      /\ call' = Answer("ReadField", kind, id, out)
      /\ UNCHANGED <<raw_data, starts, is_data_valid>>
  BY DEF CallReadField, Return
<1>2. raw_data \in Bytes /\ offset \in 0..Len(raw_data) /\ is_data_valid \in BOOLEAN
  BY DEF IInv, TypeOK
<1>3. Len(raw_data) \in Nat
  BY <1>2, LengthIsNat
<1>4. id \in Int /\ "ReadField" \in Ops
  BY IdsAssumption DEF Ops
<1>5. CASE is_data_valid
  <2>1. GoodRead(out, raw_data, offset, kind, id)
    <3>1. out = ReadField(raw_data, TRUE, offset, kind, id)
      BY <1>5
    <3> QED
      BY <1>2, <3>1, ReadFieldIsGood
  <2> HIDE DEF out
  <2>2. /\ call' \in [op : Ops, kind : Kinds, id : Int, result : ParserResult,
                      filled : Filled]
        /\ call'.op = "ReadField"
        /\ call'.kind = kind
        /\ call'.id = id
        /\ call'.result = out.result
        /\ call'.filled = out.filled
    BY <1>1, <1>4, <2>1, AnswerTyped DEF GoodRead
  <2> QED
    BY <1>1, <1>2, <1>3, <1>5, <2>1, <2>2 DEF GoodRead, GoodReturn, Readable, HeaderLost
<1>6. CASE ~is_data_valid
  <2>1. out = Outcome("Corrupted", offset, "untouched")
    <3>1. out = ReadField(raw_data, FALSE, offset, kind, id)
      BY <1>2, <1>6
    <3> QED
      BY <3>1, RefusedBlob
  <2> HIDE DEF out
  <2>2. out.result = "Corrupted" /\ out.offset = offset /\ out.filled = "untouched"
    BY <2>1 DEF Outcome
  <2>3. /\ call' \in [op : Ops, kind : Kinds, id : Int, result : ParserResult,
                      filled : Filled]
        /\ call'.op = "ReadField"
        /\ call'.result = "Corrupted"
        /\ call'.filled = "untouched"
    BY <1>1, <1>4, <2>2, AnswerTyped DEF ParserResult, Filled
  <2> QED
    BY <1>1, <1>2, <1>3, <1>6, <2>2, <2>3 DEF GoodReturn
<1> QED
  BY <1>2, <1>5, <1>6

LEMMA SkipFieldStep ==
  ASSUME IInv, CallSkipField
  PROVE  GoodReturn
<1> DEFINE out == SkipField(raw_data, is_data_valid, offset)
<1>1. /\ previous_offset' = offset
      /\ offset' = out.offset
      /\ slipped' = (slipped \/ (out.result # "Success" /\ out.offset # offset))
      /\ call' = Answer("SkipField", "Bool", FieldId.None, out)
      /\ UNCHANGED <<raw_data, starts, is_data_valid>>
  BY DEF CallSkipField, Return
<1>2. raw_data \in Bytes /\ offset \in 0..Len(raw_data) /\ is_data_valid \in BOOLEAN
  BY DEF IInv, TypeOK
<1>3. Len(raw_data) \in Nat
  BY <1>2, LengthIsNat
<1>4. FieldId.None \in Int /\ "SkipField" \in Ops /\ "Bool" \in Kinds
  BY DEF FieldId, Ops, Kinds
<1>5. CASE is_data_valid
  <2>1. GoodSkip(out, raw_data, offset)
    <3>1. out = SkipField(raw_data, TRUE, offset)
      BY <1>5
    <3> QED
      BY <1>2, <3>1, SkipFieldIsGood
  <2> HIDE DEF out
  <2>2. /\ call' \in [op : Ops, kind : Kinds, id : Int, result : ParserResult,
                      filled : Filled]
        /\ call'.op = "SkipField"
        /\ call'.result = out.result
        /\ call'.filled = out.filled
    BY <1>1, <1>4, <2>1, AnswerTyped DEF GoodSkip
  <2> QED
    BY <1>1, <1>2, <1>3, <1>5, <2>1, <2>2 DEF GoodSkip, GoodReturn
<1>6. CASE ~is_data_valid
  <2>1. out = Outcome("Corrupted", offset, "untouched")
    <3>1. out = SkipField(raw_data, FALSE, offset)
      BY <1>2, <1>6
    <3> QED
      BY <3>1, RefusedBlob
  <2> HIDE DEF out
  <2>2. out.result = "Corrupted" /\ out.offset = offset /\ out.filled = "untouched"
    BY <2>1 DEF Outcome
  <2>3. /\ call' \in [op : Ops, kind : Kinds, id : Int, result : ParserResult,
                      filled : Filled]
        /\ call'.op = "SkipField"
        /\ call'.result = "Corrupted"
        /\ call'.filled = "untouched"
    BY <1>1, <1>4, <2>2, AnswerTyped DEF ParserResult, Filled
  <2> QED
    BY <1>1, <1>2, <1>3, <1>6, <2>2, <2>3 DEF GoodReturn
<1> QED
  BY <1>2, <1>5, <1>6

LEMMA GetFieldInfoStep ==
  ASSUME IInv, CallGetFieldInfo
  PROVE  GoodReturn
<1> DEFINE header == ReadFieldInfo(raw_data, is_data_valid, offset, FieldId.None)
           out == Outcome(header, offset, InfoFilled(header))
<1>1. /\ previous_offset' = offset
      /\ offset' = out.offset
      /\ slipped' = (slipped \/ (out.result # "Success" /\ out.offset # offset))
      /\ call' = Answer("GetFieldInfo", "Bool", FieldId.None, out)
      /\ UNCHANGED <<raw_data, starts, is_data_valid>>
  BY DEF CallGetFieldInfo, Return
<1>2. raw_data \in Bytes /\ offset \in 0..Len(raw_data) /\ is_data_valid \in BOOLEAN
  BY DEF IInv, TypeOK
<1>3. Len(raw_data) \in Nat
  BY <1>2, LengthIsNat
<1>4. FieldId.None \in Int /\ "GetFieldInfo" \in Ops /\ "Bool" \in Kinds
  BY DEF FieldId, Ops, Kinds
<1>5. header \in ParserResult /\ (header = "Success" => is_data_valid)
  BY <1>2, HeaderResult, RefusedBlob DEF ReadFieldInfo
<1> HIDE DEF header
<1>6. out.result = header /\ out.offset = offset /\ out.filled \in Filled
  BY DEF Outcome, InfoFilled, Filled
<1> HIDE DEF out
<1>7. /\ call' \in [op : Ops, kind : Kinds, id : Int, result : ParserResult,
                    filled : Filled]
      /\ call'.op = "GetFieldInfo"
      /\ call'.result = header
  BY <1>1, <1>4, <1>5, <1>6, AnswerTyped
<1> QED
  BY <1>1, <1>2, <1>3, <1>5, <1>6, <1>7 DEF GoodReturn

\* What Reset does: it goes back to where the constructor stopped.
GoodReset ==
  /\ offset' = Reset(raw_data).offset
  /\ is_data_valid' = Reset(raw_data).is_data_valid
  /\ previous_offset' \in 0..(Len(raw_data) + 1)
  /\ call' \in [op : Ops, kind : Kinds, id : Int, result : ParserResult,
                filled : Filled]
  /\ call'.op = "Reset"
  /\ call'.filled = "untouched"
  /\ call'.result = "Success" <=> Reset(raw_data).is_data_valid
  /\ slipped' = FALSE
  /\ UNCHANGED <<raw_data, starts>>

LEMMA ResetStep ==
  ASSUME IInv, ResetParser
  PROVE  GoodReset
<1> DEFINE opened == Reset(raw_data)
           result == IF opened.is_data_valid THEN "Success" ELSE "Corrupted"
           out == Outcome(result, opened.offset, "untouched")
<1>1. /\ offset' = opened.offset
      /\ is_data_valid' = opened.is_data_valid
      /\ previous_offset' = IF Fits(raw_data, 0, MagicSize) THEN MagicSize
                            ELSE previous_offset
      /\ call' = Answer("Reset", "IntArray", FieldId.DataFormat, out)
      /\ slipped' = FALSE
      /\ UNCHANGED <<raw_data, starts>>
  BY DEF ResetParser, ResetAnswer
<1>2. raw_data \in Bytes /\ Len(raw_data) \in Nat
  BY LengthIsNat DEF IInv, TypeOK
<1>3. FieldId.DataFormat \in Int /\ "Reset" \in Ops /\ "IntArray" \in Kinds
  BY DEF FieldId, Ops, Kinds
<1> HIDE DEF opened
<1>4. result \in ParserResult /\ (result = "Success" <=> opened.is_data_valid)
  BY DEF ParserResult
<1> HIDE DEF result
<1>5. out.result = result /\ out.filled = "untouched"
  BY DEF Outcome
<1> HIDE DEF out
<1>6. /\ call' \in [op : Ops, kind : Kinds, id : Int, result : ParserResult,
                    filled : Filled]
      /\ call'.op = "Reset"
      /\ call'.result = result
      /\ call'.filled = "untouched"
  BY <1>1, <1>3, <1>4, <1>5, AnswerTyped DEF Filled
<1>7. previous_offset \in 0..(Len(raw_data) + 1)
  BY DEF IInv, TypeOK
<1>8. previous_offset' \in 0..(Len(raw_data) + 1)
  BY <1>1, <1>2, <1>7 DEF Fits, MagicSize
<1> QED
  BY <1>1, <1>4, <1>6, <1>8 DEF GoodReset, opened

\* A step is a call that returns well or a Reset.
LEMMA StepIsGood ==
  ASSUME IInv, Next
  PROVE  GoodReturn \/ GoodReset
BY ResetStep, ReadFieldStep, SkipFieldStep, GetFieldInfoStep DEF Next

LEMMA NextInvariant == IInv /\ [Next]_vars => IInv'
<1> SUFFICES ASSUME IInv, [Next]_vars
             PROVE  IInv'
  OBVIOUS
<1>1. /\ raw_data \in Bytes /\ offset \in 0..Len(raw_data)
      /\ starts \subseteq 0..Len(raw_data)
      /\ is_data_valid \in BOOLEAN /\ slipped \in BOOLEAN
  BY DEF IInv, TypeOK
<1>2. Len(raw_data) \in Nat
  BY <1>1, LengthIsNat
<1>3. CASE GoodReturn
  <2>1. TypeOK'
    <3>1. previous_offset' \in 0..(Len(raw_data) + 1)
      BY <1>1, <1>2, <1>3 DEF GoodReturn
    <3>2. slipped' \in BOOLEAN
      BY <1>3 DEF GoodReturn
    <3> QED
      BY <1>1, <1>3, <3>1, <3>2 DEF GoodReturn, TypeOK
  <2>2. CursorAligned'
    <3> SUFFICES ASSUME is_data_valid', ~slipped'
                 PROVE  offset' \in starts'
      BY DEF CursorAligned
    <3>1. is_data_valid /\ ~slipped /\ starts' = starts
      BY <1>3 DEF GoodReturn
    <3>2. offset \in starts
      BY <3>1 DEF IInv, CursorAligned
    <3>3. CASE offset' = offset
      BY <3>1, <3>2, <3>3
    <3>4. CASE offset' # offset
      <4>1. FieldThere(raw_data, offset) /\ offset' = FieldEnd(raw_data, offset)
        BY <1>3, <3>4 DEF GoodReturn
      <4> QED
        BY <3>1, <3>2, <4>1 DEF IInv, BlobKept
    <3> QED
      BY <3>3, <3>4
  <2>3. BlobKept'
    BY <1>3 DEF GoodReturn, IInv, BlobKept
  <2> QED
    BY <2>1, <2>2, <2>3 DEF IInv
<1>4. CASE GoodReset
  <2>1. /\ Reset(raw_data).is_data_valid \in BOOLEAN
        /\ Reset(raw_data).offset \in 0..Len(raw_data)
        /\ Reset(raw_data).is_data_valid =>
             /\ MagicSize <= Len(raw_data)
             /\ FieldThere(raw_data, MagicSize)
             /\ Reset(raw_data).offset = FieldEnd(raw_data, MagicSize)
    BY <1>1, ResetIsGood
  <2>2. TypeOK'
    BY <1>1, <1>4, <2>1 DEF GoodReset, TypeOK
  <2>3. CursorAligned'
    BY <1>4, <2>1 DEF GoodReset, CursorAligned, IInv, BlobKept
  <2>4. BlobKept'
    BY <1>4 DEF GoodReset, IInv, BlobKept
  <2> QED
    BY <2>2, <2>3, <2>4 DEF IInv
<1>5. CASE UNCHANGED vars
  <2>1. TypeOK'
    BY <1>5 DEF vars, IInv, TypeOK
  <2>2. CursorAligned'
    BY <1>5 DEF vars, IInv, CursorAligned
  <2>3. BlobKept'
    BY <1>5 DEF vars, IInv, BlobKept
  <2> QED
    BY <2>1, <2>2, <2>3 DEF IInv
<1> QED
  BY <1>3, <1>4, <1>5, StepIsGood

LEMMA Invariant == Spec => []IInv
<1> QED
  BY InitInvariant, NextInvariant, PTL DEF Spec

\* No sequence of calls on a parser takes its cursor out of the blob, and its
\* state keeps its type: the bounds check of ReadData guards every read.
THEOREM CursorInBlob == Spec => []TypeOK
<1>1. IInv => TypeOK
  BY DEF IInv
<1> QED
  BY <1>1, Invariant, PTL

\* The cursor of a valid blob stands where a field begins or ends, by the
\* format, until a call that fails moves it: the parser's idea of the length
\* of every kind of field is the format's, strings arrays of any length
\* included.
THEOREM CursorStaysAligned == Spec => []CursorAligned
<1>1. IInv => CursorAligned
  BY DEF IInv
<1> QED
  BY <1>1, Invariant, PTL

\* ReadField takes the field at the cursor exactly when the format says the
\* caller should get it, and stops at its end.
THEOREM ReadsAreExact == Spec => ReadsWhatIsThere
<1> DEFINE A == (call'.op = "ReadField" /\ is_data_valid) =>
        /\ call'.result = "Success" <=> Readable(raw_data, offset, call'.kind, call'.id)
        /\ call'.result = "Success" => offset' = FieldEnd(raw_data, offset)
<1>1. IInv /\ [Next]_vars => [A]_vars
  BY StepIsGood DEF GoodReturn, GoodReset
<1> QED
  BY <1>1, Invariant, PTL DEF Spec, ReadsWhatIsThere

\* Only Reset moves the cursor backwards.
THEOREM CursorNeverGoesBack == Spec => ForwardOnly
<1> DEFINE A == call'.op # "Reset" => offset' >= offset
<1>1. IInv /\ [Next]_vars => [A]_vars
  <2> SUFFICES ASSUME IInv, Next
               PROVE  A
    BY DEF A
  <2>1. CASE GoodReturn
    <3>1. offset \in 0..Len(raw_data) /\ raw_data \in Bytes
      BY DEF IInv, TypeOK
    <3>2. Len(raw_data) \in Nat
      BY <3>1, LengthIsNat
    <3> QED
      BY <2>1, <3>1, <3>2 DEF GoodReturn
  <2>2. CASE GoodReset
    BY <2>2 DEF GoodReset
  <2> QED
    BY <2>1, <2>2, StepIsGood
<1> QED
  BY <1>1, Invariant, PTL DEF Spec, ForwardOnly

\* A call that fails leaves the cursor where it was, with the two exceptions
\* the property names and no other.
THEOREM FailuresKeepCursor == Spec => FailedCallKeepsCursor
<1> DEFINE A == (call'.op # "Reset" /\ call'.result # "Success") =>
        \/ offset' = offset
        \/ call'.kind = "Int" /\ TypeAt(raw_data, offset) = FieldType.Long
        \/ ~FieldThere(raw_data, offset)
<1>1. IInv /\ [Next]_vars => [A]_vars
  BY StepIsGood DEF GoodReturn, GoodReset
<1> QED
  BY <1>1, Invariant, PTL DEF Spec, FailedCallKeepsCursor

\* A call of ReadField that fails leaves the value of the caller's field alone,
\* with the two exceptions the property names and no other, and leaves its info
\* holding the header at the cursor, whosever it is, whenever one is there.
THEOREM FailuresLeaveValue == Spec => FailureLeavesValue
<1> DEFINE A == (call'.op = "ReadField" /\ call'.result # "Success") =>
        /\ call'.filled # "untouched" <=>
             is_data_valid /\ offset + HeaderSize <= Len(raw_data)
        /\ call'.filled \notin {"untouched", "header"} =>
             call'.filled = "partly" /\ CutShort(raw_data, offset, call'.kind, call'.id)
<1>1. IInv /\ [Next]_vars => [A]_vars
  <2> SUFFICES ASSUME IInv, Next, call'.op = "ReadField", call'.result # "Success"
               PROVE  A
    OBVIOUS
  <2>1. GoodReturn
    BY StepIsGood DEF GoodReset
  <2>2. call'.filled \in Filled
    BY <2>1 DEF GoodReturn
  <2>3. call'.filled \notin {"untouched", "header"} => call'.filled = "partly"
    BY <2>1, <2>2 DEF GoodReturn, Filled
  <2> QED
    BY <2>1, <2>3 DEF GoodReturn
<1> QED
  BY <1>1, Invariant, PTL DEF Spec, FailureLeavesValue

\* A refused blob stays refused, whatever is called.
THEOREM RefusalIsFinal == Spec => RefusedForGood
<1> DEFINE A == ~is_data_valid => (call'.result # "Success" /\ ~is_data_valid')
<1>1. IInv /\ [Next]_vars => [A]_vars
  BY StepIsGood DEF GoodReturn, GoodReset, IInv, BlobKept
<1> QED
  BY <1>1, Invariant, PTL DEF Spec, RefusedForGood
=============================================================================
