------------------------- MODULE SqliteReaderProofs --------------------------
(***************************************************************************)
(* Proofs about SqliteReader, for tables of any contents and a writer that *)
(* writes any number of times: the reader implements TableQuery.           *)
(***************************************************************************)
EXTENDS SqliteReader, SequenceTheorems, TLAPS

Flags ==
  /\ is_open \in BOOLEAN
  /\ call \in {"idle", "count", "select"}
  /\ statement \in {"none", "ready", "reading"}
  /\ rc \in {"none", "OK", "CANTOPEN", "ERROR"}
  /\ writing \in BOOLEAN
  /\ writes \in 0..MaxWrites

\* The rows the last call gave, or this one so far, are the first of a content.
RowsOK ==
  /\ objs \in Databases
  /\ \E rows \in Databases : \E n \in 0..Len(rows) : data = SubSeq(rows, 1, n)

CountOK ==
  /\ Len(row_count) \in 0..1
  /\ call = "count" /\ statement # "reading" => row_count = <<>>
  /\ call = "count" /\ statement = "reading" => Len(row_count) = 1
  /\ call = "select" => Len(row_count) = 1

\* A statement that has not had a row has none; one that reads goes through
\* the rows the file holds, and nobody writes it meanwhile.
ReadingOK ==
  /\ call = "idle" => statement = "none"
  /\ call = "count" => data = <<>>
  /\ call = "select" /\ statement # "reading" => data = <<>>
  /\ statement # "reading" => view = <<>>
  /\ statement = "reading" => ~writing
  /\ statement = "reading" /\ call = "count" => view = <<Len(objs)>>
  /\ statement = "reading" /\ call = "select" =>
       /\ view = objs
       /\ Len(data) \in 1..Len(objs)
       /\ data = SubSeq(objs, 1, Len(data))

\* The inductive invariant.
IInv == Flags /\ RowsOK /\ CountOK /\ ReadingOK

-----------------------------------------------------------------------------
(* The first rows of a content.                                            *)

LEMMA FirstRows ==
  ASSUME NEW rows \in Databases
  PROVE  /\ Len(rows) \in Nat
         /\ SubSeq(rows, 1, 0) = <<>>
         /\ SubSeq(rows, 1, Len(rows)) = rows
         /\ \A n \in 0..Len(rows) : Len(SubSeq(rows, 1, n)) = n
         /\ \A n \in 0..(Len(rows) - 1) :
              Append(SubSeq(rows, 1, n), rows[n + 1]) = SubSeq(rows, 1, n + 1)
<1> DEFINE S == {rows[i] : i \in DOMAIN rows}
<1>1. rows \in Seq(S)
  BY DatabasesAssumption
<1> HIDE DEF S
<1>2. Len(rows) \in Nat /\ \A i \in 1..Len(rows) : rows[i] \in S
  BY <1>1, ElementOfSeq, LenProperties
<1>3. SubSeq(rows, 1, 0) = <<>>
  BY SubSeqEmpty
<1>4. SubSeq(rows, 1, Len(rows)) = rows
  BY <1>1, SubSeqFull
<1>5. ASSUME NEW n \in 0..Len(rows)
      PROVE  SubSeq(rows, 1, n) \in Seq(S) /\ Len(SubSeq(rows, 1, n)) = n
  <2>1. n \in Int /\ 1 \in Int /\ \A i \in 1..n : rows[i] \in S
    BY <1>2
  <2>2. /\ SubSeq(rows, 1, n) \in Seq(S)
        /\ Len(SubSeq(rows, 1, n)) = IF 1 <= n THEN n - 1 + 1 ELSE 0
    BY <2>1, SubSeqProperties
  <2> QED
    BY <2>2, <1>2
<1>6. ASSUME NEW n \in 0..(Len(rows) - 1)
      PROVE  Append(SubSeq(rows, 1, n), rows[n + 1]) = SubSeq(rows, 1, n + 1)
  <2>1. n \in 0..Len(rows) /\ n + 1 \in 1..Len(rows) /\ 1 \in 1..Len(rows) /\ n + 1 - 1 = n
    BY <1>2
  <2>2. SubSeq(rows, 1, n + 1) = SubSeq(rows, 1, n + 1 - 1) \o <<rows[n + 1]>>
    BY <1>1, <2>1, SubSeqRecursiveSecond
  <2>3. Append(SubSeq(rows, 1, n), rows[n + 1]) = SubSeq(rows, 1, n) \o <<rows[n + 1]>>
    BY <1>2, <1>5, <2>1, AppendIsConcat
  <2> QED
    BY <2>1, <2>2, <2>3
<1> QED
  BY <1>2, <1>3, <1>4, <1>5, <1>6

\* The first rows of the row of the count.
LEMMA OneRow ==
  ASSUME NEW x
  PROVE  Len(<<x>>) = 1 /\ Append(<<>>, x) = <<x>> /\ <<x>>[1] = x
OBVIOUS

-----------------------------------------------------------------------------
(* The invariant.                                                          *)

LEMMA InitIInv == Init => IInv
<1> SUFFICES ASSUME Init PROVE IInv
  OBVIOUS
<1>1. Flags
  <2>1. 0 \in 0..MaxWrites
    BY WritesAssumption
  <2> QED
    BY <2>1, Zenon DEF Init, Flags
<1>2. RowsOK
  BY FirstRows DEF Init, RowsOK
<1>3. CountOK /\ ReadingOK
  BY DEF Init, CountOK, ReadingOK
<1> QED
  BY <1>1, <1>2, <1>3 DEF IInv

LEMMA FlagsKept ==
  ASSUME Flags, [Next]_vars
  PROVE  Flags'
<1> USE WritesAssumption DEF Flags, readerVars, writerVars
<1>1. CASE OpenDatabase
  BY <1>1 DEF OpenDatabase
<1>2. CASE CloseDatabase
  BY <1>2 DEF CloseDatabase
<1>3. CASE GetTableData
  BY <1>3 DEF GetTableData
<1>4. CASE Prepare
  BY <1>4 DEF Prepare, GiveUp
<1>5. CASE StepRow
  BY <1>5 DEF StepRow
<1>6. CASE StepDone
  BY <1>6 DEF StepDone
<1>7. CASE StepBusy
  BY <1>7 DEF StepBusy, vars
<1>8. CASE StepError
  BY <1>8 DEF StepError, GiveUp
<1>9. CASE BeginWrite
  BY <1>9 DEF BeginWrite
<1>10. CASE Commit
  BY <1>10 DEF Commit
<1>11. CASE UNCHANGED vars
  BY <1>11 DEF vars
<1> QED
  BY <1>1, <1>2, <1>3, <1>4, <1>5, <1>6, <1>7, <1>8, <1>9, <1>10, <1>11 DEF Next

\* A step that gets a row: the count, or the next row of the table.
LEMMA StepRowGetsARow ==
  ASSUME IInv, StepRow
  PROVE  /\ call = "count" => /\ row_count' = <<Len(objs)>>
                              /\ data' = <<>>
                              /\ view' = <<Len(objs)>>
         /\ call = "select" =>
              /\ row_count' = row_count
              /\ view' = objs
              /\ Len(data) \in 0..(Len(objs) - 1)
              /\ data = SubSeq(objs, 1, Len(data))
              /\ data' = SubSeq(objs, 1, Len(data) + 1)
              /\ Len(data') = Len(data) + 1
         /\ call \in {"count", "select"}
         /\ call' = call
         /\ statement' = "reading"
         /\ ~writing
         /\ UNCHANGED <<is_open, rc, objs, writing, writes>>
<1> USE DEF IInv, Flags
<1>0. objs \in Databases
  BY DEF RowsOK
<1>1. call \in {"count", "select"}
  BY DEF StepRow, CanRead, ReadingOK
<1>2. call' = call /\ statement' = "reading" /\ view' = Rows
      /\ UNCHANGED <<is_open, rc, objs, writing, writes>>
  BY DEF StepRow, writerVars
<1>3. ~writing
  BY DEF StepRow, CanRead, ReadingOK
<1>4. ASSUME call = "count"
      PROVE  row_count' = <<Len(objs)>> /\ data' = <<>> /\ view' = <<Len(objs)>>
  <2>1. Rows = <<Len(objs)>> /\ Len(Rows) = 1 /\ Rows[1] = Len(objs)
    BY <1>4, <1>0, FirstRows, OneRow DEF Rows, ReadingOK
  <2>2. Got = row_count /\ Len(Got) < 1
    BY <1>4, <2>1 DEF Got, StepRow
  <2>3. row_count = <<>>
    BY <1>4, <2>2 DEF CountOK
  <2>4. row_count' = Append(Got, Rows[Len(Got) + 1]) /\ data' = data
    BY <1>4 DEF StepRow
  <2>5. Append(<<>>, Rows[Len(<<>>) + 1]) = <<Len(objs)>>
    BY <2>1
  <2> QED
    BY <1>2, <1>4, <2>1, <2>2, <2>3, <2>4, <2>5 DEF ReadingOK
<1>5. ASSUME call = "select"
      PROVE  /\ row_count' = row_count
             /\ view' = objs
             /\ Len(data) \in 0..(Len(objs) - 1)
             /\ data = SubSeq(objs, 1, Len(data))
             /\ data' = SubSeq(objs, 1, Len(data) + 1)
             /\ Len(data') = Len(data) + 1
  <2>1. Rows = objs /\ Got = data
    BY <1>5 DEF Rows, Got, ReadingOK
  <2>2. Len(objs) \in Nat /\ Len(data) < Len(objs)
    BY <2>1, <1>0, FirstRows DEF StepRow
  <2>3. Len(data) \in Nat /\ data = SubSeq(objs, 1, Len(data))
    <3>1. CASE statement = "reading"
      BY <3>1, <1>5, <2>2 DEF ReadingOK
    <3>2. CASE statement # "reading"
      <4>1. data = <<>> /\ Len(data) = 0
        BY <3>2, <1>5 DEF ReadingOK
      <4> QED
        BY <4>1, <1>0, FirstRows
    <3> QED
      BY <3>1, <3>2
  <2>4. data' = Append(data, objs[Len(data) + 1]) /\ row_count' = row_count
    BY <1>5, <2>1 DEF StepRow
  <2>5. Len(data) \in 0..(Len(objs) - 1) /\ Len(data) + 1 \in 0..Len(objs)
    BY <2>2, <2>3
  <2>6. data' = SubSeq(objs, 1, Len(data) + 1)
    BY <1>0, <2>3, <2>4, <2>5, FirstRows, Zenon
  <2>7. Len(data') = Len(data) + 1
    BY <1>0, <2>5, <2>6, FirstRows, Zenon
  <2> QED
    BY <1>2, <2>1, <2>3, <2>4, <2>5, <2>6, <2>7
<1> QED
  BY <1>1, <1>2, <1>3, <1>4, <1>5

LEMMA RowsKept ==
  ASSUME IInv, [Next]_vars
  PROVE  RowsOK'
<1> USE DEF readerVars, writerVars
<1>0. RowsOK /\ objs \in Databases
  BY DEF IInv, RowsOK
<1>1. CASE data' = data /\ objs' \in Databases
  BY <1>0, <1>1 DEF RowsOK
<1>2. CASE data' = <<>> /\ objs' = objs
  <2>1. 0 \in 0..Len(objs) /\ data' = SubSeq(objs, 1, 0)
    BY <1>0, <1>2, FirstRows
  <2> QED
    BY <1>0, <1>2, <2>1 DEF RowsOK
<1>3. CASE StepRow
  <2>1. CASE call = "count"
    BY <1>2, <1>3, <2>1, StepRowGetsARow
  <2>2. CASE call = "select"
    <3>1. Len(data) + 1 \in 0..Len(objs) /\ data' = SubSeq(objs, 1, Len(data) + 1) /\ objs' = objs
      BY <1>0, <1>3, <2>2, StepRowGetsARow, FirstRows
    <3> QED
      BY <1>0, <3>1 DEF RowsOK
  <2> QED
    BY <1>3, <2>1, <2>2, StepRowGetsARow
<1>4. CASE GetTableData
  BY <1>2, <1>4 DEF GetTableData
<1>5. CASE Commit
  BY <1>1, <1>5 DEF Commit
<1>6. CASE OpenDatabase \/ CloseDatabase \/ Prepare \/ StepDone \/ StepBusy \/ StepError
           \/ BeginWrite \/ UNCHANGED vars
  <2>1. data' = data /\ objs' = objs
    BY <1>6 DEF OpenDatabase, CloseDatabase, Prepare, GiveUp, StepDone, StepBusy, StepError,
                BeginWrite, vars
  <2> QED
    BY <1>0, <1>1, <2>1
<1> QED
  BY <1>3, <1>4, <1>5, <1>6 DEF Next

LEMMA CountKept ==
  ASSUME IInv, [Next]_vars
  PROVE  CountOK'
<1> USE DEF readerVars, writerVars
<1>0. Flags /\ CountOK /\ ReadingOK /\ Len(<<>>) = 0
  BY DEF IInv
<1>1. CASE call' = "idle" /\ row_count' = row_count
  BY <1>0, <1>1 DEF CountOK
<1>2. CASE UNCHANGED <<call, statement, row_count>>
  BY <1>0, <1>2 DEF CountOK
<1>3. CASE StepRow
  <2>1. CASE call = "count"
    BY <1>3, <2>1, OneRow, StepRowGetsARow DEF CountOK
  <2>2. CASE call = "select"
    BY <1>0, <1>3, <2>2, StepRowGetsARow DEF CountOK
  <2> QED
    BY <1>3, <2>1, <2>2, StepRowGetsARow
<1>4. CASE GetTableData
  BY <1>0, <1>4 DEF GetTableData, CountOK, ReadingOK
<1>5. CASE Prepare
  <2>1. CASE GiveUp
    BY <1>1, <2>1 DEF GiveUp
  <2>2. CASE statement' = "ready" /\ UNCHANGED <<call, row_count>>
    BY <1>0, <1>5, <2>2 DEF CountOK, Prepare
  <2> QED
    BY <1>5, <2>1, <2>2 DEF Prepare
<1>6. CASE StepDone
  <2>1. CASE call = "count"
    <3>1. Len(row_count) = Len(Rows) /\ row_count' = row_count /\ call' = "select"
      BY <1>6, <2>1 DEF StepDone, Got
    <3>2. Rows = <<Len(objs)>> /\ Len(Rows) = 1
      BY <1>0, <2>1, OneRow DEF Rows, ReadingOK
    <3> QED
      BY <3>1, <3>2 DEF CountOK
  <2>2. CASE call # "count"
    BY <1>1, <1>6, <2>2 DEF StepDone
  <2> QED
    BY <2>1, <2>2
<1>7. CASE StepError
  BY <1>1, <1>7 DEF StepError, GiveUp
<1>8. CASE OpenDatabase \/ CloseDatabase \/ StepBusy \/ BeginWrite \/ Commit \/ UNCHANGED vars
  BY <1>2, <1>8 DEF OpenDatabase, CloseDatabase, StepBusy, BeginWrite, Commit, vars
<1> QED
  BY <1>3, <1>4, <1>5, <1>6, <1>7, <1>8 DEF Next

LEMMA ReadingKept ==
  ASSUME IInv, [Next]_vars
  PROVE  ReadingOK'
<1> USE DEF readerVars, writerVars
<1>0. Flags /\ CountOK /\ ReadingOK /\ Len(<<>>) = 0 /\ objs \in Databases
  BY DEF IInv, RowsOK
<1>1. CASE GiveUp
  BY <1>1 DEF GiveUp, ReadingOK
<1>2. CASE OpenDatabase \/ CloseDatabase \/ StepBusy \/ UNCHANGED vars
  <2>1. UNCHANGED <<call, statement, data, objs, view, writing>>
    BY <1>2 DEF OpenDatabase, CloseDatabase, StepBusy, vars
  <2> QED
    BY <1>0, <2>1 DEF ReadingOK
<1>3. CASE StepRow
  <2>1. CASE call = "count"
    BY <1>3, <2>1, StepRowGetsARow DEF ReadingOK
  <2>2. CASE call = "select"
    <3>1. /\ call' = "select" /\ statement' = "reading" /\ ~writing' /\ view' = objs'
          /\ Len(data') \in 1..Len(objs')
          /\ data' = SubSeq(objs', 1, Len(data'))
      BY <1>0, <1>3, <2>2, StepRowGetsARow, FirstRows
    <3> QED
      BY <3>1 DEF ReadingOK
  <2> QED
    BY <1>3, <2>1, <2>2, StepRowGetsARow
<1>4. CASE GetTableData
  BY <1>0, <1>4 DEF GetTableData, ReadingOK
<1>5. CASE Prepare
  <2>1. CASE statement = "none" /\ statement' = "ready" /\ call # "idle" /\ UNCHANGED <<call, data, view>>
    BY <1>0, <2>1 DEF ReadingOK
  <2> QED
    BY <1>1, <1>5, <2>1 DEF Prepare
<1>6. CASE StepDone
  BY <1>0, <1>6 DEF StepDone, ReadingOK, Flags
<1>7. CASE StepError
  BY <1>1, <1>7 DEF StepError
<1>8. CASE BeginWrite
  BY <1>0, <1>8 DEF BeginWrite, ReadingOK
<1>9. CASE Commit
  BY <1>0, <1>9 DEF Commit, ReadingOK
<1> QED
  BY <1>2, <1>3, <1>4, <1>5, <1>6, <1>7, <1>8, <1>9 DEF Next

LEMMA NextIInv == IInv /\ [Next]_vars => IInv'
BY FlagsKept, RowsKept, CountKept, ReadingKept DEF IInv

\* The invariant holds of every behaviour.
THEOREM Inductive == Spec => []IInv
<1> QED
  BY InitIInv, NextIInv, PTL DEF Spec

-----------------------------------------------------------------------------
(* What the runs check.                                                    *)

\* The variables keep their types, and the count that is read without a look
\* is there.
THEOREM TypeCorrect == Spec => []TypeOK
<1>1. IInv => TypeOK
  <2> SUFFICES ASSUME IInv PROVE TypeOK
    OBVIOUS
  <2>1. Len(row_count) <= 1 /\ (call = "select" => row_count # <<>>)
    <3>1. Len(row_count) <= 1
      BY DEF IInv, CountOK
    <3>2. ASSUME call = "select", row_count = <<>> PROVE FALSE
      <4>1. Len(row_count) = 1
        BY <3>2 DEF IInv, CountOK
      <4>2. Len(row_count) = Len(<<>>)
        BY <3>2, Zenon
      <4> QED
        BY <4>1, <4>2
    <3> QED
      BY <3>1, <3>2
  <2> QED
    BY <2>1 DEF IInv, Flags, RowsOK, TypeOK
<1> QED
  BY <1>1, Inductive, PTL

\* However a call of GetTableData ended, no statement is left to keep the file
\* locked.
THEOREM NothingLeftBehind == Spec => []NoStatementLeft
<1>1. IInv => NoStatementLeft
  BY DEF IInv, ReadingOK, NoStatementLeft
<1> QED
  BY <1>1, Inductive, PTL

-----------------------------------------------------------------------------
(* The reader implements the query.                                        *)

Asked  == call # "idle"
Seen   == IF call = "select" /\ statement = "reading" THEN {view} ELSE {}
Answer == IF call = "idle" THEN [ok |-> rc = "OK", rows |-> data]
          ELSE [ok |-> FALSE, rows |-> <<>>]

\* A statement that is given up has had the first rows of what it has seen.
LEMMA GiveUpIsFail ==
  ASSUME IInv, GiveUp, call # "idle"
  PROVE  Query!Fail
<1> USE DEF writerVars
<1>1. /\ Asked' = FALSE /\ Seen' = {} /\ Answer' = [ok |-> FALSE, rows |-> data]
      /\ objs' = objs
  BY DEF GiveUp, Asked, Seen, Answer
<1>2. Answer' \in {Query!None}
             \cup UNION {{[ok |-> FALSE, rows |-> SubSeq(rows, 1, n)] :
                            n \in 0..Len(rows)} : rows \in Seen}
  <2>1. CASE call = "select" /\ statement = "reading"
    <3>1. Seen = {objs} /\ Len(data) \in 0..Len(objs) /\ data = SubSeq(objs, 1, Len(data))
      BY <2>1 DEF IInv, ReadingOK, Seen
    <3>2. Answer' = [ok |-> FALSE, rows |-> SubSeq(objs, 1, Len(data))]
      BY <1>1, <3>1, Zenon
    <3>3. Answer' \in {[ok |-> FALSE, rows |-> SubSeq(objs, 1, n)] : n \in 0..Len(objs)}
      BY <3>1, <3>2, Zenon
    <3> QED
      BY <3>1, <3>3, Zenon
  <2>2. CASE ~(call = "select" /\ statement = "reading")
    <3>1. data = <<>>
      BY <2>2 DEF IInv, Flags, ReadingOK
    <3> QED
      BY <1>1, <3>1 DEF Query!None
  <2> QED
    BY <2>1, <2>2
<1> QED
  BY <1>1, <1>2 DEF Query!Fail, Asked, Seen, Answer

LEMMA InitIsInit == Init => Query!Init
BY DEF Init, Query!Init, Query!None

LEMMA NextIsNext ==
  ASSUME IInv, [Next]_vars
  PROVE  [Query!Next]_Query!vars
<1> USE DEF readerVars, writerVars
<1>0. Flags /\ CountOK /\ ReadingOK /\ objs \in Databases /\ Len(<<>>) = 0
  BY DEF IInv, RowsOK
<1>1. CASE OpenDatabase \/ CloseDatabase \/ StepBusy \/ BeginWrite \/ UNCHANGED vars
  <2>1. UNCHANGED <<objs, call, statement, view, rc, data>>
    BY <1>1 DEF OpenDatabase, CloseDatabase, StepBusy, BeginWrite, vars
  <2> QED
    BY <2>1 DEF Query!vars
<1>2. CASE GetTableData
  <2>1. objs' = objs /\ statement = "none" /\ statement' = "none" /\ call = "idle" /\ data' = <<>>
    BY <1>0, <1>2 DEF GetTableData, ReadingOK
  <2>2. CASE is_open
    <3>1. call' = "count"
      BY <1>2, <2>2 DEF GetTableData
    <3>2. Query!Ask
      BY <2>1, <3>1 DEF Query!Ask, Query!None
    <3> QED
      BY <3>2 DEF Query!Next
  <2>3. CASE ~is_open
    <3>1. call' = "idle" /\ rc' = "CANTOPEN"
      BY <1>2, <2>1, <2>3 DEF GetTableData
    <3>2. Query!Fail
      BY <2>1, <3>1 DEF Query!Fail, Query!None
    <3> QED
      BY <3>2 DEF Query!Next
  <2> QED
    BY <2>2, <2>3
<1>3. CASE Prepare
  <2>1. CASE GiveUp
    BY <1>3, <2>1, GiveUpIsFail DEF Prepare, Query!Next
  <2>2. CASE statement' = "ready" /\ UNCHANGED <<objs, call, view, rc, data>>
    BY <1>3, <2>2 DEF Prepare, Query!vars
  <2> QED
    BY <1>3, <2>1, <2>2 DEF Prepare
<1>4. CASE StepRow
  <2>1. call' = call /\ objs' = objs /\ rc' = rc /\ statement' = "reading"
    BY <1>4, StepRowGetsARow
  <2>2. CASE call = "count"
    BY <2>1, <2>2 DEF Query!vars
  <2>3. CASE call = "select"
    <3>1. view' = objs
      BY <1>4, <2>3, StepRowGetsARow
    <3>2. CASE statement = "reading"
      <4>1. view' = view
        BY <1>0, <2>3, <3>1, <3>2 DEF ReadingOK
      <4> QED
        BY <2>1, <2>3, <3>2, <4>1 DEF Query!vars
    <3>3. CASE statement # "reading"
      <4>1. Query!Look
        BY <2>1, <2>3, <3>1, <3>3 DEF Query!Look
      <4> QED
        BY <4>1 DEF Query!Next
    <3> QED
      BY <3>2, <3>3
  <2> QED
    BY <1>4, <2>2, <2>3, StepRowGetsARow
<1>5. CASE StepDone
  <2>1. CASE call = "count"
    <3>1. call' = "select" /\ statement' = "none" /\ objs' = objs
      BY <1>5, <2>1 DEF StepDone
    <3> QED
      BY <2>1, <3>1 DEF Query!vars
  <2>2. CASE call # "count"
    <3>1. /\ call = "select" /\ call' = "idle" /\ statement' = "none" /\ rc' = "OK"
          /\ objs' = objs /\ data' = data /\ Len(data) = Len(Rows)
      BY <1>0, <1>5, <2>2 DEF StepDone, Got, CanRead, Flags, ReadingOK
    <3>2. data = objs
      <4>1. Rows = objs
        BY <1>0, <3>1 DEF Rows, ReadingOK
      <4>2. data = SubSeq(objs, 1, Len(objs))
        BY <1>0, <3>1, <4>1, FirstRows DEF ReadingOK
      <4> QED
        BY <1>0, <4>2, FirstRows
    <3>3. \E rows \in IF Seen = {} THEN {objs} ELSE Seen : Answer' = [ok |-> TRUE, rows |-> rows]
      <4>1. objs \in IF Seen = {} THEN {objs} ELSE Seen
        BY <1>0, <3>1 DEF Seen, ReadingOK
      <4>2. Answer' = [ok |-> TRUE, rows |-> objs]
        BY <3>1, <3>2 DEF Answer
      <4> QED
        BY <4>1, <4>2
    <3>4. Query!Succeed
      BY <3>1, <3>3 DEF Query!Succeed, Seen, Answer
    <3> QED
      BY <3>4 DEF Query!Next
  <2> QED
    BY <2>1, <2>2
<1>6. CASE StepError
  BY <1>0, <1>6, GiveUpIsFail DEF StepError, ReadingOK, Query!Next
<1>7. CASE Commit
  <2>1. objs' \in Databases /\ UNCHANGED <<call, statement, view, rc, data>>
    BY <1>7 DEF Commit
  <2>2. Query!Change
    BY <2>1 DEF Query!Change
  <2> QED
    BY <2>2 DEF Query!Next
<1> QED
  BY <1>1, <1>2, <1>3, <1>4, <1>5, <1>6, <1>7 DEF Next

\* GetTableData answers with the rows of one moment, or with the first of
\* them and a failure, whatever the other process does to the file meanwhile.
THEOREM ReaderImplementsQuery == Spec => QueriesAreAtomic
<1>1. IInv /\ [Next]_vars => [Query!Next]_Query!vars
  BY NextIsNext
<1> QED
  BY <1>1, InitIsInit, Inductive, PTL DEF Spec, QueriesAreAtomic, Query!Spec
=============================================================================
