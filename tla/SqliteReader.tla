---------------------------- MODULE SqliteReader -----------------------------
(***************************************************************************)
(* The class SqliteReader on a file another process may write: open the    *)
(* database, run the two statements of GetTableData row by row, close it.  *)
(*                                                                         *)
(* SQLite itself is external and modelled by what the reader may rely on:  *)
(* a step that finds the file locked answers BUSY before it has read       *)
(* anything; from its first row to its end a statement keeps the file from *)
(* being written; each call may fail instead.                              *)
(***************************************************************************)
EXTENDS Integers, Sequences

CONSTANTS
  Databases,   \* the contents the table may have
  MaxWrites    \* bound: how often the other process writes

\* A content is a sequence, of whatever rows.
ASSUME DatabasesAssumption ==
  \A rows \in Databases : rows \in Seq({rows[i] : i \in DOMAIN rows})

ASSUME WritesAssumption == MaxWrites \in Nat

VARIABLES
  is_open,
  call,        \* what GetTableData is at: "idle", "count" or "select"
  statement,   \* "none", "ready" (prepared) or "reading" (has the file locked)
  row_count,   \* the rows the first statement gave: one, with the number
  data,        \* the rows the second statement gave
  rc,          \* the last result of GetTableData, "none" while it runs
  objs,        \* the rows in the file
  view,        \* the rows a reading statement goes through
  writing,     \* the other process has the file locked
  writes       \* bound: how often it has

readerVars == <<is_open, call, statement, row_count, data, rc, view>>
writerVars == <<objs, writing, writes>>
vars == <<readerVars, writerVars>>

Init ==
  /\ is_open = FALSE
  /\ call = "idle"
  /\ statement = "none"
  /\ row_count = <<>>
  /\ data = <<>>
  /\ rc = "none"
  /\ view = <<>>
  /\ objs \in Databases
  /\ writing = FALSE
  /\ writes = 0

\* A gzip file is unpacked first and its copy opened; either may fail.
OpenDatabase ==
  /\ call = "idle"
  /\ is_open' \in {is_open, TRUE}
  /\ UNCHANGED <<call, statement, row_count, data, rc, view, writerVars>>

CloseDatabase ==
  /\ call = "idle"
  /\ is_open' = FALSE
  /\ UNCHANGED <<call, statement, row_count, data, rc, view, writerVars>>

\* The caller's vector of rows is empty.
GetTableData ==
  /\ call = "idle"
  /\ data' = <<>>
  /\ row_count' = <<>>
  /\ IF is_open THEN call' = "count" /\ rc' = "none"
     ELSE call' = call /\ rc' = "CANTOPEN"
  /\ UNCHANGED <<is_open, statement, view, writerVars>>

\* A plausible slip: the statement is not finalized.
GiveUpUnfinalized ==
  /\ call' = "idle"
  /\ rc' = "ERROR"
  /\ UNCHANGED <<is_open, statement, row_count, data, view, writerVars>>

\* A plausible slip: the loop ends and the result is OK, whatever ended it.
GiveUpQuietly ==
  /\ statement' = "none"
  /\ view' = <<>>
  /\ call' = "idle"
  /\ rc' = "OK"
  /\ UNCHANGED <<is_open, row_count, data, writerVars>>

\* ExecStatement gives up: the statement is finalized and its result is that
\* of GetTableData, which keeps the rows it has.
GiveUp ==
  /\ statement' = "none"
  /\ view' = <<>>
  /\ call' = "idle"
  /\ rc' = "ERROR"
  /\ UNCHANGED <<is_open, row_count, data, writerVars>>

Prepare ==
  /\ call # "idle"
  /\ statement = "none"
  /\ \/ /\ statement' = "ready"
        /\ UNCHANGED <<is_open, call, row_count, data, rc, view, writerVars>>
     \/ GiveUp

\* The rows the statement gives, decided when its first step has the file.
Rows ==
  IF statement = "reading" THEN view
  ELSE IF call = "count"   THEN <<Len(objs)>>
  ELSE objs

Got == IF call = "count" THEN row_count ELSE data

CanRead == statement = "reading" \/ (statement = "ready" /\ ~writing)

StepRow ==
  /\ CanRead
  /\ Len(Got) < Len(Rows)
  /\ LET more == Append(Got, Rows[Len(Got) + 1])
     IN IF call = "count" THEN row_count' = more /\ data' = data
                          ELSE data' = more /\ row_count' = row_count
  /\ statement' = "reading"
  /\ view' = Rows
  /\ UNCHANGED <<is_open, call, rc, writerVars>>

\* A plausible slip: the loop does not end before it has a row.
StepDoneWithRows ==
  /\ CanRead
  /\ Len(Got) = Len(Rows)
  /\ Got # <<>>
  /\ statement' = "none"
  /\ view' = <<>>
  /\ IF call = "count" THEN call' = "select" /\ rc' = rc
                       ELSE call' = "idle" /\ rc' = "OK"
  /\ UNCHANGED <<is_open, row_count, data, writerVars>>

\* The statement is finalized; GetTableData goes on to the second, or ends.
StepDone ==
  /\ CanRead
  /\ Len(Got) = Len(Rows)
  /\ statement' = "none"
  /\ view' = <<>>
  /\ IF call = "count" THEN call' = "select" /\ rc' = rc
                       ELSE call' = "idle" /\ rc' = "OK"
  /\ UNCHANGED <<is_open, row_count, data, writerVars>>

\* A plausible slip: a locked file ends the loop as if there were no more rows.
StepBusyEnds ==
  /\ statement = "ready"
  /\ writing
  /\ statement' = "none"
  /\ IF call = "count" THEN call' = "select" /\ rc' = rc
                       ELSE call' = "idle" /\ rc' = "OK"
  /\ UNCHANGED <<is_open, row_count, data, view, writerVars>>

\* The loop turns at once.
StepBusy ==
  /\ statement = "ready"
  /\ writing
  /\ UNCHANGED vars

StepError == statement # "none" /\ GiveUp

\* The other process locks the file, unless a statement reads it, changes it
\* and lets it go.
BeginWrite ==
  /\ ~writing
  /\ statement # "reading"
  /\ writes < MaxWrites
  /\ writing' = TRUE
  /\ writes' = writes + 1
  /\ UNCHANGED <<readerVars, objs>>

Commit ==
  /\ writing
  /\ objs' \in Databases
  /\ writing' = FALSE
  /\ UNCHANGED <<readerVars, writes>>

Next ==
  \/ OpenDatabase \/ CloseDatabase \/ GetTableData
  \/ Prepare \/ StepRow \/ StepDone \/ StepBusy \/ StepError
  \/ BeginWrite \/ Commit

\* A call of SQLite returns, the loop never pauses, and a write comes to an
\* end.  Nothing is said of errors: none has to happen.
Spec ==
  /\ Init /\ [][Next]_vars
  /\ WF_vars(Prepare) /\ WF_vars(StepRow \/ StepDone) /\ WF_vars(Commit)
-----------------------------------------------------------------------------
\* The types of the variables; and the count that GetTableData reads without a
\* look, row_count[0], is there when the first statement has succeeded.
TypeOK ==
  /\ is_open \in BOOLEAN
  /\ call \in {"idle", "count", "select"}
  /\ statement \in {"none", "ready", "reading"}
  /\ Len(row_count) <= 1 /\ (call = "select" => row_count # <<>>)
  /\ \E rows \in Databases : \E n \in 0..Len(rows) : data = SubSeq(rows, 1, n)
  /\ rc \in {"none", "OK", "CANTOPEN", "ERROR"}
  /\ objs \in Databases
  /\ writing \in BOOLEAN
  /\ writes \in 0..MaxWrites

\* A statement is alive only inside a call, whatever way the call ended: one
\* left behind would keep the file from being written, and from being closed.
NoStatementLeft == call = "idle" => statement = "none"

\* GetTableData implements the query the getters rely on: success means the
\* rows of one moment, failure the first of them.
Query ==
  INSTANCE TableQuery WITH
    contents <- objs,
    asked    <- call # "idle",
    seen     <- IF call = "select" /\ statement = "reading" THEN {view} ELSE {},
    answer   <- IF call = "idle" THEN [ok |-> rc = "OK", rows |-> data]
                ELSE [ok |-> FALSE, rows |-> <<>>]

QueriesAreAtomic == Query!Spec

\* A call comes to an end, though the loop spins while the file is locked.
CallEnds == (call # "idle") ~> (call = "idle")
=============================================================================
