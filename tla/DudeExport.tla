----------------------------- MODULE DudeExport ------------------------------
(***************************************************************************)
(* What main does with a database: list the maps and the devices, then, if *)
(* an output was asked for, SaveDatabase, that is SerializeDatabaseJson:   *)
(* open the file, call one getter after the other and put what it returns  *)
(* into the stream, close the stream.                                      *)
(*                                                                         *)
(* Nobody looks at the state of the stream: once a write has failed, what  *)
(* follows is dropped, and the result is zero all the same.  What has      *)
(* reached the file is a prefix of what was put into the stream.           *)
(***************************************************************************)
EXTENDS DudeDatabase

CONSTANT Listed   \* the tables main lists first, by their number

ASSUME ListedAssumption == Listed \in Seq(DOMAIN Tables)

VARIABLES
  turn,      \* the getter in the order of Jobs that runs or comes next
  stream,    \* "none", "good", "bad" or "closed"
  document,  \* what was put into the stream: for each table its objects
  on_disk,   \* how many of its tables are in the file
  result,    \* what SaveDatabase returned; "unasked" without an output
  complete,  \* auxiliary: no query of the save has failed
  stable     \* auxiliary: the rows that were there, unchanged, all the time

exportVars == <<vars, turn, stream, document, on_disk, result, complete, stable>>

\* A plausible slip: the first line of SerializeDatabaseJson, copied for the
\* last table.
JobsCopied == Listed \o [t \in 1..Len(Tables) |-> IF t = Len(Tables) THEN 1 ELSE t]

Jobs == Listed \o [t \in 1..Len(Tables) |-> t]

Saving == turn > Len(Listed)

RowsOf(rows) == {rows[i] : i \in DOMAIN rows}

ExportInit ==
  /\ Init
  /\ turn = 1
  /\ stream = "none"
  /\ document = <<>>
  /\ on_disk = 0
  /\ result = "running"
  /\ complete = TRUE
  /\ stable = RowsOf(objs)

\* An object as it is written: its identifier and its members.
AsWritten(objects, rows) ==
  [j \in DOMAIN objects |-> [id |-> rows[objects[j].row].id, taken |-> objects[j].taken]]

\* ListMapData, ListDeviceData and the lines of SerializeDatabaseJson.
CallGetter ==
  /\ result = "running"
  /\ turn <= Len(Jobs)
  /\ Saving => stream \in {"good", "bad"}
  /\ GetObjs(Jobs[turn])
  /\ complete' = (complete /\ (Saving => sql_data' = objs))
  /\ UNCHANGED <<turn, stream, document, on_disk, result, stable>>

Read ==
  /\ ReadObject
  /\ UNCHANGED <<turn, stream, document, on_disk, result, complete, stable>>

\* The getter of a listing returns.
EndListing ==
  /\ ~Saving
  /\ Return
  /\ turn' = turn + 1
  /\ UNCHANGED <<stream, document, on_disk, result, complete, stable>>

\* Some of what is in the buffer reaches the file, or the write fails.
Flush ==
  /\ stream' \in {stream, "bad"}
  /\ IF stream = "bad" THEN on_disk' = on_disk ELSE on_disk' \in on_disk..Len(document')

\* A plausible slip: the stream is not moved on to the next table.
PutTableAgain ==
  /\ Saving
  /\ Return
  /\ document' = Append(document, AsWritten(data, sql_data))
  /\ Flush
  /\ UNCHANGED <<turn, result, complete, stable>>

\* The getter of a table returns and the table is put into the stream.
PutTable ==
  /\ Saving
  /\ Return
  /\ document' = Append(document, AsWritten(data, sql_data))
  /\ Flush
  /\ turn' = turn + 1
  /\ UNCHANGED <<result, complete, stable>>

\* SaveDatabase begins, unless no output was asked for.
OpenFile ==
  /\ result = "running"
  /\ turn = Len(Listed) + 1
  /\ getter = 0
  /\ stream = "none"
  /\ \/ stream' = "good" /\ result' = result
     \/ stream' = stream /\ result' \in {"1", "unasked"}
  /\ UNCHANGED <<vars, turn, document, on_disk, complete, stable>>

\* A plausible slip: what follows a write that failed is left to the caller.
CloseFileIfGood ==
  /\ turn > Len(Jobs)
  /\ stream = "good"
  /\ stream' = "closed"
  /\ on_disk' \in on_disk..Len(document)
  /\ result' = "0"
  /\ UNCHANGED <<vars, turn, document, complete, stable>>

\* The end of SerializeDatabaseJson: close writes what is in the buffer.
CloseFile ==
  /\ turn > Len(Jobs)
  /\ stream \in {"good", "bad"}
  /\ stream' = "closed"
  /\ on_disk' \in IF stream = "bad" THEN {on_disk} ELSE on_disk..Len(document)
  /\ result' = "0"
  /\ UNCHANGED <<vars, turn, document, complete, stable>>

ChangeFile ==
  /\ Change
  /\ stable' = stable \cap RowsOf(objs')
  /\ UNCHANGED <<turn, stream, document, on_disk, result, complete>>

\* What main does without asking the database.
OwnWork == Read \/ EndListing \/ PutTable \/ OpenFile \/ CloseFile

ExportNext == CallGetter \/ OwnWork \/ ChangeFile

\* The program is one thread: what it can do alone it does.  A query is not
\* among that: it is tried again as long as another connection holds a lock,
\* however long that is (CallEnds of SqliteReader says when it ends).
ExportSpecification == ExportInit /\ [][ExportNext]_exportVars /\ WF_exportVars(OwnWork)
-----------------------------------------------------------------------------
ExportTypeOK ==
  /\ TypeOK
  /\ turn \in 1..(Len(Jobs) + 1)
  /\ getter \in {0, IF turn <= Len(Jobs) THEN Jobs[turn] ELSE 0}
  /\ stream \in {"none", "good", "bad", "closed"}
  /\ Len(document) = IF Saving THEN turn - 1 - Len(Listed) ELSE 0
  /\ on_disk \in 0..Len(document)
  /\ result \in {"running", "0", "1", "unasked"}

\* The number of fields of a row a reader of the table can tell apart and that
\* agrees with its blob on the identifier.
Good(row, table) ==
  {k \in 0..Len(table.fields) :
     /\ PlainUpTo(row.blob, table.fields, k)
     /\ FormatOf(row.blob) = table.format
     /\ IdentifierOf(row.blob, k) = row.id}

\* The object of a row is in the table, once, and in no other table.
SavedOnce(row, t, k) ==
  \A u \in DOMAIN document :
    LET mine == {j \in DOMAIN document[u] : document[u][j].id = row.id}
    IN IF u = t
       THEN \E j \in mine :
              mine = {j} /\ document[u][j].taken = MembersOf(row.blob, Tables[t].fields, k)
       ELSE mine = {}

\* However the rest of the file changes between the getters, a row that stays
\* as it was from the first getter to the last is saved in its table with all
\* its members, and in no other, if no query failed.
StableRowsSaved ==
  (result = "0" /\ complete) =>
    \A row \in stable, t \in DOMAIN Tables : \A k \in Good(row, Tables[t]) :
      SavedOnce(row, t, k)

\* All the objects some rows make.
AllObjects(rows, table) ==
  LET upTo[i \in 0..Len(rows)] ==
        IF i = 0 THEN <<>> ELSE upTo[i - 1] \o Objects(rows[i], table, i)
  IN AsWritten(upTo[Len(rows)], rows)

Promise ==
  INSTANCE ExportSpec WITH
    contents <- objs,
    document <- IF Saving /\ getter # 0
                THEN Append(document, AllObjects(sql_data, Tables[getter]))
                ELSE document

\* SaveDatabase row by row implements the saving of whole tables: the objects
\* of a table are those of the moment its query ran.
TablesAreAtomic == Promise!Spec

\* main is in the query of a getter.
AtQuery ==
  /\ result = "running"
  /\ turn <= Len(Jobs)
  /\ Saving => stream \in {"good", "bad"}
  /\ getter = 0

\* main comes to its end, whatever fails and however often the file changes,
\* unless it stays in one query for ever.
EndsUnlessLocked == <>(result # "running") \/ <>[]AtQuery

\* README.md: "saves the contents into a json file".  A save that returns zero
\* has the rows that were there all the time in the file; it does not when a
\* query or a write failed, neither of which anybody looks at.
SavedMeansSaved ==
  result = "0" =>
    \A row \in stable, t \in DOMAIN Tables : \A k \in Good(row, Tables[t]) :
      SavedOnce(row, t, k) /\ t <= on_disk
=============================================================================
