---------------------------- MODULE DudeDatabase -----------------------------
(***************************************************************************)
(* The class DudeDatabase: one getter for each table.  A getter asks the   *)
(* SQL reader for all rows of "objs", keeps those whose blob has the data  *)
(* format of the table, has its reader take the members, and drops a row   *)
(* whose own identifier is not the one the blob gives.                     *)
(*                                                                         *)
(* GetObjs answers with a copy of the rows; what it returns besides is not *)
(* looked at, so a query that fails halfway leaves the getter with the     *)
(* rows it got.  Nothing keeps another process from changing the table     *)
(* between two getters.                                                    *)
(***************************************************************************)
EXTENDS TableReaders, RowFormat

CONSTANTS
  Databases,   \* the contents the table "objs" may have, sequences of rows
  Tables       \* the tables, in a sequence

\* What a reader asks for: a kind of field under an identifier.
Member == [kind : Kinds, id : Nat \ {FieldId.None}]

TableOK(table) ==
  /\ \A m \in DOMAIN table.fields :
       table.fields[m].id = FieldId.SysId => table.fields[m].kind = "Int"
  /\ \A m, n \in DOMAIN table.fields : table.fields[m].id = table.fields[n].id => m = n
  /\ \E m \in DOMAIN table.fields : table.fields[m].id = FieldId.SysId
  /\ table.format # <<0, 0, 0, 0>>

ASSUME TablesAssumption ==
  /\ Tables \in Seq([format : Bytes, fields : Seq(Member)])
  /\ \A t \in DOMAIN Tables : TableOK(Tables[t])
  /\ \A t, u \in DOMAIN Tables : Tables[t].format = Tables[u].format => t = u

\* The identifier is the primary key of the table.
ASSUME DatabasesAssumption ==
  \A rows \in Databases :
    /\ rows \in Seq([id : Bytes, blob : Bytes])
    /\ \A i, j \in DOMAIN rows : rows[i].id = rows[j].id => i = j

VARIABLES
  objs,      \* the rows of the table, in the order the query gives them
  getter,    \* the table whose getter runs, or 0
  sql_data,  \* the rows the getter got
  next,      \* the row its loop is at
  data       \* the objects it has so far: the row of each and its members

vars == <<objs, getter, sql_data, next, data>>

Init ==
  /\ objs \in Databases
  /\ getter = 0
  /\ sql_data = <<>>
  /\ next = 1
  /\ data = <<>>

\* GetTableData gives all rows, or the first of them when the query fails;
\* none when the database could not be opened.
Fetched == {SubSeq(objs, 1, n) : n \in 0..Len(objs)}

\* A plausible slip: the loop goes on where the last getter left it.
GetObjsStale(t) ==
  /\ getter = 0
  /\ getter' = t
  /\ sql_data' \in Fetched
  /\ data' = <<>>
  /\ UNCHANGED <<objs, next>>

GetObjs(t) ==
  /\ getter = 0
  /\ getter' = t
  /\ sql_data' \in Fetched
  /\ next' = 1
  /\ data' = <<>>
  /\ UNCHANGED objs

\* A plausible slip: every row is given to the reader.
ObjectsOfAny(row, table, i) ==
  LET taken == ReadMembers(row.blob, Reset(row.blob).offset, table.fields)
  IN IF ObjectId(row.blob, taken, table.fields) # row.id THEN <<>>
     ELSE << [row |-> i, taken |-> taken] >>

\* One turn of the loop: the objects the row adds to those of the table, none
\* or one.
Objects(row, table, i) ==
  LET b      == row.blob
      parser == Reset(b)
      taken  == ReadMembers(b, parser.offset, table.fields)
  IN IF GetMainFormat(b, parser.is_data_valid) # table.format THEN <<>>
     ELSE IF ObjectId(b, taken, table.fields) # row.id        THEN <<>>
     ELSE << [row |-> i, taken |-> taken] >>

\* A plausible slip: an object goes in front of the ones before it.
ReadObjectInFront ==
  /\ getter # 0
  /\ next <= Len(sql_data)
  /\ data' = Objects(sql_data[next], Tables[getter], next) \o data
  /\ next' = next + 1
  /\ UNCHANGED <<objs, getter, sql_data>>

\* A plausible slip: the row is fetched when its turn comes.
ReadObjectLate ==
  /\ getter # 0
  /\ next <= Len(sql_data)
  /\ data' = IF next <= Len(objs)
             THEN data \o Objects(objs[next], Tables[getter], next) ELSE data
  /\ next' = next + 1
  /\ UNCHANGED <<objs, getter, sql_data>>

ReadObject ==
  /\ getter # 0
  /\ next <= Len(sql_data)
  /\ data' = data \o Objects(sql_data[next], Tables[getter], next)
  /\ next' = next + 1
  /\ UNCHANGED <<objs, getter, sql_data>>

\* The getter returns its objects.
Return ==
  /\ getter # 0
  /\ next > Len(sql_data)
  /\ getter' = 0
  /\ UNCHANGED <<objs, sql_data, next, data>>

\* Another process changes the file.
Change ==
  /\ objs' \in Databases
  /\ UNCHANGED <<getter, sql_data, next, data>>

Next ==
  \/ \E t \in DOMAIN Tables : GetObjs(t)
  \/ ReadObject
  \/ Return
  \/ Change

Spec == Init /\ [][Next]_vars
-----------------------------------------------------------------------------
TypeOK ==
  /\ objs \in Databases
  /\ getter \in {0} \cup DOMAIN Tables
  /\ \E rows \in Databases : \E n \in 0..Len(rows) : sql_data = SubSeq(rows, 1, n)
  /\ next \in 1..(Len(sql_data) + 1)
  /\ \A j \in DOMAIN data : data[j].row \in 1..(next - 1)

Running == getter # 0

\* The objects a getter has are in the order of the rows, no row twice.
OneObjectPerRow ==
  \A j, k \in DOMAIN data : j < k => data[j].row < data[k].row

\* A row whose blob a reader of the table can tell apart gives an object if
\* and only if it has the format of the table and the blob and the row agree
\* on the identifier, and the object has all the members of the blob and
\* nothing else.
PlainRowsAreExact ==
  Running =>
    \A i \in 1..(next - 1), k \in 0..Len(Tables[getter].fields) :
      LET b      == sql_data[i].blob
          fields == Tables[getter].fields
      IN PlainUpTo(b, fields, k) =>
           {data[j].taken : j \in {j \in DOMAIN data : data[j].row = i}} =
             IF FormatOf(b) = Tables[getter].format /\ IdentifierOf(b, k) = sql_data[i].id
             THEN {MembersOf(b, fields, k)} ELSE {}

\* No row gives an object of a table whose format its blob does not have, nor
\* does a blob without data formats give any.
OnlyRowsOfTheTable ==
  Running =>
    \A j \in DOMAIN data :
      LET b == sql_data[data[j].row].blob
      IN FormatThere(b) /\ FormatOf(b) = Tables[getter].format

\* Where the reader may stand before the m-th call: where it began, or behind
\* a member it had taken whole by then.
Ends(b, o, taken, m) ==
  {o} \cup {FieldEnd(b, s.at) : s \in {s \in taken : s.member < m /\ s.filled = "whole"}}

\* From "from" the m-th call gets to "at" over headers, one behind the other,
\* which earlier calls passed and lost.
Slipped(b, fields, from, at, m) ==
  \E k \in 0..Len(b) :
    /\ at = from + k * HeaderSize
    /\ \A i \in 0..(k - 1) : \E n \in 1..(m - 1) :
         HeaderLost(b, from + i * HeaderSize, fields[n].kind, fields[n].id)

\* What was taken was taken at the last place the reader could stand at, or
\* behind headers lost from there on.
InPlace(b, o, fields, taken, t) ==
  \E from \in Ends(b, o, taken, t.member) :
    /\ \A e \in Ends(b, o, taken, t.member) : e <= from
    /\ Slipped(b, fields, from, t.at, t.member)

\* A member taken whole is a field of its kind and identifier that is there; one
\* taken in part is one that is cut off, or a list too short for an address.
OfItsKind(b, fields, t) ==
  IF t.filled = "whole" THEN Readable(b, t.at, fields[t.member].kind, fields[t.member].id)
  ELSE CutShort(b, t.at, fields[t.member].kind, fields[t.member].id)

\* Whatever the blob, however damaged or out of order, every member of an
\* object is a field of the kind and the identifier asked for, and was taken
\* just behind the member taken whole before it, or else behind the headers a
\* failed call left the cursor behind, a Long asked for as an Int and a cut off
\* payload of fixed size and no other: only behind such a header is a payload
\* read as fields.  A field that is cut off, or a list too short for an address,
\* leaves the cursor before it, so several members may take their part of it.
MembersInPlace ==
  Running =>
    \A j \in DOMAIN data :
      LET b      == sql_data[data[j].row].blob
          fields == Tables[getter].fields
          taken  == data[j].taken
      IN \A t \in taken : /\ InPlace(b, FieldEnd(b, FirstField), fields, taken, t)
                          /\ OfItsKind(b, fields, t)
=============================================================================
