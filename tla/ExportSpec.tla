------------------------------ MODULE ExportSpec -----------------------------
(***************************************************************************)
(* What saving a database promises: the document gets the tables one after *)
(* the other, each in one step and from the rows "objs" has at that        *)
(* moment.  The rows of two tables may be of different moments, and a      *)
(* query may fail and give the first rows only; the objects of the rows    *)
(* it gave are decided by the format of the blobs alone.                   *)
(***************************************************************************)
EXTENDS RowFormat

CONSTANTS Databases, Tables

VARIABLES
  contents,  \* the rows of "objs"
  document   \* for each table written so far, its objects

vars == <<contents, document>>

Init ==
  /\ contents \in Databases
  /\ document = <<>>

\* The row an object was made of; identifiers are unique.
RowOf(rows, object) == CHOOSE i \in DOMAIN rows : rows[i].id = object.id

\* Objects a table may have when its query gave these rows: each of a row of
\* its own, in their order and of the format of the table; and of the rows
\* that can be told apart, those whose blob agrees with them on the
\* identifier, with all their members.
AnswerFor(objects, rows, table) ==
  /\ \A j \in DOMAIN objects :
       \E i \in DOMAIN rows :
         /\ rows[i].id = objects[j].id
         /\ FormatThere(rows[i].blob)
         /\ FormatOf(rows[i].blob) = table.format
  /\ \A j, k \in DOMAIN objects :
       j < k => RowOf(rows, objects[j]) < RowOf(rows, objects[k])
  /\ \A i \in DOMAIN rows, k \in 0..Len(table.fields) :
       PlainUpTo(rows[i].blob, table.fields, k) =>
         {objects[j].taken : j \in {j \in DOMAIN objects : objects[j].id = rows[i].id}} =
           IF FormatOf(rows[i].blob) = table.format
              /\ IdentifierOf(rows[i].blob, k) = rows[i].id
           THEN {MembersOf(rows[i].blob, table.fields, k)} ELSE {}

SaveTable ==
  /\ Len(document) < Len(Tables)
  /\ Len(document') = Len(document) + 1
  /\ SubSeq(document', 1, Len(document)) = document
  /\ \E n \in 0..Len(contents) :
       AnswerFor(document'[Len(document')], SubSeq(contents, 1, n), Tables[Len(document')])
  /\ UNCHANGED contents

Change ==
  /\ contents' \in Databases
  /\ UNCHANGED document

Next == SaveTable \/ Change

Spec == Init /\ [][Next]_vars
=============================================================================
