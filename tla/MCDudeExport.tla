---------------------------- MODULE MCDudeExport -----------------------------
(***************************************************************************)
(* Saving three of the tables while another process moves the file between *)
(* three contents: a row is deleted and comes back, another changes its    *)
(* table, a third stays.                                                   *)
(***************************************************************************)
EXTENDS DudeExport, DudeTables, SmallBlobs

LOCAL T == FieldType

Row(id, fields) == [id |-> <<id, 0, 0, 0>>, blob |-> BytesOf(fields)]

Id(n) == Field(FieldId.SysId, T.Byte, <<n>>)

Tool(n)   == Row(n, <<Format(<<4>>), Id(n), Field(FieldId.SysName, T.ShortString, <<1, 65>>)>>)
Device(n) == Row(n, <<Format(<<15>>), Id(n)>>)
List(n)   == Row(n, <<Format(<<42>>), Field(7, T.BoolTrue, <<>>), Id(n)>>)

MCTables == <<ToolTable, DeviceTable, ObjectListTable>>

MCListed == <<2>>

MCDatabases ==
  { <<Tool(1), Device(2)>>, <<Device(1), Device(2)>>, <<Device(2), List(3)>> }
=============================================================================
