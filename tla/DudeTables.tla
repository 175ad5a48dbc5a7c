------------------------------ MODULE DudeTables ------------------------------
(***************************************************************************)
(* The tables the program knows: the data format that marks their rows,    *)
(* and the members their readers ask the parser for, in that order.  The   *)
(* numbers are those of the enumerations DataFormat and FieldId.           *)
(***************************************************************************)
EXTENDS Integers, Sequences

LOCAL SysId   == \hfe0001
LOCAL SysName == \hfe0010

LOCAL Of(kind, ids) == [n \in 1..Len(ids) |-> [kind |-> kind, id |-> ids[n]]]

LOCAL Bools(ids) == Of("Bool", ids)
LOCAL Bytes(ids) == Of("Byte", ids)
LOCAL Ints(ids) == Of("Int", ids)
LOCAL IntArrays(ids) == Of("IntArray", ids)
LOCAL Longs(ids) == Of("Long", ids)
LOCAL LongArrays(ids) == Of("LongArray", ids)
LOCAL LongLongs(ids) == Of("LongLong", ids)
LOCAL Macs(ids) == Of("Mac", ids)
LOCAL StringArrays(ids) == Of("StringArray", ids)
LOCAL Texts(ids) == Of("Text", ids)
LOCAL Times(ids) == Of("Time", ids)

\* A data format is compared as the four bytes it takes in a blob.
LOCAL Table(format, fields) == [format |-> <<format, 0, 0, 0>>, fields |-> fields]

ServerConfigTable == Table(\h03,
  IntArrays(<<\h101015, \h101002, \h101001, \h100ff1, \h100fef, \h100faf>>) \o
  Bools(<<\h100ff5, \h100ff6, \h100ff7, \h100fcc, \h100ff8, \h100fa2, \h100ff9, \h100ffa,
  \h100fd1, \h100ffb, \h100ffc, \h100fd6, \h100fab, \h100fdb, \h100fb2, \h100fde, \h100fb4,
  \h10100d, \h10100e, \h100fe3, \h100fb9, \h100fba>>) \o Ints(<<SysId>>) \o
  Bytes(<<\h100fa1>>) \o Ints(<<\h100fa9, \h100faa, \h100fac, \h100fad, \h100fae, \h100fb3,
  \h100fb5, \h100fb6, \h100fbb, \h100fbc, \h100fbd, \h100fbe, \h100fbf, \h100fc0, \h100fc1,
  \h100fc2, \h100fc3, \h100fc4, \h100fc5, \h100fc6, \h100fc7, \h100fc8, \h100fc9,
  \h100fca>>) \o Bytes(<<\h100fcf, \h100fd4, \h100fd9, \h100fdc, \h100fe2>>) \o
  Ints(<<\h100fe4>>) \o Bytes(<<\h100fe5, \h100fe6>>) \o Ints(<<\h100fe7, \h100fe8,
  \h100fe9, \h100fea, \h100feb, \h100fec, \h100fed>>) \o Bytes(<<\h100ff3, \h100ff4,
  \h100ffd, \h100ffe, \h100fff>>) \o Ints(<<\h101000>>) \o Bytes(<<\h101003, \h101004,
  \h101005, \h101006, \h101007, \h101008>>) \o Ints(<<\h10100a, \h10100b>>) \o
  Bytes(<<\h10100c>>) \o Ints(<<\h10100f>>) \o Bytes(<<\h101010>>) \o Ints(<<\h101017>>) \o
  Texts(<<\h101018>>) \o LongArrays(<<\h100ff0, \h100fee, \h100fe1>>) \o Texts(<<\h100fe0,
  \h100fdf>>) \o LongArrays(<<\h100fdd, \h100fda>>) \o Texts(<<\h100fd8, \h100fd7>>) \o
  LongArrays(<<\h100fd5>>) \o Texts(<<\h100fd3, \h100fd2>>) \o LongArrays(<<\h100fd0>>) \o
  Texts(<<\h100fce, \h100fcd>>) \o LongArrays(<<\h100fa0>>) \o Texts(<<SysName>>))

ToolTable == Table(\h04,
  Bools(<<\h107531>>) \o Bytes(<<\h107530>>) \o Ints(<<\h107533, SysId>>) \o
  Texts(<<\h107532, SysName>>))

FileTable == Table(\h05,
  Ints(<<\h10697a, SysId>>) \o Texts(<<\h106978, SysName>>))

NotesTable == Table(\h09,
  Ints(<<SysId, \h105208>>) \o Times(<<\h105209>>) \o Texts(<<SysName>>))

MapTable == Table(\h0a,
  IntArrays(<<\h1061f9>>) \o Bools(<<\h1061c0, \h1061c1, \h1061c2, \h1061c3, \h1061c5,
  \h1061c6, \h1061c7, \h1061c8, \h1061c9, \h1061ca, \h1061cb, \h1061cc, \h1061cd, \h1061ce,
  \h1061cf, \h1061d0, \h1061d1, \h1061d2, \h1007d1, \h1061f4, \h1061f8, \h1061fa, \h1061a8,
  \h1061ac, \h1061ae, \h1061af, \h1061b0, \h1061b1, \h1061b2, \h1061b3, \h1061b4, \h1061b5,
  \h1061b6, \h1061b7, \h1061b8, \h1061b9, \h1061ba, \h1061bb, \h1061bc, \h1061bd, \h1061be,
  \h1061bf>>) \o Ints(<<\h1061f1, \h1061f2, \h1061f3, \h1061f5, \h1061f6, \h1061f7, SysId,
  \h1061a9, \h1061aa, \h1061ab, \h1061ad, \h1061d3, \h1061d4, \h1061d5, \h1061d6, \h1061d7,
  \h1061d8, \h1061d9, \h1061da, \h1061db, \h1061dc, \h1061dd, \h1061de, \h1061df, \h1061e0,
  \h1061e1, \h1061e2, \h1061e5, \h1061e8, \h1061eb, \h1061ed>>) \o LongArrays(<<\h1061f0>>)
  \o Texts(<<\h1061ef>>) \o LongArrays(<<\h1061ee, \h1061ec>>) \o Texts(<<\h1061ea>>) \o
  LongArrays(<<\h1061e9>>) \o Texts(<<\h1061e7>>) \o LongArrays(<<\h1061e6>>) \o
  Texts(<<\h1061e4, \h1007d0, SysName>>))

ProbeTable == Table(\h0d,
  IntArrays(<<\h1036cd, \h1036cb, \h1036c4, \h1036c1>>) \o Bools(<<\h1036c2, \h1036b8,
  \h1036b9>>) \o Bytes(<<\h1036cc>>) \o Ints(<<\h1036b0, SysId, \h1036b1, \h1036b2>>) \o
  Bytes(<<\h1036b3, \h1036b5>>) \o Ints(<<\h1036b6>>) \o Bytes(<<\h1036b7, \h1036b4>>) \o
  Ints(<<\h1036c3>>) \o Bytes(<<\h1036c5, \h1036c6, \h1036c7, \h1036c8>>) \o
  Texts(<<\h1036d1, \h1036d0, \h1036cf, \h1036ce, \h1036ca>>) \o Longs(<<\h1036c9>>) \o
  Texts(<<\h1036c0, \h1036bf, \h1036be, \h1036bd, \h1036bc, \h1036bb, \h1036ba, SysName>>))

DeviceTypeTable == Table(\h0e,
  IntArrays(<<\h102712, \h102711, \h102710>>) \o Ints(<<\h102713>>) \o Bytes(<<\h102714>>)
  \o Ints(<<SysId, \hfe0005>>) \o Texts(<<\h102715, SysName>>))

DeviceTable == Table(\h0f,
  IntArrays(<<\h101f57, \h101f56>>) \o StringArrays(<<\h101f41>>) \o IntArrays(<<\h101f40>>)
  \o Bools(<<\h101f49, \h101f4a, \h101f4b, \h101f55, \h101f51>>) \o Bytes(<<\h101f42>>) \o
  Ints(<<\h101f43>>) \o Bytes(<<\h101f45>>) \o Ints(<<\h101f4c, \h101f4d, \h101f4e, SysId,
  \h101f52, \h101f53, \h101f54>>) \o Texts(<<\h101f5a, \h101f59, \h101f58, \h101f47,
  \h101f46>>) \o Macs(<<\h101f44>>) \o Texts(<<SysName>>))

NetworkTable == Table(\h10,
  IntArrays(<<\h102af8>>) \o Ints(<<SysId, \h102afa, \h102af9>>) \o Texts(<<SysName>>))

ServiceTable == Table(\h11,
  IntArrays(<<\h102ee9>>) \o Bools(<<\h102ee0, \h102eeb, \h102ee8, \h102eea>>) \o
  Ints(<<\h102ee4, \h102ee5, \h102ee6, \h102ee7, \h102eec>>) \o Bytes(<<\h102eed>>) \o
  Ints(<<\h102eef, \h102ef0, \h102ef1, \h102ef2, \h102ef3, \h102ef4, SysId, \h102ee1,
  \h102ee2, \h102ee3>>) \o Longs(<<\h102eee>>) \o Texts(<<SysName>>))

NotificationTable == Table(\h18,
  IntArrays(<<\h103e95, \h103e8f>>) \o StringArrays(<<\h103e8a>>) \o IntArrays(<<\h103e82>>)
  \o Bools(<<\h103e91, \h103e80>>) \o Bytes(<<\h103e88, \h103e8c>>) \o Ints(<<\h103e8d,
  \h103e8e, \h103e92>>) \o Bytes(<<\h103e93, \h103e94>>) \o Ints(<<\h103e96, \h103e97>>) \o
  Bytes(<<\h103e98>>) \o Ints(<<SysId, \h103e81, \h103e84, \h103e85>>) \o Texts(<<\h103e90,
  \h103e8b, \h103e89, \h103e99, \h103e87, \h103e86, \h103e9b>>) \o LongLongs(<<\h103e9a>>)
  \o Texts(<<\h103e83, SysName>>))

LinkTable == Table(\h1f,
  Bools(<<\h1055f7>>) \o Bytes(<<\h1055f0>>) \o Ints(<<\h1055f1, \h1055f2, \h1055f4,
  \h1055f5, \h1055f6, \h1055f8, SysId, \h1055f9>>) \o Longs(<<\h1055f3>>) \o
  Texts(<<SysName>>))

LinkTypeTable == Table(\h22,
  Ints(<<SysId>>) \o Bytes(<<\h1059d8, \h1059d9>>) \o Ints(<<\h1059da, \hfe0005>>) \o
  Longs(<<\h1059db>>) \o Texts(<<SysName>>))

DataSourceTable == Table(\h29,
  Bools(<<\h10bf68>>) \o Ints(<<\h10bf6f, \h10bf71>>) \o Bytes(<<\h10bf69>>) \o
  Ints(<<SysId, \h10bf6b, \h10bf6c, \h10bf6d, \h10bf6e>>) \o Texts(<<\h10bf70, \h10bf6a,
  SysName>>))

ObjectListTable == Table(\h2a,
  Bools(<<\h1007d1>>) \o Ints(<<SysId>>) \o Texts(<<\h1007d0, SysName>>))

DeviceGroupTable == Table(\h31,
  IntArrays(<<\h102328>>) \o Ints(<<SysId>>) \o Texts(<<SysName>>))

FunctionTable == Table(\h39,
  StringArrays(<<\h10cb25>>) \o Bools(<<\h10cb20>>) \o Bytes(<<\h10cb23, \h10cb24>>) \o
  Ints(<<SysId>>) \o Texts(<<\h10cb22, \h10cb21, SysName>>))

SnmpProfileTable == Table(\h3a,
  Ints(<<\h113c68, \h113c6a>>) \o Bytes(<<\h113c6b, \h113c6c, \h113c6e, \h113c71>>) \o
  Ints(<<\h113c72, SysId>>) \o Texts(<<\h113c6f, \h113c6d, \h113c69, SysName>>))

PanelTable == Table(\h3b,
  Bools(<<\h1007d1, \h104e22, \h104e23>>) \o Ints(<<SysId, \h104e20>>) \o Texts(<<\h104e21,
  \h1007d0, SysName>>))

SysLogRuleTable == Table(\h43,
  Bools(<<\h101775, \h101776, \h101777, \h101770, \h101774>>) \o Ints(<<\h101771,
  \h101772>>) \o Bytes(<<\h101778>>) \o Ints(<<\h101779, SysId, \hfe0005>>) \o
  Texts(<<\h101773, SysName>>))

NetworkMapElementTable == Table(\h4a,
  Bools(<<\h105dcc, \h105dcd, \h105dce, \h105dcf, \h105dd0, \h105dd1, \h105dde, \h105dc8,
  \h105dc9, \h105dca, \h105dcb>>) \o Ints(<<\h105dd2, \h105dd3, \h105dd4, \h105dd5,
  \h105dd6>>) \o Bytes(<<\h105dd7>>) \o Ints(<<\h105dd9>>) \o Bytes(<<\h105dda>>) \o
  Ints(<<\h105ddb, \h105ddc, \h105ddd>>) \o Bytes(<<\h105ddf>>) \o Ints(<<SysId, \h105dc0>>)
  \o Bytes(<<\h105dc2, \h105dc3>>) \o Ints(<<\h105dc4, \h105dc5, \h105dc6, \h105dc7>>) \o
  LongArrays(<<\h105dd8>>) \o Texts(<<SysName>>))

ChartLineTable == Table(\h4b,
  Ints(<<\h10c350, \h10c351>>) \o Bytes(<<\h10c352>>) \o Ints(<<\h10c353>>) \o
  Bytes(<<\h10c354>>) \o Ints(<<\h10c355>>) \o Bytes(<<\h10c356>>) \o Ints(<<SysId,
  \hfe0005>>) \o Texts(<<SysName>>))

PanelElementTable == Table(\h4d,
  Bools(<<\h104a39>>) \o Ints(<<\h104a38>>) \o Bytes(<<\h104a3a>>) \o Ints(<<\h104a3b,
  \h104a3c, \h104a3d, \h104a3e, SysId>>) \o LongArrays(<<\h104a3f>>) \o Texts(<<SysName>>))

\* The tables in the order SerializeDatabaseJson writes them.
AllTables ==
  <<ServerConfigTable, ToolTable, FileTable, NotesTable, MapTable, ProbeTable,
    DeviceTypeTable, DeviceTable, NetworkTable, ServiceTable, NotificationTable,
    LinkTable, LinkTypeTable, DataSourceTable, ObjectListTable, DeviceGroupTable,
    FunctionTable, SnmpProfileTable, PanelTable, SysLogRuleTable,
    NetworkMapElementTable, ChartLineTable, PanelElementTable>>
===============================================================================
