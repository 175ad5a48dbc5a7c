----------------------------- MODULE DudeObjects -----------------------------
(***************************************************************************)
(* The structures of dude_types.h, one for each table: which members their *)
(* SerializeJson writes, and how.  Each has its identifier and its name    *)
(* first and the other members in the order in which they are declared,    *)
(* which is the order of the table; the labels are left out.               *)
(***************************************************************************)
EXTENDS DudeTables

\* masked are the members that come as stars without has_credentials, fonts
\* those of type FontField, forgotten those no SerializeJson mentions.
LOCAL Structure(table, masked, fonts, forgotten) ==
  [fields |-> table.fields, masked |-> masked, fonts |-> fonts,
   written |-> {n \in DOMAIN table.fields : table.fields[n].id \notin forgotten}]

LOCAL Plain(table) == Structure(table, {}, {}, {})

ServerConfigData ==
  Structure(ServerConfigTable, {},
    {\h100ff0, \h100fee, \h100fe1, \h100fdd, \h100fda, \h100fd5, \h100fd0},
    {})

ToolData == Plain(ToolTable)

FileData == Plain(FileTable)

NotesData == Plain(NotesTable)

MapData ==
  Structure(MapTable, {}, {\h1061f0, \h1061ee, \h1061ec, \h1061e9, \h1061e6}, {})

ProbeData == Plain(ProbeTable)

DeviceTypeData == Plain(DeviceTypeTable)

DeviceData == Structure(DeviceTable, {\h101f47, \h101f46}, {}, {})

NetworkData == Plain(NetworkTable)

ServiceData == Plain(ServiceTable)

\* A plausible slip: the user is no secret.
NotificationDataOfUser == Structure(NotificationTable, {\h103e87}, {}, {})

NotificationData == Structure(NotificationTable, {\h103e87, \h103e86}, {}, {})

LinkData == Plain(LinkTable)

LinkTypeData == Plain(LinkTypeTable)

DataSourceData == Plain(DataSourceTable)

ObjectListData == Plain(ObjectListTable)

DeviceGroupData == Plain(DeviceGroupTable)

FunctionData == Plain(FunctionTable)

SnmpProfileData == Structure(SnmpProfileTable, {\h113c6f, \h113c6d}, {}, {})

PanelData == Plain(PanelTable)

SysLogRuleData == Plain(SysLogRuleTable)

NetworkMapElementData ==
  Structure(NetworkMapElementTable, {}, {\h105dd8}, {\h105dd9, \h105dda})

ChartLineData == Plain(ChartLineTable)

PanelElementData == Plain(PanelElementTable)

\* All of them, in the order of the tables.
AllStructures ==
  <<ServerConfigData, ToolData, FileData, NotesData, MapData, ProbeData,
    DeviceTypeData, DeviceData, NetworkData, ServiceData, NotificationData,
    LinkData, LinkTypeData, DataSourceData, ObjectListData,
    DeviceGroupData, FunctionData, SnmpProfileData, PanelData,
    SysLogRuleData, NetworkMapElementData, ChartLineData, PanelElementData>>
==============================================================================
