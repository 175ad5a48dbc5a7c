--------------------------- MODULE MCDudeDatabase ----------------------------
(***************************************************************************)
(* The getters of all the tables over small databases, whose rows are      *)
(* whole, incomplete, out of order, damaged, foreign or at odds with their *)
(* own identifier.                                                         *)
(***************************************************************************)
EXTENDS DudeDatabase, DudeTables, SmallBlobs

Row(id, fields) == [id |-> <<id, 0, 0, 0>>, blob |-> BytesOf(fields)]

\* The m-th member of a table.
Of(table, m, type, payload) == Field(table.fields[m].id, type, payload)

Number(n)   == <<n, 0, 0, 0>>
Text(bytes) == <<Len(bytes)>> \o bytes
Stranger    == Field(7, FieldType.Int, Number(1))

LOCAL T == FieldType

Builtin    == Of(ToolTable, 1, T.BoolTrue, <<>>)
ToolType   == Of(ToolTable, 2, T.Byte, <<2>>)
DeviceId   == Of(ToolTable, 3, T.Int, Number(9))
ToolId(n)  == Of(ToolTable, 4, T.Int, Number(n))
Command    == Of(ToolTable, 5, T.ShortString, Text(<<65, 66>>))
ToolName   == Of(ToolTable, 6, T.LongString, <<1, 0, 67>>)

\* Rows a reader can tell apart.
WholeTool    == Row(1, <<Format(<<4>>), Builtin, ToolType, DeviceId, ToolId(1), Command, ToolName>>)
PartOfTool   == Row(2, <<Format(<<4, 5>>), ToolType, Of(ToolTable, 4, T.Byte, <<2>>), ToolName>>)
LaterTool    == Row(3, <<Format(<<4>>), Builtin, ToolId(3), Stranger, ToolName>>)
BlockedTool  == Row(4, <<Format(<<4>>), Stranger, ToolId(4), ToolName>>)
ReverseTool  == Row(5, <<Format(<<4>>), Command, ToolId(5)>>)
WrongTool    == Row(6, <<Format(<<4>>), Builtin, ToolId(7), ToolName>>)
NamelessTool == Row(0, <<Format(<<4>>), Builtin, Command>>)
SmallLink    == Row(8, <<Format(<<34>>), Of(LinkTypeTable, 1, T.Int, Number(8)),
                         Of(LinkTypeTable, 2, T.Byte, <<1>>),
                         Of(LinkTypeTable, 6, T.Long, Filler(8, 1))>>)
SmallDevice  == Row(9, <<Format(<<15>>), Of(DeviceTable, 1, T.IntArray, <<1, 0>> \o Number(3)),
                         Of(DeviceTable, 3, T.StringArray, <<1, 0, 1, 0, 65>>),
                         Of(DeviceTable, 16, T.Int, Number(9)),
                         Of(DeviceTable, 25, T.LongArray, <<6>> \o Filler(6, 170))>>)
Foreign      == Row(10, <<Format(<<45>>), ToolId(10)>>)
Formatless   == Row(11, <<Format(<<>>), ToolId(11)>>)
Empty        == [id |-> Number(12), blob |-> <<>>]

\* Rows it cannot: a Long where the identifier should be, a field that has no
\* identifier, an address list too short, a blob cut off in two places.
LongTool     == Row(13, <<Format(<<4>>), Of(ToolTable, 4, T.Long, ToolId(13)), ToolName>>)
UnmarkedTool == Row(14, <<Format(<<4>>), Field(0, T.Int, Number(14)), ToolId(14), ToolName>>)
OddDevice    == Row(15, <<Format(<<15>>), Of(DeviceTable, 16, T.Int, Number(15)),
                          Of(DeviceTable, 25, T.LongArray, <<2, 1, 1>>)>>)
CutTool(n)   == [WholeTool EXCEPT !.blob = SubSeq(@, 1, Len(@) - n)]

\* Rows whose payloads look like fields: behind a Long asked for as an Int, once
\* and twice; behind a Long cut off; and where only a call that fails to go
\* back would read them.  In the last a text without an identifier is cut off.
Inside       == Of(ToolTable, 5, T.ShortString, <<>>)
SlippedTool  == Row(0, <<Format(<<4>>), Of(ToolTable, 4, T.Long, Inside \o <<3, 65, 66, 67>>),
                         ToolName>>)
TwiceSlipped == Row(0, <<Format(<<4>>),
                         Of(ToolTable, 3, T.Long, Of(ToolTable, 4, T.Long, <<>>) \o Inside),
                         Text(<<65>>), ToolName>>)
CutLink      == Row(0, <<Format(<<34>>),
                         Of(LinkTypeTable, 6, T.Long, Of(LinkTypeTable, 7, T.ShortString, Text(<<65>>)))>>)
HiddenTool   == Row(0, <<Format(<<4>>), Field(0, T.Int, Inside), Text(<<65, 66>>)>>)
CutText      == Row(0, <<Format(<<4>>), Builtin, Field(0, T.ShortString, <<9, 65>>)>>)

MCDatabases ==
  { <<WholeTool, SmallDevice, PartOfTool, SmallLink>>,
    <<LaterTool, BlockedTool, ReverseTool, WrongTool, CutText>>,
    <<NamelessTool, Foreign, Formatless, Empty, WholeTool>>,
    <<LongTool, UnmarkedTool, OddDevice, CutTool(1), HiddenTool>>,
    <<SmallDevice, CutTool(14), SlippedTool>>,
    <<TwiceSlipped, PartOfTool>>,
    <<CutLink, SmallLink>>,
    <<>> }
=============================================================================
