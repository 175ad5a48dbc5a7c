-------------------------- MODULE MCDudeFieldParser --------------------------
(***************************************************************************)
(* Small blobs for the parser: every type of field, fields without an      *)
(* identifier, fields cut off by the end of the blob, a refused format.    *)
(***************************************************************************)
EXTENDS DudeFieldParser, SmallBlobs

\* The magic and the fields, without the last "lost" bytes.
Blob(fields, lost) ==
  LET whole == BytesOf(fields)
      kept  == SubSeq(whole, 1, Len(whole) - lost)
      ends  == {2 + Len(FlattenSeq(SubSeq(fields, 1, n))) : n \in 0..Len(fields)}
  IN [bytes |-> kept, starts |-> ends \cap 0..Len(kept)]

SmallFields ==
  << Format(<<4>>), Field(1, FieldType.BoolTrue, <<>>),
     Field(2, FieldType.Int, <<7, 0, 0, 0>>), Field(1, FieldType.Byte, <<9>>),
     Field(2, FieldType.BoolFalse, <<>>) >>

\* The bytes of the Long are themselves a header and an Int for whoever stops
\* behind its header.
LongFields ==
  << Format(<<4>>), Field(1, FieldType.Long, Field(2, FieldType.Int, <<5, 0, 0, 0>>)),
     Field(2, FieldType.LongLong, Filler(16, 1)) >>

CountedFields ==
  << Format(<<4, 5>>), Field(1, FieldType.ShortString, <<3, 65, 66, 67>>),
     Field(2, FieldType.LongString, <<2, 0, 65, 66>>),
     Field(1, FieldType.IntArray, <<1, 0, 8, 0, 0, 0>>),
     Field(2, FieldType.LongArray, <<6>> \o Filler(6, 170)) >>

StringsFields ==
  << Format(<<4>>), Field(1, FieldType.StringArray, <<2, 0, 1, 0, 65, 2, 0, 66, 67>>),
     Field(2, FieldType.StringArray, <<0, 0>>) >>

EmptyFields ==
  << Format(<<4>>), Field(1, FieldType.ShortString, <<0>>),
     Field(2, FieldType.LongArray, <<0>>), Field(1, FieldType.LongArray, <<3, 1, 2, 3>>) >>

\* A field without an identifier, and one whose type nothing knows.
OddFields ==
  << Format(<<4>>), Field(0, FieldType.Int, <<7, 0, 0, 0>>),
     Field(0, FieldType.ShortString, <<1, 65>>), Field(0, FieldType.Long, Filler(8, 0)),
     Field(1, 2, <<>>) >>

MCBlobs ==
  {Blob(SmallFields, lost) : lost \in {0, 6, 10}}
    \cup {Blob(LongFields, lost) : lost \in {0, 1, 25}}
    \cup {Blob(CountedFields, lost) : lost \in {0, 1, 6, 12, 18, 22, 25, 35, 42, 46}}
    \cup {Blob(StringsFields, lost) : lost \in {0, 1, 7, 9, 11}}
    \cup {Blob(EmptyFields, lost) : lost \in {0, 1, 8}}
    \cup {Blob(OddFields, 0), Blob(<<Format(<<>>), Field(1, FieldType.BoolTrue, <<>>)>>, 0)}

MCIds == {1, 2}
=============================================================================
