--------------------------- MODULE MCSqliteReader ----------------------------
(***************************************************************************)
(* Queries on a file that another process empties, fills and shortens.     *)
(* A row is known by a letter.                                             *)
(***************************************************************************)
EXTENDS SqliteReader

MCDatabases == {<<>>, <<"a", "b", "c">>, <<"a", "c">>, <<"d">>}
=============================================================================
