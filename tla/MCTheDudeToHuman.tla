-------------------------- MODULE MCTheDudeToHuman ---------------------------
(***************************************************************************)
(* Two runs.  The first is started with every line of up to four of six    *)
(* arguments, every text of up to five of four tokens for -m, and lines    *)
(* for what is left; the second with lines chosen for what a run can leave *)
(* behind.  "a" is a database, "p" a compressed one.                       *)
(***************************************************************************)
EXTENDS TheDudeToHuman, TLC

F == <<"-", "f">>
O == <<"-", "o">>
C == <<"-", "c">>
M == <<"-", "m">>
A == <<"a">>
B == <<"b">>
P == <<"p">>
PTmp  == <<"p", ".tmp">>
DB    == <<"DudeToHuman.db">>
DBTmp == <<"DudeToHuman.db", ".tmp">>
Ends  == <<"-", "-">>
User  == <<"u", "@", "ip">>

ShortLines == UNION {[1..n -> {F, O, C, Ends, A, P}] : n \in 0..4}

AddressLines == {<<M, text>> : text \in UNION {[1..n -> {"u", "@", ":", "1"}] : n \in 1..5}}

PortLines ==
  {<<M, User \o <<":">> \o port>> :
     port \in {<<"2", "2">>, <<"0">>, <<"0", "2", "2">>, <<"0", "8">>,
               <<"6", "5", "5", "3", "5">>, <<"6", "5", "5", "3", "6">>,
               <<"6", "5", "5", "5", "8">>, <<"2", "2", "2", "2", "2", "2", "2">>}}
  \cup {<<M, User \o <<":", "8", "1">>, M, <<"v", "@", "ip">>>>,
        <<M, User, M, <<"v", "@", "ip", ":", "8", "1">>>>}

LongLines ==
  {<<<<"-", "-", "file">>, A, C>>, <<<<"-", "-", "file", "=", "a">>, B>>,
   <<<<"-", "-", "fi">>, A, <<"-", "-", "o", "=", "b">>>>, <<<<"-", "-", "=", "a">>, A>>,
   <<<<"-", "-", "credentials", "=", "a">>, A>>, <<A, <<"-", "-", "out">>>>,
   <<<<"-", "-", "nothing">>, P>>, <<<<"-", "x", "c", "o", "b">>, A>>,
   <<<<"-", "c", "f", "p">>, <<"-", "o", "b">>>>, <<<<"-">>, <<"-", "c">>, O, B, A>>,
   <<A, B, <<"-", "h">>>>, <<<<"-", "v">>, A, B>>, <<<<"-", "-", "help">>>>,
   <<<<"-", "c", "-">>, O, B, A>>, <<<<"-", "c", "-", "o">>, B, A>>,
   <<O, B, A, P, Ends, C>>, <<A, C, P, O, B, Ends>>, <<A, O, B, F, P, C, Ends>>}

DeviceLines ==
  {<<M, User, O, B>>, <<M, <<"u", ":", "@", "ip">>, O, B, C>>, <<F, A, M, User, O, DB>>,
   <<M, <<"u", "@", "name">>, O, B>>, <<M, User, F, A, O, DBTmp>>}

LaterLines ==
  DeviceLines
  \cup {<<F, DB, O, B>>, <<F, P, O, B>>, <<F, P, O, PTmp>>, <<F, B, O, A>>, <<F, A, O, A>>}

TwoRuns ==
  <<ShortLines \cup AddressLines \cup PortLines \cup LongLines \cup DeviceLines \cup LaterLines,
    LaterLines>>

SomeDatabases == (A :> <<<<0, 1>>>>) @@ (P :> <<<<0, 2>>>>)

SomePacked == {P, DB}
Addresses  == {<<"ip">>}
Password   == <<"typed">>
TheDigits  == [i \in {"0", "1", "2", "3", "5", "6", "8"} |->
                 CASE i = "0" -> 0 [] i = "1" -> 1 [] i = "2" -> 2 [] i = "3" -> 3
                   [] i = "5" -> 5 [] i = "6" -> 6 [] i = "8" -> 8]
Beginnings == {<<"fi", "file">>, <<"o", "out">>}
=============================================================================
