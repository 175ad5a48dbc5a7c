------------------------------ MODULE MCDudeJson -----------------------------
(***************************************************************************)
(* An object of each of the 23 tables that holds something in one member,  *)
(* in the small tables behind another object: all short texts over the     *)
(* characters Sanitize tells apart, texts that are longer or were cut off, *)
(* fonts of every shape, numbers of any width.                             *)
(***************************************************************************)
EXTENDS DudeJson, DudeObjects

Alphabet == {0, 1, 34, 92, 97}

Text(bytes) == [text_size |-> Len(bytes), text |-> bytes]

\* The second has a size but no text, as a reader leaves it behind.
LongerTexts ==
  {Text(<<92, 0, 92, 97, 92>>), [text_size |-> 3, text |-> <<>>],
   Text(<<8, 9, 10, 12, 13>>), Text(<<11>>), Text(<<168>>), Text(<<31, 34>>)}

Texts == {Text(bytes) : bytes \in UNION {[1..n -> Alphabet] : n \in 0..3}} \cup LongerTexts

\* A font: a size, twenty-six bytes, a family.
FontOf(family) == <<12, 1>> \o [i \in 1..26 |-> 7] \o family

Contents(form) ==
  CASE form = "Bool"        -> {<<0>>, <<1>>}
    [] form = "Byte"        -> {<<255>>}
    [] form \in {"Int", "Time"} -> {<<255, 255, 255, 127>>}
    [] form = "Long"        -> {<<1, 2, 3, 4, 5, 6, 7, 8>>}
    [] form = "LongLong"    -> {[i \in 1..16 |-> IF i \in places THEN 16 + i ELSE 0] :
                                  places \in SUBSET {1, 8, 9, 12, 13, 16}}
    [] form = "Text"        -> Texts
    [] form = "IntArray"    -> {<<>>, <<1, 2>>}
    [] form = "LongArray"   -> {<<0, 255>>}
    [] form = "Mac"         -> {<<1, 2, 3, 4, 5, 6>>}
    [] form = "Font"        -> {<<>>, <<12>>, <<12, 1>>, FontOf(<<>>), FontOf(<<97>>),
                                FontOf(<<97, 0, 98>>), FontOf(<<92, 34>>), FontOf(<<1, 0>>)}
    [] form = "StringArray" -> {<<>>} \cup {<<t, Text(<<97>>)>> : t \in LongerTexts}
                                 \cup {<<Text(<<97>>), Text(<<0, 92>>)>>}

\* Objects that hold something in one member.
Objects(s) ==
  UNION {{[DefaultObject(s) EXCEPT ![n] = v] : v \in Contents(Form(s, n))} : n \in DOMAIN s.fields}

MCTables(s) ==
  {IF Cardinality(DOMAIN s.fields) > 10 THEN <<object>> ELSE <<DefaultObject(s), object>> :
     object \in Objects(s)}

\* The members of dude_field_id.h that are named for a user or a password.
MCCredentials ==
  {\h10138e, \h10138f, \h101f46, \h101f47, \h101f48, \h103e86, \h103e87, \h113c6d, \h113c6f}

\* The image of a network map element and its scale.
MCImageIds == {\h105dd9, \h105dda}
=============================================================================
