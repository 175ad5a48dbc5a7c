------------------------------- MODULE DudeJson ------------------------------
(***************************************************************************)
(* SerializeData of dude_json.cpp: the objects of a table, one after the   *)
(* other, are written as JSON, each by the SerializeJson of its structure, *)
(* and each member by the one of its type.                                 *)
(*                                                                         *)
(* An object is a function from the numbers of its members to what they    *)
(* hold: bytes for numbers and lists, a text with the size the blob gave   *)
(* it, a list of such texts.  Its JSON is a function from the members that *)
(* are written to what is written.  Writing a number in decimal loses      *)
(* nothing and is left out; texts, fonts and the numbers of sixteen bytes  *)
(* are written as the code does it, character by character.                *)
(***************************************************************************)
EXTENDS Sanitize, JsonText, FiniteSets

CONSTANTS
  Structures,    \* the structures, in a sequence
  Tables(_),     \* the sequences of objects a table of a structure may have
  Credentials,   \* the identifiers of members that hold user names and passwords
  ImageIds       \* those of the two members that are read and never written

VARIABLES
  structure,        \* the structure of the table, by its number
  data,             \* its objects
  has_credentials,  \* the option -c
  json              \* what has been written

vars == <<structure, data, has_credentials, json>>

\* The type of a member, fonts told from other lists of bytes.
Form(s, n) == IF s.fields[n].id \in s.fonts THEN "Font" ELSE s.fields[n].kind

\* A member the reader did not find.
Default(form) ==
  CASE form \in {"Bool", "Byte"} -> <<0>>
    [] form \in {"Int", "Time"}  -> <<0, 0, 0, 0>>
    [] form = "Long"             -> [i \in 1..8 |-> 0]
    [] form = "LongLong"         -> [i \in 1..16 |-> 0]
    [] form = "Text"             -> [text_size |-> 0, text |-> <<>>]
    [] form \in {"IntArray", "LongArray", "Font", "Mac", "StringArray"} -> <<>>

DefaultObject(s) == [n \in DOMAIN s.fields |-> Default(Form(s, n))]

\* A text has the size the blob gave it, or its payload was cut off.
IsText(t) == t.text \in Bytes /\ (t.text = <<>> \/ Len(t.text) = t.text_size)

\* What a member of a form may hold.
Holds(form, v) ==
  CASE form = "Text"        -> IsText(v)
    [] form = "StringArray" -> DOMAIN v = 1..Len(v) /\ \A i \in DOMAIN v : IsText(v[i])
    [] form = "LongLong"    -> v \in [1..16 -> Byte]
    [] OTHER                -> v \in Bytes

Forms == {"Bool", "Byte", "Int", "Time", "Long", "LongLong", "Text", "IntArray", "LongArray",
          "Font", "Mac", "StringArray"}

IsStructure(s) ==
  /\ s.written \subseteq DOMAIN s.fields
  /\ \A n \in DOMAIN s.fields : Form(s, n) \in Forms

ASSUME StructuresAssumption ==
  \A x \in DOMAIN Structures : IsStructure(Structures[x])

IsTable(s, objects) ==
  /\ Len(objects) \in Nat
  /\ DOMAIN objects = 1..Len(objects)
  /\ \A j \in DOMAIN objects :
       /\ DOMAIN objects[j] = DOMAIN s.fields
       /\ \A n \in DOMAIN s.fields : Holds(Form(s, n), objects[j][n])

ASSUME TablesAssumption ==
  \A x \in DOMAIN Structures :
    \A objects \in Tables(Structures[x]) : IsTable(Structures[x], objects)

Init ==
  /\ structure \in DOMAIN Structures
  /\ data \in Tables(Structures[structure])
  /\ has_credentials \in BOOLEAN
  /\ json = <<>>
-----------------------------------------------------------------------------
\* The hexadecimal digits of eight bytes, the lowest byte first.
Digits(bytes) ==
  [d \in 1..16 |-> LET byte == bytes[8 - (d - 1) \div 2]
                   IN IF d % 2 = 1 THEN byte \div 16 ELSE byte % 16]

\* Without leading zeroes, but with so many digits at least.
Trimmed(digits, width) ==
  LET zeroes == {z \in 0..(16 - width) : \A d \in 1..z : digits[d] = 0}
      most   == CHOOSE z \in zeroes : \A y \in zeroes : y <= z
  IN SubSeq(digits, most + 1, 16)

\* A plausible slip: both halves are written alike.
LongLongJsonTrimmed(v) ==
  Trimmed(Digits(SubSeq(v, 1, 8)), 1) \o Trimmed(Digits(SubSeq(v, 9, 16)), 1)

\* "0x{:x}{:08x}" of the two halves.
LongLongJson(v) ==
  Trimmed(Digits(SubSeq(v, 1, 8)), 1) \o Trimmed(Digits(SubSeq(v, 9, 16)), 8)

FontSize(v) == IF Len(v) < 2 THEN 0 ELSE U16(v, 0)

\* The text at 0x1c, up to the first zero.
FontFamily(v) ==
  LET text  == SubSeq(v, 29, Len(v))
      nulls == {i \in DOMAIN text : text[i] = Nul}
      first == CHOOSE i \in nulls : \A k \in nulls : i <= k
  IN IF nulls = {} THEN text ELSE SubSeq(text, 1, first - 1)

TextJson(v) == Sanitize(v.text, v.text_size)

MemberJson(form, v) ==
  CASE form \in {"Bool", "Byte", "Int", "Time", "Long", "IntArray", "LongArray", "Mac"} -> v
    [] form = "LongLong"    -> LongLongJson(v)
    [] form = "Text"        -> TextJson(v)
    [] form = "Font"        -> [size   |-> FontSize(v),
                                family |-> Sanitize(FontFamily(v), Len(FontFamily(v)))]
    [] form = "StringArray" -> [i \in DOMAIN v |-> TextJson(v[i])]

Stars == <<42, 42, 42, 42, 42>>

Masked(s, n, credentials) == s.fields[n].id \in s.masked /\ ~credentials

SerializeJson(s, object, credentials) ==
  [n \in s.written |->
     IF Masked(s, n, credentials) THEN Stars ELSE MemberJson(Form(s, n), object[n])]

\* A plausible slip: the loop goes on behind the last object.
SerializeDataPast ==
  /\ Len(json) <= Len(data)
  /\ json' = Append(json, SerializeJson(Structures[structure], data[1], has_credentials))
  /\ UNCHANGED <<structure, data, has_credentials>>

\* One turn of the loop of SerializeData.
SerializeData ==
  /\ Len(json) < Len(data)
  /\ json' = Append(json, SerializeJson(Structures[structure], data[Len(json) + 1],
                                        has_credentials))
  /\ UNCHANGED <<structure, data, has_credentials>>

Next == SerializeData

Spec == Init /\ [][Next]_vars
-----------------------------------------------------------------------------
TypeOK ==
  /\ structure \in DOMAIN Structures
  /\ has_credentials \in BOOLEAN
  /\ Len(json) <= Len(data)
  /\ \A j \in DOMAIN json : DOMAIN json[j] \subseteq DOMAIN data[j]

S == Structures[structure]

IdOf(n) == S.fields[n].id

\* Without -c no user name and no password leaves the program, whatever the
\* table it is in and whatever it holds.
CredentialsMasked ==
  ~has_credentials =>
    \A j \in DOMAIN json, n \in DOMAIN S.fields :
      IdOf(n) \in Credentials /\ n \in DOMAIN json[j] => json[j][n] = Stars

\* The texts of a member, and the strings that are written for them.
TextsOf(form, v) ==
  CASE form = "Text"        -> <<v>>
    [] form = "StringArray" -> v
    [] form = "Font"        -> <<[text_size |-> Len(FontFamily(v)), text |-> FontFamily(v)]>>
    [] OTHER                -> <<>>

StringsOf(form, written) ==
  CASE form = "Text"        -> <<written>>
    [] form = "StringArray" -> written
    [] form = "Font"        -> <<written.family>>
    [] OTHER                -> <<>>

\* Where a character comes to stand when the backslashes before it are doubled.
Place(text, i) == i + Cardinality({k \in 1..(i - 1) : text[k] = Backslash})

\* The zeroes Sanitize replaces: those within the length the text had.
ZeroesSeen(text) == {i \in DOMAIN text : text[i] = Nul /\ Place(text, i) <= Len(text)}

\* All the zeroes of the text have moved out of that length and stay.
ZeroLeft(text) == ZeroesSeen(text) = {} /\ \E i \in DOMAIN text : text[i] = Nul

\* A zero was replaced, so that the text ends at its old length, and there the
\* two backslashes that stand for one of its own are taken apart.
CutInEscape(text) ==
  /\ ZeroesSeen(text) # {}
  /\ \E i \in DOMAIN text : text[i] = Backslash /\ Place(text, i) = Len(text)

\* A text of the database stays between its quotes and spoils nothing behind
\* it, but for the two cases in which Sanitize goes by the length the text had
\* before its backslashes were doubled.
TextsStayInQuotes ==
  \A j \in DOMAIN json : \A n \in DOMAIN json[j] :
    ~Masked(S, n, has_credentials) =>
      LET texts   == TextsOf(Form(S, n), data[j][n])
          strings == StringsOf(Form(S, n), json[j][n])
      IN /\ DOMAIN strings = DOMAIN texts
         /\ \A i \in DOMAIN texts :
              ~IsJsonText(strings[i]) <=>
                /\ Len(texts[i].text) = texts[i].text_size
                /\ ZeroLeft(texts[i].text) \/ CutInEscape(texts[i].text)

\* A reader of the document finds the text.
TextReadsBack(t, string) == IsJsonText(string) /\ TextOf(string) = t.text

\* A reader of the document finds what the member held; of a font, the size
\* and the family, which is all the document promises.
ReadsBack(form, v, written) ==
  CASE form \in {"Text", "StringArray"} ->
         \A i \in DOMAIN TextsOf(form, v) :
           TextReadsBack(TextsOf(form, v)[i], StringsOf(form, written)[i])
    [] form = "Font" ->
         /\ written.size = IF Len(v) < 2 THEN 0 ELSE v[1] + 256 * v[2]
         /\ TextReadsBack(TextsOf(form, v)[1], written.family)
    [] form = "LongLong" ->
         \* The last eight digits are one half, those before them the other.
         LET low == Len(written) - 8
         IN /\ Trimmed(Digits(SubSeq(v, 1, 8)), 1) = SubSeq(written, 1, low)
            /\ Digits(SubSeq(v, 9, 16)) = [d \in 1..8 |-> 0] \o SubSeq(written, low + 1, low + 8)
    [] OTHER -> written = v

\* The contents that can be read back: texts without the characters for which
\* only a name is written and with the size the blob gave, and numbers whose
\* second half is of four bytes.
Plainly(form, v) ==
  CASE form = "LongLong" -> \A i \in 13..16 : v[i] = 0
    [] OTHER ->
         \A i \in DOMAIN TextsOf(form, v) :
           LET t == TextsOf(form, v)[i]
           IN /\ Len(t.text) = t.text_size
              /\ \A k \in DOMAIN t.text : t.text[k] \notin (0..7) \cup {11} \cup (14..31) \cup {168}

\* A member can be read back from the document exactly if it is not masked,
\* is not one of the two that are forgotten, and holds what JSON can tell.
MembersReadBack ==
  \A j \in DOMAIN json : \A n \in DOMAIN data[j] :
    LET form == Form(S, n)
    IN (n \in DOMAIN json[j] /\ ~Masked(S, n, has_credentials)
          /\ ReadsBack(form, data[j][n], json[j][n]))
       <=> (/\ has_credentials \/ IdOf(n) \notin Credentials
            /\ IdOf(n) \notin ImageIds
            /\ Plainly(form, data[j][n]))

\* README.md: "saves the contents into a json file".  What is written is JSON.
DocumentIsJson ==
  \A j \in DOMAIN json : \A n \in DOMAIN json[j] :
    ~Masked(S, n, has_credentials) =>
      LET strings == StringsOf(Form(S, n), json[j][n])
      IN \A i \in DOMAIN strings : IsJsonText(strings[i])
=============================================================================
