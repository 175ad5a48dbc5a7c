------------------------------ MODULE JsonText -------------------------------
(***************************************************************************)
(* What a reader of JSON makes of the characters between two quotes (RFC   *)
(* 8259, section 7), as far as the program uses it: \u is never written.   *)
(* The texts of the document are checked against these definitions.        *)
(***************************************************************************)
EXTENDS Characters

\* Of the character behind a backslash.
Meaning ==
  [c \in {Quote, 47, Backslash, 98, 102, 110, 114, 116} |->
     CASE c = 98  -> 8
       [] c = 102 -> 12
       [] c = 110 -> 10
       [] c = 114 -> 13
       [] c = 116 -> 9
       [] OTHER   -> c]

\* Whether an escape begins at a position: a backslash that is not itself
\* behind one that begins an escape.
EscapeAt(s) ==
  LET begins[i \in 0..Len(s)] == i > 0 /\ s[i] = Backslash /\ ~begins[i - 1] IN begins

\* The characters stay between their quotes and every escape is one of JSON's.
IsJsonText(s) ==
  \A i \in DOMAIN s :
    /\ s[i] >= 32
    /\ s[i] = Quote => EscapeAt(s)[i - 1]
    /\ EscapeAt(s)[i] => i < Len(s) /\ s[i + 1] \in DOMAIN Meaning

\* The text they stand for.
TextOf(s) ==
  LET begins == EscapeAt(s)
  IN Seqs!FlattenSeq([i \in DOMAIN s |->
       IF begins[i] THEN <<>> ELSE IF begins[i - 1] THEN <<Meaning[s[i]]>> ELSE <<s[i]>>])
=============================================================================
