------------------------------ MODULE Sanitize -------------------------------
(***************************************************************************)
(* Common::Sanitize, which prepares the texts of the database for the JSON *)
(* document, and the two functions it is made of.                          *)
(***************************************************************************)
EXTENDS Characters

\* Every instance of a character in a text, another text in its place.
ReplaceAll(text, c, dest) ==
  Seqs!FlattenSeq([i \in DOMAIN text |-> IF text[i] = c THEN dest ELSE <<text[i]>>])

\* The same, by hand and with a length: the text comes back whole if the
\* character is not among its first characters, and else ends with them.
ReplaceChar(src, c, dest, length) ==
  IF c \in Seqs!ToSet(SubSeq(src, 1, length))
  THEN ReplaceAll(SubSeq(src, 1, length), c, dest) ELSE src

HexDigit(d) == IF d < 10 THEN Digit0 + d ELSE 87 + d

\* What a control character, the byte a8 or a quote is replaced by: JSON's
\* escape where there is one, and otherwise an escaped backslash and a name.
Escape(c) ==
  CASE c = 8  -> <<Backslash, 98>>
    [] c = 9  -> <<Backslash, 116>>
    [] c = 10 -> <<Backslash, 110>>
    [] c = 11 -> <<Backslash, Backslash, 118>>
    [] c = 12 -> <<Backslash, 102>>
    [] c = 13 -> <<Backslash, 114>>
    [] c = Quote -> <<Backslash, Quote>>
    [] OTHER  -> <<Backslash, Backslash, 120, HexDigit(c \div 16), HexDigit(c % 16)>>

\* The characters in the order in which they are replaced.
EscapeOrder == [c \in 1..31 |-> c] \o <<168, Quote>>

EscapeAll(text) ==
  LET upTo[i \in 0..Len(EscapeOrder)] ==
        IF i = 0 THEN text
        ELSE ReplaceAll(upTo[i - 1], EscapeOrder[i], Escape(EscapeOrder[i]))
  IN upTo[Len(EscapeOrder)]

\* "Invalid size"
InvalidSize == <<73, 110, 118, 97, 108, 105, 100, 32, 115, 105, 122, 101>>

\* A plausible slip: the backslashes come after the escapes they begin.
SanitizeLate(str, length) ==
  IF Len(str) # length THEN InvalidSize
  ELSE ReplaceAll(EscapeAll(str), Backslash, <<Backslash, Backslash>>)

\* Both calls of ReplaceChar get the length the text had in the beginning,
\* though the first may have made it longer.
Sanitize(str, length) ==
  LET slashes == ReplaceChar(str, Backslash, <<Backslash, Backslash>>, length)
      zeroes  == ReplaceChar(slashes, Nul, <<Backslash, Backslash, Digit0>>, length)
  IN IF Len(str) # length THEN InvalidSize ELSE EscapeAll(zeroes)
=============================================================================
