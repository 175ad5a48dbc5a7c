--------------------------- MODULE CommandLineSpec ---------------------------
(***************************************************************************)
(* What a command line means, read from left to right: which options it    *)
(* gives, with which arguments, and which names.  Nothing is moved and     *)
(* nothing counted.  The usage is "[options] <filename>"; Outcome also     *)
(* says what becomes of the lines that do not keep to it.                  *)
(***************************************************************************)
EXTENDS Integers, Sequences

CONSTANTS
  ShortOptions, LongOptions, Abbreviations,  \* as in GetOpt
  Digits                                     \* the tokens that are digits

IsName(arg) == Len(arg) < 2 \/ arg[1] # "-"

Option(letter, value) == [kind |-> "option", letter |-> letter, value |-> value]
Name(value)           == [kind |-> "name", value |-> value]
Rest(values)          == [kind |-> "rest", value |-> values]

Takes(letter) == letter \in DOMAIN ShortOptions /\ ShortOptions[letter]

\* The letter a long option stands for: "?" if none, or more than one.
Letter(name) ==
  LET meant == IF name \in DOMAIN LongOptions THEN {name}
               ELSE {n \in DOMAIN LongOptions : <<name, n>> \in Abbreviations}
  IN IF \E n \in meant : meant = {n} THEN LongOptions[CHOOSE n \in meant : TRUE] ELSE "?"

\* What a line consists of.  letters is what is left of an argument of short
\* options: "-co out" is "-c -o out", but a "-" there is no option.
Items[letters \in Seq(STRING), line \in Seq(Seq(STRING))] ==
  LET arg  == line[1]
      more == Tail(line)
      \* an option whose argument, if it takes one, is the next argument
      Apart(letter, rest) ==
        IF ~Takes(letter) THEN <<Option(letter, <<>>)>> \o Items[<<>>, rest]
        ELSE IF rest = <<>> THEN <<Option("?", <<>>)>>
        ELSE <<Option(letter, rest[1])>> \o Items[<<>>, Tail(rest)]
  IN CASE Len(letters) = 1 -> Apart(letters[1], line)
       [] Len(letters) > 1 /\ Takes(letters[1]) ->
            <<Option(letters[1], Tail(letters))>> \o Items[<<>>, line]
       [] Len(letters) > 1 /\ ~Takes(letters[1]) ->
            <<Option(letters[1], <<>>)>> \o Items[Tail(letters), line]
       [] letters = <<>> /\ line = <<>> -> <<>>
       [] letters = <<>> /\ line # <<>> ->
            CASE IsName(arg) -> <<Name(arg)>> \o Items[<<>>, more]
              [] arg = <<"-", "-">> -> <<Rest(more)>>
              [] ~IsName(arg) /\ arg[2] = "-" /\ Len(arg) = 3 /\ arg[3] # "=" ->
                   Apart(Letter(arg[3]), more)
              [] ~IsName(arg) /\ arg[2] = "-" /\ Len(arg) > 2 /\ (Len(arg) > 3 \/ arg[3] = "=") ->
                   LET letter == IF arg[3] = "=" THEN "?" ELSE Letter(arg[3])
                   IN <<IF Takes(letter) THEN Option(letter, SubSeq(arg, 5, Len(arg)))
                        ELSE Option("?", <<>>)>> \o Items[<<>>, more]
              [] OTHER -> Items[Tail(arg), more]

-----------------------------------------------------------------------------
\* user[:[password]]@address[:port].  The "@" that counts is the last with an
\* address behind it.

Places(text, token) == {i \in DOMAIN text : text[i] = token}
At(text) == {i \in Places(text, "@") : i < Len(text) /\ text[i + 1] # ":"}

Greatest(S) == CHOOSE i \in S : \A j \in S : j <= i
Least(S)    == CHOOSE i \in S : \A j \in S : i <= j

NotAnAddress == [ok |-> FALSE]

Address(text) ==
  IF At(text) = {} THEN NotAnAddress
  ELSE LET at     == Greatest(At(text))
           left   == SubSeq(text, 1, at - 1)
           right  == SubSeq(text, at + 1, Len(text))
           Before(s) == IF Places(s, ":") = {} THEN s ELSE SubSeq(s, 1, Least(Places(s, ":")) - 1)
           Behind(s) == SubSeq(s, Len(Before(s)) + 2, Len(s))
           port   == Behind(right)
       IN IF \/ Before(left) = <<>>
             \/ \E i \in DOMAIN port : port[i] \notin Digits
             \/ port = <<>> /\ ":" \in {right[i] : i \in DOMAIN right}
          THEN NotAnAddress
          ELSE [ok |-> TRUE,
                user |-> Before(left), asks |-> Len(left) = Len(Before(left)) + 1,
                password |-> Behind(left), address |-> Before(right), port |-> port]

-----------------------------------------------------------------------------
Only(items, letter) ==
  SelectSeq(items, LAMBDA it : it.kind = "option" /\ it.letter = letter)

None == [there |-> FALSE, value |-> <<>>]

LastOf(items) ==
  IF items = <<>> THEN None ELSE [there |-> TRUE, value |-> items[Len(items)].value]

\* What becomes of a line: "left" for those that only print something,
\* "null" for those that end in "--", "endless" for those that end in names,
\* two of them; "unclaimed" for options among the names behind "--"; and else
\* what was "read".  When names may stand anywhere ("PERMUTE") those in front
\* of an option that ends the line are lost; when they may not, the last of
\* the names and the arguments of -f is the file.
Outcome(line, ordering) ==
  LET items == Items[<<>>, line]
      names == SelectSeq(items, LAMBDA it : it.kind = "name")
      last  == IF items = <<>> THEN Name(<<>>) ELSE items[Len(items)]
      Named(values) == [i \in DOMAIN values |-> Name(values[i])]
      pending == IF last.kind = "rest"
                 THEN (IF ordering = "PERMUTE" THEN names ELSE <<>>) \o Named(last.value)
                 ELSE IF ordering = "PERMUTE" /\ last.kind = "name" THEN names ELSE <<>>
      files == IF ordering = "PERMUTE" THEN Only(items, "f") \o pending
               ELSE SelectSeq(items, LAMBDA it : it.kind = "name" \/ (it.kind = "option" /\ it.letter = "f"))
                    \o pending
      kind ==
        IF \E i \in DOMAIN items :
             /\ items[i].kind = "option"
             /\ \/ items[i].letter \in {"h", "v"}
                \/ items[i].letter = "m" /\ ~Address(items[i].value).ok
        THEN "left"
        ELSE IF last.kind = "rest" /\ pending = <<>> THEN "null"
        ELSE IF \E i \in 2..Len(pending) : ~IsName(pending[i].value) THEN "unclaimed"
        ELSE IF ordering = "PERMUTE" /\ Len(pending) > 1 THEN "endless"
        ELSE "read"
  IN [kind |-> kind,
      file |-> LastOf(files),
      out |-> LastOf(Only(items, "o")),
      credentials |-> Only(items, "c") # <<>>,
      mikrotiks |-> LET m == Only(items, "m") IN [i \in DOMAIN m |-> Address(m[i].value)]]
=============================================================================
