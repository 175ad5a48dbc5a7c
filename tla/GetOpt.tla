------------------------------- MODULE GetOpt --------------------------------
(***************************************************************************)
(* getopt_long as main uses it: one call after the other over a vector of  *)
(* arguments, which it permutes so that the names come behind the options. *)
(* (The build for Windows has this file; glibc works the same way.)        *)
(*                                                                         *)
(* An argument is a sequence of tokens, a token a stretch of characters    *)
(* that is never taken apart: "-", the letter of an option, "=", or a      *)
(* longer piece.  The numbers of arguments are those of the code; argv[0]  *)
(* is left out, so that argv[i] of the code is argv[i] here.               *)
(***************************************************************************)
EXTENDS Integers, Sequences

CONSTANTS
  ShortOptions,   \* optstring: the letters, each with whether it takes an argument
  LongOptions,    \* longopts: the names, each with the letter it stands for, which
                  \* takes an argument if and only if the name does
  Abbreviations   \* pairs of a token and the name it is the beginning of

\* The one element of a set; TLC evaluates the element only once.
The(S) == CHOOSE x \in S : TRUE

argc(d) == Len(d.argv) + 1

\* struct _getopt_data, with argv and the answer of the last call.
NewData(argv, ordering) ==
  [argv |-> argv, ordering |-> ordering, optind |-> 1, nextchar |-> <<>>,
   first_nonopt |-> 1, last_nonopt |-> 1, optarg |-> <<>>, result |-> "none"]

\* "-" alone is a name.
NonOption(arg) == Len(arg) < 2 \/ arg[1] # "-"
Dashes(arg)    == arg = <<"-", "-">>

Swap(argv, i, j, len) ==
  [k \in DOMAIN argv |->
     IF k \in i..(i + len - 1) THEN argv[k - i + j]
     ELSE IF k \in j..(j + len - 1) THEN argv[k - j + i] ELSE argv[k]]

\* A plausible slip: the shorter stretch comes to stand at the wrong end.
TurnAstray(s) ==
  IF s.top <= s.middle \/ s.middle <= s.bottom THEN s
  ELSE IF s.top - s.middle > s.middle - s.bottom
       THEN LET len == s.middle - s.bottom IN
            [s EXCEPT !.argv = Swap(@, s.bottom, s.middle, len), !.top = @ - len]
       ELSE LET len == s.top - s.middle IN
            [s EXCEPT !.argv = Swap(@, s.bottom, s.middle, len), !.bottom = @ + len]

\* A turn of the loop of exchange: the shorter of the two stretches, the names
\* from bottom on and the options from middle on, changes places with as much
\* of the longer one and is where it belongs.
Turn(s) ==
  IF s.top <= s.middle \/ s.middle <= s.bottom THEN s
  ELSE IF s.top - s.middle > s.middle - s.bottom
       THEN LET len == s.middle - s.bottom IN
            [s EXCEPT !.argv = Swap(@, s.bottom, s.top - len, len), !.top = @ - len]
       ELSE LET len == s.top - s.middle IN
            [s EXCEPT !.argv = Swap(@, s.bottom, s.middle, len), !.bottom = @ + len]

\* The loop: each turn leaves less between bottom and top.
Swapped(argv, bottom, middle, top) ==
  LET after[n \in 0..(top - bottom)] ==
        IF n = 0 THEN [argv |-> argv, bottom |-> bottom, middle |-> middle, top |-> top]
        ELSE Turn(after[n - 1])
  IN after[top - bottom].argv

Exchange(d) ==
  [d EXCEPT !.argv = Swapped(@, d.first_nonopt, d.last_nonopt, d.optind),
            !.first_nonopt = @ + (d.optind - d.last_nonopt),
            !.last_nonopt = d.optind]

Min2(m, n) == IF m < n THEN m ELSE n

\* The caller may have moved optind.
Clamp(d) ==
  [d EXCEPT !.last_nonopt = Min2(@, d.optind), !.first_nonopt = Min2(@, d.optind)]

\* Names that lie between options are moved behind those just read, and the
\* names that come next are skipped.
Gather(d) ==
  IF d.last_nonopt = d.optind THEN d
  ELSE IF d.first_nonopt # d.last_nonopt THEN Exchange(d)
  ELSE [d EXCEPT !.first_nonopt = d.optind]

NextOption(d) ==
  CHOOSE i \in d.optind..argc(d) :
    /\ \A j \in d.optind..(i - 1) : NonOption(d.argv[j])
    /\ i = argc(d) \/ ~NonOption(d.argv[i])

Permute(d) ==
  IF d.ordering # "PERMUTE" THEN d
  ELSE The({[e EXCEPT !.optind = NextOption(e), !.last_nonopt = NextOption(e)] : e \in {Gather(d)}})

\* "--" makes names of all that follow.
SkipDashes(d) ==
  IF d.optind = argc(d) \/ ~Dashes(d.argv[d.optind]) THEN d
  ELSE LET e == [d EXCEPT !.optind = @ + 1]
           f == IF e.first_nonopt = e.last_nonopt
                THEN [e EXCEPT !.first_nonopt = e.optind]
                ELSE IF e.last_nonopt # e.optind THEN Exchange(e) ELSE e
       IN [f EXCEPT !.last_nonopt = argc(f), !.optind = argc(f)]

Answer(d, result) == [d EXCEPT !.result = result]

\* A long option: by its whole name, or by the beginning of one name only.  A
\* missing, unknown or ambiguous one is answered with "?".
Long(d) ==
  LET arg   == d.argv[d.optind]
      bare  == Len(arg) = 3 /\ arg[3] # "="
      name  == IF arg[3] = "=" THEN "" ELSE arg[3]
      value == SubSeq(arg, IF name = "" THEN 4 ELSE 5, Len(arg))
      meant == IF name \in DOMAIN LongOptions THEN {name}
               ELSE {n \in DOMAIN LongOptions : name = "" \/ <<name, n>> \in Abbreviations}
      e     == [d EXCEPT !.optind = @ + 1, !.nextchar = <<>>]
  IN IF \A n \in meant : meant # {n} THEN Answer(e, "?")
     ELSE LET letter == LongOptions[CHOOSE n \in meant : TRUE] IN
          IF ~ShortOptions[letter]
          THEN Answer(e, IF bare THEN letter ELSE "?")
          ELSE IF ~bare THEN Answer([e EXCEPT !.optarg = value], letter)
          ELSE IF e.optind = argc(e) THEN Answer(e, "?")
          ELSE Answer([e EXCEPT !.optarg = e.argv[e.optind], !.optind = @ + 1], letter)

\* The next letter of a short option; what follows it, or the next argument,
\* is its argument if it takes one.
Short(d) ==
  LET letter == Head(d.nextchar)
      rest   == Tail(d.nextchar)
      e      == [d EXCEPT !.nextchar = rest, !.optind = IF rest = <<>> THEN @ + 1 ELSE @]
  IN IF letter \notin DOMAIN ShortOptions THEN Answer(e, "?")
     ELSE IF ~ShortOptions[letter] THEN Answer(e, letter)
     ELSE LET f == [e EXCEPT !.nextchar = <<>>] IN
          IF rest # <<>>
          THEN Answer([f EXCEPT !.optarg = rest, !.optind = @ + 1], letter)
          ELSE IF f.optind = argc(f) THEN Answer(f, "?")
          ELSE Answer([f EXCEPT !.optarg = f.argv[f.optind], !.optind = @ + 1], letter)

Element(d) ==
  IF d.argv[d.optind][2] = "-" THEN Long(d)
  ELSE Short(IF d.nextchar = <<>> THEN [d EXCEPT !.nextchar = Tail(d.argv[d.optind])] ELSE d)

Find(d) ==
  IF d.optind = argc(d)
  THEN Answer([d EXCEPT !.optind = IF d.first_nonopt # d.last_nonopt
                                   THEN d.first_nonopt ELSE @], "end")
  ELSE IF NonOption(d.argv[d.optind]) THEN Answer(d, "end")
  ELSE Element(d)

\* A call: the letter of an option, "?", or "end" for -1.
GetOptLong(data) ==
  LET d == [data EXCEPT !.optarg = <<>>] IN
  IF data.nextchar # <<>> THEN Element(d)
  ELSE The({Find(e) : e \in {SkipDashes(p) : p \in {Permute(c) : c \in {Clamp(d)}}}})
=============================================================================
