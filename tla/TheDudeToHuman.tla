--------------------------- MODULE TheDudeToHuman ----------------------------
(***************************************************************************)
(* main, from the command line to its end, run after run: the loop over    *)
(* getopt_long, the password, the device, the database and the document.   *)
(* What is on the disk, on the device and the terminal outlive a run.      *)
(*                                                                         *)
(* The device is DownloadSpec, which MikrotikDevice implements.  The       *)
(* database is read in one step: how it is, is the business of DudeExport  *)
(* and of the modules below it.  So is how a compressed file is unpacked.  *)
(***************************************************************************)
EXTENDS Integers, Sequences

CONSTANTS
  Lines,       \* for each run, the lines it may be started with
  Databases,   \* the files there are at first: their names, with their blocks
  Packed,      \* the names whose databases are compressed
  Local,       \* "DudeToHuman.db"
  Numeric,     \* the addresses inet_addr knows
  Typed,       \* the password the user types
  Digit,       \* the tokens that are digits, each with its value
  Abbreviations,
  LongMax,     \* ULONG_MAX
  MaxBlocks    \* bound: the blocks of an export

ASSUME DigitsAssumption == \A d \in DOMAIN Digit : Digit[d] \in 0..9

\* No file is there under the name that is fetched.
ASSUME DatabasesAssumption == Local \notin DOMAIN Databases

ASSUME LongAssumption == LongMax \in Nat

ASSUME BoundAssumption == MaxBlocks \in Nat

\* An argument is a sequence of tokens.
ASSUME LinesAssumption == Lines \in Seq(SUBSET Seq(Seq(STRING)))

\* Whether a file is compressed goes by its name; the copy of one is not, and
\* does not have the name that is fetched.
ASSUME PackedAssumption ==
  \A name \in Packed : name \o <<".tmp">> \notin Packed \cup {Local}

VARIABLES
  pc,           \* what main does next
  getopt_data,  \* what getopt_long keeps, with argv and its last answer
  options,      \* the variables main has for the options
  mode,         \* the terminal attributes takePassword has put aside
  source,       \* the file SQLite has open; <<>> if none
  echo,         \* the terminal's ECHO
  files,        \* the files but for Local
  documents,    \* the files that hold a document, with what it says
  \* the device, as in DownloadSpec
  phase, remote, local, runs, returned, flawless,
  \* auxiliary
  starts,       \* the runs so far
  expected,     \* what the line of this run means
  hushed        \* a run was killed while a password was typed

deviceVars  == <<phase, remote, local, runs, returned, flawless>>
diskVars    == <<files, documents>>
auxVars     == <<starts, expected, hushed>>
vars == <<pc, getopt_data, options, mode, source, echo, diskVars, deviceVars, auxVars>>

\* "f:o:cm:hv" and long_options.
ShortOptions == [f |-> TRUE, o |-> TRUE, c |-> FALSE, m |-> TRUE, h |-> FALSE, v |-> FALSE]
LongOptions  == [file |-> "f", out |-> "o", credentials |-> "c", mikrotik |-> "m",
                 help |-> "h", version |-> "v"]

GetOpt == INSTANCE GetOpt
Usage  == INSTANCE CommandLineSpec WITH Digits <- DOMAIN Digit
Device == INSTANCE DownloadSpec

NoOptions ==
  [has_filepath |-> FALSE, filepath |-> <<>>,
   has_out_filepath |-> FALSE, out_filepath |-> <<>>,
   has_credentials |-> FALSE,
   has_mikrotik |-> FALSE, mikrotik_user |-> <<>>, mikrotik_password |-> <<>>,
   mikrotik_address |-> <<>>, mikrotik_port |-> 22]

Nothing == [kind |-> "nothing"]

Init ==
  /\ pc = "off"
  /\ getopt_data = GetOpt!NewData(<<>>, "PERMUTE")
  /\ options = NoOptions
  /\ mode = "on" /\ echo = "on"
  /\ source = <<>>
  /\ files = [name \in DOMAIN Databases |-> Device!File(Databases[name])]
  /\ documents = <<>>
  /\ Device!Init
  /\ starts = 0 /\ expected = Nothing /\ hushed = FALSE

\* POSIXLY_CORRECT in the environment decides the ordering.
Start ==
  /\ pc = "off"
  /\ starts < Len(Lines)
  /\ \E line \in Lines[starts + 1], ordering \in {"PERMUTE", "REQUIRE_ORDER"} :
       /\ getopt_data' = GetOpt!NewData(line, ordering)
       /\ expected' = Usage!Outcome(line, ordering)
  /\ options' = NoOptions
  /\ pc' = "options"
  /\ starts' = starts + 1
  /\ flawless' = TRUE /\ returned' = "none"
  /\ UNCHANGED <<mode, source, echo, diskVars, phase, remote, local, runs, hushed>>

-----------------------------------------------------------------------------
\* The loop over the options.

Scan ==
  /\ pc = "options"
  /\ getopt_data.optind < GetOpt!argc(getopt_data)
  /\ getopt_data' = GetOpt!GetOptLong(getopt_data)
  /\ pc' = "case"
  /\ UNCHANGED <<options, mode, source, echo, diskVars, deviceVars, auxVars>>

Case(result) == pc = "case" /\ getopt_data.result = result

Set(new) ==
  /\ options' = new
  /\ pc' = "options"
  /\ UNCHANGED <<getopt_data, mode, source, echo, diskVars, deviceVars, auxVars>>

TakeFile ==
  /\ Case("f")
  /\ Set([options EXCEPT !.has_filepath = TRUE, !.filepath = getopt_data.optarg])

TakeOut ==
  /\ Case("o")
  /\ Set([options EXCEPT !.has_out_filepath = TRUE, !.out_filepath = getopt_data.optarg])

TakeCredentials == Case("c") /\ Set([options EXCEPT !.has_credentials = TRUE])

\* A plausible slip: an option that could not be read is tried again.
PassOverAgain ==
  /\ Case("?")
  /\ getopt_data' = IF getopt_data.nextchar = <<>> THEN [getopt_data EXCEPT !.optind = @ - 1]
                    ELSE getopt_data
  /\ pc' = "options"
  /\ UNCHANGED <<options, mode, source, echo, diskVars, deviceVars, auxVars>>

\* An option that is unknown or lacks its argument is passed over.
PassOver == Case("?") /\ Set(options)

\* A name.  Behind a "--" that ends the line there is none, and argv[argc] is
\* the null pointer, of which no string can be made.
TakeName ==
  /\ Case("end")
  /\ IF getopt_data.optind < GetOpt!argc(getopt_data)
     THEN /\ options' = [options EXCEPT !.has_filepath = TRUE,
                                        !.filepath = getopt_data.argv[getopt_data.optind]]
          /\ getopt_data' = [getopt_data EXCEPT !.optind = @ + 1]
          /\ pc' = "options"
     ELSE pc' = "crashed" /\ UNCHANGED <<options, getopt_data>>
  /\ UNCHANGED <<mode, source, echo, diskVars, deviceVars, auxVars>>

\* The ways the regular expression of -m can match, each by the length of its
\* first three parts; its match is the one with the longest parts, the first
\* of them first.
Ways(text) ==
  {w \in (1..Len(text)) \X (0..Len(text)) \X (1..Len(text)) :
     LET user     == SubSeq(text, 1, w[1])
         colon    == SubSeq(text, w[1] + 1, w[1] + w[2])
         at       == w[1] + w[2] + 1
         address  == SubSeq(text, at + 1, at + w[3])
         port     == SubSeq(text, at + w[3] + 1, Len(text))
     IN /\ at + w[3] <= Len(text)
        /\ text[at] = "@"
        /\ \A i \in DOMAIN user : user[i] # ":"
        /\ colon # <<>> => colon[1] = ":"
        /\ \A i \in DOMAIN address : address[i] # ":"
        /\ port # <<>> => /\ port[1] = ":" /\ Len(port) > 1
                          /\ \A i \in 2..Len(port) : port[i] \in DOMAIN Digit}

Longer(w, x) ==
  \/ w[1] > x[1]
  \/ w[1] = x[1] /\ w[2] > x[2]
  \/ w[1] = x[1] /\ w[2] = x[2] /\ w[3] >= x[3]

\* The groups: user, the colon, the password behind it, address and port.
Match(text) ==
  LET w  == CHOOSE w \in Ways(text) : \A x \in Ways(text) : Longer(w, x)
      at == w[1] + w[2] + 1
  IN [user |-> SubSeq(text, 1, w[1]), colon |-> w[2] # 0,
      password |-> SubSeq(text, w[1] + 2, w[1] + w[2]),
      address |-> SubSeq(text, at + 1, at + w[3]),
      port |-> SubSeq(text, at + w[3] + 2, Len(text))]

\* strtoul with base 0 reads an octal number behind a zero, and stops at a
\* digit it does not know.
Number(digits, base) ==
  LET read == CHOOSE n \in 0..Len(digits) :
                /\ \A i \in 1..n : Digit[digits[i]] < base
                /\ n < Len(digits) => Digit[digits[n + 1]] >= base
      value[n \in 0..Len(digits)] == IF n = 0 THEN 0 ELSE value[n - 1] * base + Digit[digits[n]]
  IN value[read]

\* As many as sixteen bits can tell.
Ports == 65536

\* What strtoul answers is never above ULONG_MAX.
Long(digits) ==
  LET number == Number(digits, IF Digit[digits[1]] = 0 THEN 8 ELSE 10)
  IN IF number > LongMax THEN LongMax ELSE number

\* Plausible slips: the number is not made to fit, or taken for a signed one.
PortWide(digits) == Long(digits)

PortSigned(digits) ==
  LET n == Long(digits) % Ports IN IF n < Ports \div 2 THEN n ELSE Ports - n

Port(digits) == Long(digits) % Ports

WithMikrotik(match) ==
  [options EXCEPT
     !.has_mikrotik = TRUE,
     !.mikrotik_user = match.user, !.mikrotik_password = match.password,
     !.mikrotik_address = match.address,
     !.mikrotik_port = IF match.port # <<>> THEN Port(match.port) ELSE @]

\* -m: a wrong format ends the program; a colon with nothing behind it asks
\* for the password.
TakeMikrotik ==
  /\ Case("m")
  /\ IF Ways(getopt_data.optarg) = {}
     THEN pc' = "leave" /\ options' = options
     ELSE LET match == Match(getopt_data.optarg) IN
          /\ options' = WithMikrotik(match)
          /\ pc' = IF match.colon /\ match.password = <<>> THEN "ask" ELSE "options"
  /\ UNCHANGED <<getopt_data, mode, source, echo, diskVars, deviceVars, auxVars>>

\* A plausible slip: the attributes are put aside after they were changed.
AskLate ==
  /\ pc = "ask"
  /\ echo' = "off"
  /\ mode' = echo'
  /\ pc' = "typing"
  /\ UNCHANGED <<getopt_data, options, source, diskVars, deviceVars, auxVars>>

\* takePassword: the terminal stops to echo, and goes back to what it was.
Ask ==
  /\ pc = "ask"
  /\ mode' = echo
  /\ echo' = "off"
  /\ pc' = "typing"
  /\ UNCHANGED <<getopt_data, options, source, diskVars, deviceVars, auxVars>>

TypePassword ==
  /\ pc = "typing"
  /\ options' = [options EXCEPT !.mikrotik_password = Typed]
  /\ echo' = mode
  /\ pc' = "options"
  /\ UNCHANGED <<getopt_data, mode, source, diskVars, deviceVars, auxVars>>

\* -h and -v.
PrintAndLeave ==
  /\ Case("h") \/ Case("v")
  /\ pc' = "leave"
  /\ UNCHANGED <<getopt_data, options, mode, source, echo, diskVars, deviceVars, auxVars>>

\* The loop is over; without a file and a device there is help.
EndOptions ==
  /\ pc = "options"
  /\ getopt_data.optind >= GetOpt!argc(getopt_data)
  /\ pc' = IF options.has_mikrotik THEN "device"
           ELSE IF options.has_filepath THEN "open" ELSE "exit"
  /\ UNCHANGED <<getopt_data, options, mode, source, echo, diskVars, deviceVars, auxVars>>
-----------------------------------------------------------------------------
\* Files, by their names.

Put(f, name, value) ==
  [n \in DOMAIN f \cup {name} |-> IF n = name THEN value ELSE f[n]]

Content(name) ==
  IF name = Local THEN local
  ELSE IF name \in DOMAIN files THEN files[name] ELSE Device!NoFile

\* A file is replaced; a document that was in it is gone.
Replace(name, content) ==
  /\ IF name = Local THEN local' = content /\ files' = files
                     ELSE local' = local /\ files' = Put(files, name, content)
  /\ documents' = [n \in DOMAIN documents \ {name} |-> documents[n]]

IsCompressed(name) ==
  /\ name \in Packed
  /\ name \notin DOMAIN documents
  /\ Content(name).blocks # <<>>

\* A plausible slip: the file is unpacked in its place.
CopyInPlace(name) == name

Copy(name) == name \o <<".tmp">>

\* The rows SQLite gives of a file: none, or an error, of what is no database.
Rows(name) ==
  IF name \in DOMAIN documents \/ IsCompressed(name) THEN <<>> ELSE Content(name).blocks

-----------------------------------------------------------------------------
\* The device is made and connected to; from here on the file is the one that
\* is fetched.
ConnectDevice ==
  /\ pc = "device"
  /\ Device!Begin
  /\ options' = [options EXCEPT !.has_filepath = TRUE, !.filepath = Local]
  /\ pc' = "download"
  /\ UNCHANGED <<getopt_data, mode, source, echo, diskVars, auxVars>>

\* What the device does.  inet_addr makes nothing of a name, so that it cannot
\* be connected to.
UseDevice ==
  /\ pc = "download"
  /\ IF options.mikrotik_address \in Numeric
     THEN Device!Work
     ELSE \/ Device!GiveUp /\ returned' = "none" /\ flawless' = FALSE
          \/ Device!End
  /\ documents' = [n \in {n \in DOMAIN documents : n = Local => local' = local} |-> documents[n]]
  /\ UNCHANGED <<pc, getopt_data, options, mode, source, echo, files, auxVars>>

EndDevice ==
  /\ pc = "download" /\ phase = "idle"
  /\ pc' = IF returned = "true" THEN "open" ELSE "exit"
  /\ UNCHANGED <<getopt_data, options, mode, source, echo, diskVars, deviceVars, auxVars>>

Opened(name) ==
  /\ source' = name
  /\ pc' = IF options.has_out_filepath THEN "save" ELSE "exit"
  /\ UNCHANGED <<getopt_data, options, mode, echo, phase, remote, runs, returned, auxVars>>

\* A plausible slip: a copy that is there already is taken as it is.
OpenDatabaseOnce ==
  /\ pc = "open"
  /\ LET name == options.filepath copy == Copy(options.filepath) IN
     IF ~IsCompressed(name)
     THEN Opened(name) /\ UNCHANGED <<local, diskVars, flawless>>
     ELSE IF Content(copy).there
     THEN Opened(copy) /\ UNCHANGED <<local, diskVars, flawless>>
     ELSE Opened(copy) /\ Replace(copy, Content(name)) /\ flawless' = flawless

\* The database is opened and the maps and devices are listed; a compressed
\* file is unpacked into its copy first, whatever is there.  If that fails, or
\* is not tried because the file may not be written, there will be no rows.
OpenDatabase ==
  /\ pc = "open"
  /\ LET name == options.filepath copy == Copy(options.filepath) IN
     IF ~IsCompressed(name)
     THEN Opened(name) /\ UNCHANGED <<local, diskVars, flawless>>
     ELSE \/ Opened(copy) /\ Replace(copy, Content(name)) /\ flawless' = flawless
          \/ /\ Opened(<<>>)
             /\ \E n \in 0..Len(Content(name).blocks) :
                  Replace(copy, Device!File(SubSeq(Content(name).blocks, 1, n)))
             /\ flawless' = FALSE
          \/ Opened(name) /\ UNCHANGED <<local, diskVars>> /\ flawless' = FALSE

\* SaveDatabase: the file is created, which empties it, whatever it is.
CreateOut ==
  /\ pc = "save"
  /\ \/ /\ options.out_filepath # <<>>
        /\ IF options.out_filepath = Local
           THEN local' = Device!File(<<>>) /\ files' = files
           ELSE files' = Put(files, options.out_filepath, Device!File(<<>>)) /\ local' = local
        /\ documents' = Put(documents, options.out_filepath, [whole |-> FALSE])
        /\ flawless' = flawless
        /\ pc' = "write"
     \/ /\ UNCHANGED <<local, diskVars>>
        /\ flawless' = FALSE
        /\ pc' = "exit"
  /\ UNCHANGED <<getopt_data, options, mode, source, echo, phase, remote, runs, returned, auxVars>>

\* The tables are read and written; nobody looks at the stream.
WriteDocument ==
  /\ pc = "write"
  /\ \/ /\ documents' = [documents EXCEPT ![options.out_filepath] =
             [whole |-> TRUE, rows |-> Rows(source), credentials |-> options.has_credentials]]
        /\ flawless' = flawless
     \/ documents' = documents /\ flawless' = FALSE
  /\ pc' = "exit"
  /\ UNCHANGED <<getopt_data, options, mode, source, echo, files, phase, remote, local, runs,
                 returned, auxVars>>

-----------------------------------------------------------------------------
\* The memory of a run goes with it.
Forget ==
  /\ pc' = "off"
  /\ getopt_data' = GetOpt!NewData(<<>>, "PERMUTE")
  /\ options' = NoOptions
  /\ mode' = "on"
  /\ source' = <<>>
  /\ expected' = Nothing
  /\ UNCHANGED <<echo, diskVars, starts, remote, local, runs, returned>>

Exit ==
  /\ pc \in {"exit", "leave", "crashed"}
  /\ Forget
  /\ UNCHANGED <<phase, flawless, hushed>>

\* The program is killed, or ended by an error in the device.
Kill ==
  /\ pc \notin {"off", "exit", "leave", "crashed"}
  /\ Forget
  /\ hushed' = (hushed \/ pc = "typing")
  /\ phase' = "idle" /\ flawless' = FALSE

\* What main does by itself.
Main ==
  \/ Scan \/ TakeFile \/ TakeOut \/ TakeCredentials \/ PassOver \/ TakeName \/ TakeMikrotik
  \/ PrintAndLeave \/ EndOptions
  \/ Ask \/ ConnectDevice \/ EndDevice \/ CreateOut \/ Exit

\* What it does with SQLite, which it asks again for as long as another process
\* has the database locked.
Query == OpenDatabase \/ WriteDocument

Next == Start \/ Main \/ Query \/ TypePassword \/ UseDevice \/ Kill

\* The program waits for the user and for a locked database, of which neither
\* owes it anything, and for the device, of which MikrotikDevice!Terminates says
\* that it comes to an end.
Spec ==
  /\ Init /\ [][Next]_vars
  /\ WF_vars(Main)
  /\ WF_vars(UseDevice /\ phase' # phase)
-----------------------------------------------------------------------------
\* The types of the variables that no other property speaks of.
TypeOK ==
  /\ pc \in {"off", "options", "case", "ask", "typing", "device", "download", "open", "save",
             "write", "exit", "leave", "crashed"}
  /\ getopt_data.first_nonopt <= getopt_data.last_nonopt
  /\ getopt_data.optind \in 1..GetOpt!argc(getopt_data)
  /\ getopt_data.nextchar # <<>> => getopt_data.optind < GetOpt!argc(getopt_data)
  /\ options.mikrotik_port \in 0..(Ports - 1)
  /\ mode \in {"on", "off"} /\ echo \in {"on", "off"}
  /\ documents # <<>> => \A name \in DOMAIN documents : Content(name) = Device!File(<<>>)
  /\ phase \in {"idle", "making", "copying", "removing", "answering", "ending"}
  /\ phase # "idle" => pc = "download"

AfterOptions == {"device", "download", "open", "save", "write", "exit"}

LastMikrotik == expected.mikrotiks[Len(expected.mikrotiks)]

\* The loop over getopt_long, which permutes the arguments under the hands of
\* main, leaves exactly what the line says when it is read from left to right,
\* and is left in just the way the line says: for -h, -v and a wrong address,
\* by the null pointer, at its end, or, when two names are left, never.
ReadAsGiven ==
  /\ pc = "leave" => expected.kind \in {"left", "unclaimed"}
  /\ pc = "crashed" => expected.kind \in {"null", "unclaimed"}
  /\ pc \in AfterOptions => expected.kind \in {"read", "unclaimed"}
  /\ pc \in AfterOptions /\ expected.kind = "read" =>
       /\ options.has_out_filepath = expected.out.there
       /\ options.out_filepath = expected.out.value
       /\ options.has_credentials = expected.credentials
       /\ options.has_mikrotik = (expected.mikrotiks # <<>>)
       /\ options.has_mikrotik =>
            /\ options.mikrotik_user = LastMikrotik.user
            /\ options.mikrotik_address = LastMikrotik.address
            /\ options.mikrotik_password =
                 IF LastMikrotik.asks THEN Typed ELSE LastMikrotik.password
       /\ IF options.has_mikrotik /\ pc # "device"
          THEN options.filepath = Local
          ELSE /\ options.has_filepath = expected.file.there
               /\ options.filepath = expected.file.value

Decimal(digits) ==
  LET sum[n \in 0..Len(digits)] == IF n = 0 THEN 0 ELSE sum[n - 1] * 10 + Digit[digits[n]]
  IN sum[Len(digits)]

\* The port is the decimal number behind the address, or else that of an
\* earlier -m, of another address perhaps, or else 22; unless the number begins
\* with a zero or needs more than sixteen bits.
DialsAsWritten ==
  pc \in {"device", "download"} /\ expected.kind = "read" =>
    LET given == {i \in DOMAIN expected.mikrotiks : expected.mikrotiks[i].port # <<>>} IN
    IF given = {} THEN options.mikrotik_port = 22
    ELSE LET port == expected.mikrotiks[Usage!Greatest(given)].port IN
         Decimal(port) < Ports /\ (Digit[port[1]] # 0 \/ Len(port) = 1)
           => options.mikrotik_port = Decimal(port)

\* A file changes only if the line names it for the document, if it has the
\* name of the copy of a compressed file the line names, or if it is the file
\* that is fetched and something is being fetched; so that no mixture of the
\* steps of a run, or of two, costs anybody a database.
Overwritten(name) ==
  \/ pc = "save" /\ expected.out.there /\ name = expected.out.value
  \/ pc = "open" /\ name = (IF expected.mikrotiks # <<>> THEN Local ELSE expected.file.value)
                           \o <<".tmp">>
  \/ phase = "copying" /\ name = Local

DatabasesKept ==
  [][expected.kind = "read" =>
       \A name \in DOMAIN Databases \cup {Local} :
         Content(name)' # Content(name) => Overwritten(name)]_vars

\* A run in which nothing has failed leaves a document of the file its line
\* names, with the credentials only if asked; after -m this is the export this
\* very run has had made, whatever earlier runs have left behind.  The one
\* exception is a document that takes the place of what it is read from.
DocumentIsOfTheFileNamed ==
  pc = "exit" /\ flawless /\ expected.kind = "read" /\ expected.out.there
    /\ (options.has_mikrotik => returned = "true")
    /\ options.has_filepath =>
    LET named    == IF options.has_mikrotik THEN Local ELSE expected.file.value
        document == documents[expected.out.value]
    IN /\ document.whole
       /\ document.credentials = expected.credentials
       /\ expected.out.value \notin {named, Copy(named)} =>
            /\ document.rows = IF named \in DOMAIN documents THEN <<>> ELSE Content(named).blocks
            /\ options.has_mikrotik => Device!OfThisRun(Content(named)) /\ ~remote.there

\* The terminal echoes again unless a run was killed while a password was
\* typed; then no later run gives the echo back.
EchoComesBack == (echo = "off") = (pc = "typing" \/ hushed)

\* Every run comes to its end or waits for a password, unless it is kept for
\* ever by a database that is locked, or its line leaves two names: then main
\* takes the first of them over and over.
RunsEnd ==
  \/ <>[](pc \in {"open", "write"})
  \/ pc = "options" /\ expected.kind \notin {"endless", "unclaimed"} ~> pc \in {"off", "typing"}
=============================================================================
