# A verification project for TheDudeToHuman

TheDudeToHuman reads the database of a Mikrotik "The Dude" server and writes it
out as JSON. It fetches the database from a device over SSH and SFTP, or takes
a local file; unpacks it if it is compressed; reads the table `objs` with
SQLite; takes apart the binary blob of every row; and writes 23 tables of
objects. This directory holds TLA+ models of those parts, the TLC
configurations that check them, and theorems proved with TLAPS.

All paths below are relative to `src/src/the_dude_to_human/` unless they begin
with `src/`.

## The system

| Part | State it keeps | Operations | Interacts with |
|------|----------------|------------|----------------|
| Field parser (`database/dude_field_parser.*`) | the blob, a cursor, a saved cursor, whether the blob is valid, the data formats | constructor, `Reset`, `ReadField` (11 overloads), `GetFieldInfo`, `SkipField`, `GetMainFormat` | called by the table readers, one parser for each row |
| Table readers (`database/dude_database.*`, `dude_types.h`, `dude_field_id.h`) | the rows of one query and the objects made of them, inside a call | a getter and a reader for each of 23 tables, `ListMapData`, `ListDeviceData`, `ListUsedDataFormats` | ask the SQLite reader for rows; give objects to the export |
| Export (`database/dude_json.cpp`, end of `TheDudeToHuman.cpp`) | the output stream | `SaveDatabase`, `SerializeDatabaseJson`, `SerializeTable` | calls the getters one after the other; writes a file |
| SQLite reader (`sqlite/sqlite_reader.*`) | whether the database is open | `OpenDatabase`, `CloseDatabase`, `GetTableData`, `ExecStatement`, `ReadRow` | SQLite; the file, which the Dude server or another process may write |
| Gzip (`gzip/gzip.*`) | the name of the file | `IsGzipFile`, `Decompress` (`Compress` is a stub) | called by `OpenDatabase`; writes a copy next to the file |
| Mikrotik device (`mikrotik/mikrotik_device.*`) | session, socket, SFTP session and handle, whether it is connected | `Connect`, `Execute`, `DownloadDatabase`, `Disconnect`, the destructor (`UploadDatabase` is a stub) | libssh2, the device, the local file that the export reads next |
| Text clean-up (`src/src/common/string_util.cpp`) | none | `Sanitize`, `ReplaceChar`, `ReplaceAll` | called for each text of the JSON |
| JSON of the objects (`database/dude_types.h`) | none | one `SerializeJson` for each structure, which masks credentials unless asked not to | called by the export |
| Command line (`TheDudeToHuman.cpp`) | the options; the terminal attributes put aside | `main`, `takePassword` | reads its arguments through `getopt_long`, moving `optind` itself; drives the device, the database and the export |
| getopt (`src/externals/getopt/getopt.c`) | `optind`, the place inside an argument, the stretch of names gathered, the ordering; permutes `argv` | `getopt_long` | called by `main` in a loop |
| SQLite writer, validator, stubs | - | called by nobody | - |

The program is one thread. What makes it hard is not inside a function:

- **Data decide control.** The parser walks through bytes it did not write;
  where a failed call leaves its cursor decides what the next call reads, and a
  reader looks at no result.
- **Others write.** The database may be written between, and during, the 23
  queries of one export. SQLite locks a file for a statement, not for an
  export, and a count is taken before the rows are.
- **Failures in the middle.** Every call of libssh2, SQLite and the streams may
  fail. Most results are dropped, so that the later steps run after a failure.
- **Runs follow runs.** A fetched file has a fixed name, on the device and
  locally. A run that was cut off leaves both to the next, and an unpacked copy,
  and perhaps a terminal without echo.
- **Two hands on one state.** `main` and `getopt_long` both move `optind`, over
  arguments that `getopt_long` permutes.
- **A loop that waits.** `SQLITE_BUSY` turns a loop that only somebody else can
  end. (The loops on `LIBSSH2_ERROR_EAGAIN` look alike, but the session is made
  blocking, `mikrotik_device.cpp:222`, and never answers so.)

`PROJECT.json` lists each such hazard at its line with the properties that
would catch it.

### What makes each part correct

- *Parser*: the cursor never leaves the blob; it stands between two fields
  unless a failed call moved it; a call succeeds exactly when the field is
  there; a failure moves the cursor only over a header, in two cases, and leaves the
  value in the caller's field alone unless the field is cut off (the header in its
  `info` it overwrites, whosever it is).
- *Table readers*: a well formed row gives exactly its object, in one table;
  whatever the blob, a member is a field of its kind and identifier, taken just
  behind the one taken whole before it, or behind headers a failed call has lost.
- *JSON of the objects*: the file is JSON; a reader of it finds every member that
  is not masked; without `-c` no user and no password is in it.
- *Export*: a row that stays in the database is saved once and in one table;
  each table is of one moment; the program ends unless the database stays locked.
- *SQLite reader*: success means all rows of one moment; no statement outlives
  a call; a call ends.
- *Gzip*: the copy that is opened is the whole database, whatever failed, now or
  in an earlier run.
- *Command line*: what main does is what the line says when it is read from left to
  right; the document is of the file that is named, and of this run's export; no
  other file changes; the terminal gets its echo back; a run ends unless the
  database stays locked.
- *Device*: what was opened is closed, in order; the local file is never a
  mixture; the file on the device is removed only once it was confirmed and, if
  nothing failed, copied.

## The modules

| Module | Models | Kind |
|--------|--------|------|
| `DudeTypes` | types, identifiers, results | constants |
| `BlobFormat` | which fields a blob holds, from the format alone (`src/imhex.pattern`) | reference |
| `FieldReads` | the calls of the parser, as functions of blob and cursor | operators |
| `DudeFieldParser` | the class, as a state machine of calls in any order | specification |
| `FieldReadsProofs` | the lemmas about single calls of the parser, for every blob | proofs |
| `DudeFieldParserProofs` | the theorems about the parser | proofs |
| `DudeTables` | the 23 tables: data format and members in the order they are read | constants |
| `RowFormat` | the objects the format gives of a row | reference |
| `DudeObjects` | the 23 structures: which members are written, masked, fonts | constants |
| `Characters` | the bytes that the writing and the reading of texts tell apart | constants |
| `Sanitize` | `Sanitize`, `ReplaceChar`, `ReplaceAll`, byte by byte | operators |
| `JsonText` | what a reader of JSON makes of a string | reference |
| `DudeJson` | `SerializeData` and the `SerializeJson` of every structure and type | specification |
| `DudeJsonProofs` | the theorems about the JSON of the objects, for texts of any length | proofs |
| `TableReaders` | a reader: one call of `ReadField` after another | operators |
| `DudeDatabase` | the getters, row by row, over a file that changes | specification |
| `ExportSpec` | saving whole tables | abstract specification |
| `DudeExport` | `main` from the listings to the closed file; extends `DudeDatabase` | specification |
| `DudeExportProofs` | the theorems about the getters and the export | proofs |
| `TableQuery` | a query for the rows of one moment | abstract specification |
| `SqliteReader` | `GetTableData`, one step of SQLite at a time | specification |
| `SqliteReaderProofs` | the theorems about the query | proofs |
| `Gzip` | `OpenDatabase` with the unpacking of a compressed file | specification |
| `GzipProofs` | the theorems about the unpacking | proofs |
| `DownloadSpec` | making, copying and removing the export, run after run | abstract specification |
| `MikrotikDevice` | the download, run after run | specification |
| `MikrotikDeviceProofs` | the theorems about the download and the device | proofs |
| `CommandLineSpec` | what a command line means | reference |
| `GetOpt` | `getopt_long`, as a function of its state | operators |
| `TheDudeToHuman` | `main` from the first argument to its end, run after run | specification |
| `TheDudeToHumanProofs` | the theorems about `main` and `getopt_long` | proofs |
| `MC...` | small instances for TLC; `SmallBlobs` puts their blobs together | instances |

How they fit: `DudeDatabase` extends `TableReaders`, which extends
`FieldReads`, so that the getters run the parser's own operators and not an
abstraction of them. `DudeExport` extends `DudeDatabase` and conjoins its actions
with the state of the export. `DudeDatabase` lets `GetObjs` have its rows in one
step (`Fetched`); that this is what `GetTableData` gives is the refinement
`QueriesAreAtomic` of `SqliteReader`. `DudeExport` puts objects into the document;
what is written for one object is the business of `DudeJson`. `TheDudeToHuman` joins
the two ends: it runs `main` over the abstract download `DownloadSpec`, which
`MikrotikDevice` implements (`KeepsItsPromise`), and the file that a download leaves is
the database its export reads.

### The parser

The state is that of the class: `raw_data`, `offset`, `previous_offset`,
`is_data_valid`. `call` records the last call and its answer, for the
properties; `starts` is the set of offsets at which the format begins a field,
and `slipped` whether a failed call has moved the cursor. Both are auxiliary.
One action stands for one call, with the sizes, the guards and the order of
`SaveOffset` and `RestoreOffset` of each overload. Blobs are real byte
sequences, headers of four bytes and all: that is what the code is about. Texts
of warnings are left out. A list of MAC addresses whose size is more than five
and not a multiple of six makes the code copy past the end of a vector; what
that does to memory is undefined, and the model takes the call for
successful with the cursor behind the list, which is what the code does when
nothing breaks. A program that ends there is one that stops, which the safety
properties allow at any point.

`filled` says what a call left in the field it was given. `ReadFieldInfo` reads into
the `info` of the caller's field (`dude_field_parser.cpp:162`) before it looks at
identifier and type, so that a mismatched call leaves the `header` of another field
there; a count that was stored without its units leaves the value `partly` changed.

### The table readers

A table is a record of its data format and the sequence of `[kind, id]` its
reader asks for; the 23 of `DudeTables` list them member by member. A row is
its identifier, as four bytes, and its blob. `GetObjs`, `ReadObject` (one turn of the loop of
`GetObjectData`) and `Return` are the actions of a getter; `Change` is the other
process. An object is known by its row and by what was taken: which member, from
which offset, how much of it. This is enough for every property: values are
the bytes at the offset, and at the `info` of a member, which also a failed call
changes, nobody looks again. The one value the code itself looks at, the identifier
of the object, is computed (`ObjectId`).

`RowFormat` says the same from the other side: which fields stand in the blob,
which of them are members of the table, in order, and what follows. The two are
written independently and compared (`PlainRowsAreExact`).

### The export

`turn` counts the getters of `main` and `SerializeDatabaseJson`. `document` is
what was put into the stream; `on_disk` how much of it has reached the file, any
part at any time; once a write has failed the rest is dropped, as by
`std::ofstream`. `complete` and `stable` are auxiliary.

### The JSON of an object

An object is what a reader leaves behind: a function from the members of its table
to contents. `SerializeJson` maps it to what is written for each member; a
member a structure does not mention is not in the domain. `DudeJson` takes the
structures, the tables there may be, and which identifiers name a user, a password or
an image, as constants; the run gives it the 23 structures of `DudeObjects`, which says for
each what is particular to it: the masked members, the fonts, and the
two members nobody writes. Numbers and lists are written in a form that loses nothing
and stand for themselves. Texts, fonts and numbers of sixteen bytes are
converted character by character. In `Sanitize` the two replacements with
a length are kept apart from the thirty-three without, since the length is what
goes wrong. `JsonText` is the other side: which strings are JSON, and what a
reader takes them for; it was written from RFC 8259 and not from the code.

### The SQLite reader

`statement` is `none`, `ready` or `reading`. SQLite is external and is modelled
by what the code relies on: a step on a locked file answers BUSY before it has
read anything; from its first row to its last a statement keeps the file from being
written; every call may fail instead. Locking in the model is as coarse as a
rollback journal makes it, the mode the server uses; a write-ahead log would give
a statement its view without a lock, with the same promise.

### Gzip

`Gzip` takes `OpenDatabase` of the SQLite reader apart where `SqliteReader` has one
action for it. Sizes count units: the header has `HeaderLen` of them, the buffer
`BufLen` (0x200 and 16384 bytes in the code). `buffer` is what `fwrite` has taken
and not yet written, so that the order of `fclose` and the opening of the copy
matters. The copy outlives the run. A first batch shorter than the header runs
over the buffer's end; the outcomes are the end of the program or a write that
fails, with or without garbage in the copy.

### The device

`pc` follows `main` and `DownloadDatabase`; the three commands share the actions
of `ExecuteSSH`. Files are sequences of blocks, each known by the run whose export
it comes from. Any call may fail at any time; a request that fails may have been
carried out all the same; answers arrive in pieces; the connection may be lost
between any two steps and the program killed. The uninitialised size after a
failed `fstat` is a choice between zero and a number that is too large; that an `fstat`
succeeds and the answer has no size, as the protocol allows, is not modelled.
The model also shows, without a property of its own, that an answer to the count
that arrives in two pieces is taken for "File not found", because a line end is
put behind each piece (`mikrotik_device.cpp:263`). `Phase` maps `pc` to the phases of
`DownloadSpec`: the download as `main` sees it, in which a failure is one step, the later phases
are entered all the same, and only of a run without one anything is promised beyond that the local
file is the beginning of the file on the device. Sessions are always made: `libssh2_session_init` fails only without memory.

### The command line

`getopt_data` is `struct _getopt_data_a` with `argv` and the last answer in it, and
`GetOptLong` one call: the names gathered so far are exchanged with the options
behind them as `exchange_a` does it, stretch by stretch, `--` is skipped, and one option or
one letter of it is taken. An argument is a sequence of tokens, where a token is a stretch
of characters that neither the code nor a property takes apart: `-`, a letter, `=`, `:`, `@`, a
digit, a word. Whether a word is the beginning of an option's name is a constant
(`Abbreviations`). `POSIXLY_CORRECT`, which decides the ordering, is a choice of each run.
The file is the one Windows builds link; elsewhere it is the C library's
function of the same name, from which it was made.

`options` are the variables of `main`, and each `case` of its loop is an action. `Match`
gives the groups of the regular expression of `-m`; `Port` is `strtoul` with base 0,
which stops at `ULONG_MAX` (`LongMax`), cut to sixteen bits. `Ask` and `TypePassword` are `takePassword`; `echo` is the terminal's and
outlives the run, `mode` is what `takePassword` put aside and does not. Files are
sequences of blocks, as in `DownloadSpec`; `documents` says which files hold a
document instead, and what it says. Opening a database is one step with three
outcomes for a compressed file: the copy, a part of a copy and nothing opened, or the packed file, of
which SQLite reads no row; how these come about is in `Gzip`. A kill may come
between any two steps.

`CommandLineSpec` says what a line means without moving anything: its items from left to right, and from
these the last `-f`, `-o` and `-m`, and which names count. The lines
that do not keep to "[options] <filename>" have an outcome of their own: `left` (help, version or a wrong
address), `null` (a `--` at the end), `endless` (two names at the end) and `unclaimed` (options
among the names behind a `--`, of which nothing is claimed).

## The runs

| Run | Asks | Bounds | States |
|-----|------|--------|--------|
| `parser` | all seven properties of the parser | 10 blobs with every type of field, cut, refused and unidentified ones; two identifiers | 1.8 k |
| `parser_mismatch_stays` | a sentence of the header; violated | same | - |
| `database` | five properties of the getters | eight databases of up to five rows: whole, partial, foreign, reordered, damaged, wrong identifier, headers lost once and twice, members cut off with and without an identifier, a member inside a payload; all 23 tables | 18 k |
| `export` | types, saving once, refinement of `ExportSpec`, termination unless a query never answers | three tables, three contents, one listing before the save | 8 k |
| `export_saved_means_saved` | zero means saved; violated | same | - |
| `json` | types, masking, which texts stay in their quotes, which members a reader finds | an object of every table with one member filled, in the tables of few members behind an object of defaults: all texts of up to three characters over zero, a control, quote, backslash and a letter; longer and cut texts; fonts and numbers at each edge; with and without `-c` | 58 k |
| `json_document_is_json` | the file is JSON; violated | same | - |
| `sqlite_reader` | types, statements, counts, refinement of `TableQuery`, termination | four contents of up to three rows, three writes | 2 k |
| `gzip` | types, what SQLite opens is the whole database, opening ends | header of two units, buffer of three, files of up to seven, every place to be cut or damaged, two runs | 10 k |
| `device` | types, order of release, an end without exception, removal only if confirmed, the refinement of `DownloadSpec`, termination | two runs, exports of up to two blocks, progress at the second | 23 k |
| `device_download_complete` | "Download complete!" means a copy; violated | same | - |
| `command_line` | seven properties of `main` | two runs; the first with every line of up to four of six arguments (`-f`, `-o`, `-c`, `--`, a database, a packed one), every text of up to five of four tokens for `-m`, ports at each edge, long and joined options, devices; the second with ten lines for what a run may leave behind; both orderings | 262 k |

Why the bounds are enough. In the parser a call depends on the bytes from the
cursor on and nothing else, so blobs that hold each type once, whole and cut,
exercise every path; the theorems remove the bound. The readers differ only in
their tables, and all are there; the theorems about them take any table. Three contents between which the file moves let a row
vanish, come back and change its table, any number of times, between any two
queries. Two runs let everything one run leaves behind meet the next, and the
first run may itself end in any way. Two blocks are the least that
let a download end in the middle, and let the progress be computed. Four arguments are the fewest with which two names
are exchanged with options before and behind them; longer lines with stretches of
unequal length are among the chosen ones. Seven units are
two full buffers and one more, with sizes below, at and above the header and
each multiple of the buffer.

Deadlock is checked everywhere but in the runs of the device, of Gzip and of the command line, where
the program is not started again after the last run, and in `json`, where one
table is written.

### Fairness

- `DudeExport`: weak fairness of what the program does by itself (`OwnWork`): it is
  one thread. A query (`CallGetter`) is not part of that, as it is tried again for as
  long as another connection has the file locked, nor is the other process, which
  owes nothing. `EndsUnlessLocked` therefore says that `main` ends or stays in one
  query for ever; when a query ends is the question of `CallEnds`.
- `SqliteReader`: weak fairness of `Prepare`, of a step that can read, and of
  the commit of the other process. The loop on `SQLITE_BUSY` has no limit
  (`sqlite_reader.cpp:91`), so that a call ends only if the lock does: this is
  the assumption under which `CallEnds` holds, and writes are bounded. Errors
  are never owed.
- `Gzip`: weak fairness of the opening: no call in it waits for anybody.
- `MikrotikDevice`: weak fairness of the program: a call of libssh2 answers, with
  success or with an error. The session is made blocking and has no timeout, so
  a device that keeps the connection and says nothing is outside of this.
- `TheDudeToHuman`: weak fairness of what `main` does by itself, and of a change
  of phase in the device, which `Terminates` of `MikrotikDevice` justifies for a device
  that answers. The user owes nothing: a run may wait for the password for ever. Nor
  does a locked database: the two steps with queries (`Query`, the listings and the
  document) are under no fairness, and `RunsEnd` excepts a run that stays in one.

## What the runs found

| Finding | Where |
|---------|-------|
| An Int asked for where a Long is stored fails with the cursor behind the header, against the header file's "stays in the same location" | `dude_field_parser.cpp:235` |
| A text with a zero and a backslash is left with a raw zero, or cut off, even inside an escape: the file is not JSON | `string_util.cpp:176` |
| A save whose query or whose writes failed returns zero | `dude_json.cpp:66` |
| "Download complete!" after a download that failed, and the file is removed from the device | `mikrotik_device.cpp:329` |

Noticed besides, without a run of their own:

- The image of a network map element and its scale are read and never written
  (`dude_types.h:1203`), although the flags that say whether to use them are.
  `MembersReadBack` names these two (`ImageIds`) as the only members that are forgotten.
- `SkipField` and `GetFieldInfo` never get over a field that has an identifier
  (`dude_field_parser.cpp:149`), against the header's "Advances offset to next
  field location". Nothing calls them.
- A blob with a field the reader does not know in front of the identifier is dropped
  as corrupted (`dude_database.cpp:112`): `PlainRowsAreExact` speaks of the other
  blobs only.
- Numbers of sixteen bytes whose second half needs more than eight digits, as
  most IPv6 addresses do, share their text with others (`dude_types.h:134`);
  `MembersReadBack` has the exact condition.
- Of a font only size and family are written; the comment that says its bytes
  are in `itemFontRaw` names a member that does not exist (`dude_types.h:234`).
- The community of an SNMP profile is not masked (`dude_types.h:1113`); the code masks what is
  named for a user or a password, and nothing says whether this is one.
- A compressed database that may only be read is handed to SQLite as it is, because the
  stream that looks for the signature is opened for writing as well (`gzip.cpp:47`);
  `OpensTheDatabase` has the exact condition.
- Two names at the end of a line are taken in turn for ever (`TheDudeToHuman.cpp:225-228`), a `--` at
  the end makes a string of the null pointer (`:227`), and a name in front of an
  option that ends the line is never seen (`:135`): `db -o out` prints help.
  `Outcome` of `CommandLineSpec` has the exact conditions, which `ReadAsGiven` checks.
- An option that is unknown or lacks its argument is passed over, so that `-f db -o` saves
  nothing and says so only through getopt's own message.
- `:022` is port 18 and `:65558` port 22; without a port, that of an earlier `-m`
  stays (`TheDudeToHuman.cpp:178-181`). `DialsAsWritten` says for which ports this is no concern.
- The help shows `user@domain.name` (`TheDudeToHuman.cpp:48`), but `inet_addr`
  (`mikrotik_device.cpp:192`) makes nothing of a name and its answer is not looked at.
- `-o` with the name of the database itself empties it before it is read (`dude_json.cpp:34`);
  `DatabasesKept` and `DocumentIsOfTheFileNamed` name this as the one exception.
- A run killed while the password is typed leaves the terminal without echo, and a
  later run takes that for the state to return to (`TheDudeToHuman.cpp:76`).

## What is proved

Every safety property and every refinement of the runs `parser`, `database`, `export`, `json`,
`sqlite_reader`, `gzip` and `device` is a theorem: it holds for every value of the constants that
keeps to the assumptions, where TLC takes the few values of a run. So are those of `command_line`
but for two, `ReadAsGiven` and `DialsAsWritten`; the first is a hypothesis of two of the theorems there.

| Module | Theorem | Property |
|--------|---------|----------|
| `DudeFieldParserProofs` | `CursorInBlob`, `CursorStaysAligned`, `ReadsAreExact`, `CursorNeverGoesBack`, `FailuresKeepCursor`, `FailuresLeaveValue`, `RefusalIsFinal` | `TypeOK`, `CursorAligned`, `ReadsWhatIsThere`, `ForwardOnly`, `FailedCallKeepsCursor`, `FailureLeavesValue`, `RefusedForGood` |
| `DudeExportProofs` | `TypeCorrect`, `RowsInOrder`, `MembersInTheirPlaces`, `OnlyItsRows`, `PlainRowsExact` | of `DudeDatabase`: `TypeOK`, `OneObjectPerRow`, `MembersInPlace`, `OnlyRowsOfTheTable`, `PlainRowsAreExact` |
| | `ExportTypeCorrect`, `StableRowsAreSaved`, `ExportImplementsSave` | `ExportTypeOK`, `StableRowsSaved`, `TablesAreAtomic` |
| `DudeJsonProofs` | `TypeCorrect`, `TextsStay`, `SecretsStay`, `ReadBackExactly` | `TypeOK`, `TextsStayInQuotes`, `CredentialsMasked`, `MembersReadBack` |
| `SqliteReaderProofs` | `TypeCorrect`, `NothingLeftBehind`, `ReaderImplementsQuery` | `TypeOK`, `NoStatementLeft`, `QueriesAreAtomic` |
| `GzipProofs` | `TypeCorrect`, `WholeDatabaseIsOpened` | `TypeOK`, `OpensTheDatabase` |
| `MikrotikDeviceProofs` | `LocalIsOneExport`, `TrueMeansCopied`, `NothingIsLost` | of `DownloadSpec`: `NeverMixed`, `AnswerIsKept`, `CopiedBeforeRemoval` |
| | `TypeCorrect`, `NothingLeftOpen`, `NoDivisionWithoutFailure`, `ConfirmedBeforeRemoval`, `DeviceImplementsDownload`; `DeviceNeverMixes`, `DeviceAnswerIsKept`, `DeviceLosesNothing` | `TypeOK`, `ReleasedInOrder`, `FlawlessRunsEndWell`, `RemovedOnlyIfConfirmed`, `KeepsItsPromise`; the three of `DownloadSpec` |
| `TheDudeToHumanProofs` | `TypeCorrect`, `EchoIsBack`; given `[]ReadAsGiven`: `DocumentOfTheFileNamed`, `DatabasesOutlive` | `TypeOK`, `EchoComesBack`, `DocumentIsOfTheFileNamed`, `DatabasesKept` |

Each component has its inductive invariant as a conjunction of named parts: `IInv`, but `ExportInv` for the
export, `PromiseInv` for the download and `Written` for the JSON. That it holds is `Inductive`,
`ExportInductive`, `PromiseInductive` or `WrittenAlways`; TLC has checked each on the run of its component.

### The parser

*Assumptions.* Blobs are sequences of bytes that carry the offsets at which
their fields begin (`BlobsAssumption`), and identifiers are natural numbers. TLC evaluates these and
all assumptions below in the runs.

*The argument.* The inductive invariant is
`IInv == TypeOK /\ CursorAligned /\ BlobKept`. `CursorAligned` alone is not inductive:
that a call stops at the beginning of a field needs to know that `starts`
belongs to this blob, which `BlobKept` says. The step of every call rests on one
lemma about its operator, `ReadFieldIsGood` and `SkipFieldIsGood` of `FieldReadsProofs`: the call
stays in the blob, succeeds exactly on the fields of the format and stops where
the format says. These come from a lemma for each shape of payload. The
one that is not arithmetic is the array of strings, where the parser's loop and
the format's definition are two recursive functions over the entries:
`EntriesEndIsStringsEnd` proves them equal for arrays of any length, by induction
with `SetInduction`, which derives induction from the least
element of a set of numbers because the library's induction theorems cannot be
instantiated here.

### The table readers

*Assumptions.* A table has a format of its own, distinct members, and its identifier is asked for
as an Int (`TablesAssumption`, which the 23 tables of `DudeTables` keep); identifiers of rows are a
primary key (`DatabasesAssumption`).

*The argument.* `ReadMembers`, a chain of calls of `ReadField`, is a recursive function; `ReadersWalk`
shows by induction over the members that it satisfies its own equations, for tables of any length.
Two lemmas are proved along the chain. `ReadersTakeInTurn`: whatever the bytes, a call finds the cursor
where the last member taken whole ends (`Ends`), or a number of headers further, each passed and lost by an
earlier call (`Slipped`). The step is `CallInTurn`: a call that takes its member whole moves the
cursor to its end, one that loses a header adds one to them (`OneMoreSlip`), any other leaves the
cursor, also one that takes part of a field that is cut off, which later calls may then take part of
too. `TakenInPlace` draws `MembersInPlace` from it.
`PlainMembers`: on a blob that a reader can tell apart, by `InOrder` and `NoneFollows` of
`RowFormat`, what is taken is what the format says. At a field that is not the one asked for
a call takes nothing and stays (`CallMisses`), at the one asked for it takes it and goes on to the
next (`CallTakes`), and a member of the table that is in front of the field is asked for before it.
`PlainIdentifier` adds that the identifier the code compares is the one in the blob.
The invariant adds to the types that the objects a getter has are `MadeOf` the rows in front of the
one its loop is at (`LoopOK`); `OneMoreRow` is its step, and `ExactlyTheObjects` draws
`PlainRowsAreExact` and `OnlyRowsOfTheTable` from it.

### The export

*Assumptions.* Those of the table readers; what is listed are tables (`ListedAssumption`).

*The argument.* `ExportSpec` has a copy of `RowFormat` of its own, which the first lemmas show to be
the same. `Made(rows, table, n)` are the objects of the first `n` rows. `ExportInv` says that the loop of the
running getter has just these (`LoopMakes`); that every table in the document is made of the rows of
one query (`TableHasThem`), among which, while no query has failed, are all that have stayed;
and the same for the query that runs now (`QueryHasThem`). The last is needed because a row may go after
it was queried. `WrittenOnce` then finds a row that stayed once in its table, and in no other, as formats differ.
For the refinement the table appears in the promised document when its query runs: `QueryIsSaveTable` is
that step, by `WrittenIsAnswer`, and the step that puts the table into the stream maps to a stutter, by
`LoopMakes` at the end of the loop.

### The SQLite reader

*Assumptions.* Contents are sequences; `MaxWrites` is a number. *The argument.* `ReadingOK` is the
heart of the invariant: a statement that reads goes through the rows the file holds, since nobody writes it
meanwhile, and has had the first of them. `CountOK` says that the vector of the count has its one
element whenever it is read. With the rows seen as the state of the query, a step that fetches a row is a
stutter and the end of the second statement is `Succeed`.

### Gzip

*Assumptions.* The buffer is no smaller than the header, as 16384 is no smaller than 0x200. *The argument.*
`UnpackOK`: what was written and what waits in the buffer are together the units read so far without the header. A
batch extends this at its end (`copy \o buffer \o batch`), the first one without the header; and the
copy is opened only when all was read and closed.

### The device

*Assumptions.* Bounds are numbers, and progress is told every so many reads, not every zero.
*The argument.* Of `DownloadSpec` it is proved, for exports of any size and any number of runs, that the
local file is never parts of two exports, that a flawless answer
of true comes with this run's export and an empty device, and
that a flawless run removes nothing it has not copied. There
are no assumptions but that the bound is a number. `PromiseInv` adds to the types which files there can
be, the first blocks of one export each (`PromisedFiles`, which the copy of a beginning keeps by
`FirstBlocks`), and what is known of them in each phase while nothing has failed
(`PromisedPhases`). The invariant of `MikrotikDevice` has what is open where (`ConnectionOK`, `ReleaseOK`), what an answer of the
device stands for (`OutputOK`: that begins with a one only if the file was there in this run), and how
much of the file is copied (`CopyOK`). `NextIsNext` takes the actions one by one and shows each to be a step of
`DownloadSpec` or a stutter. With that the three theorems about `DownloadSpec` hold of the code's own steps, as the
last three of `MikrotikDeviceProofs`; `TheDudeToHuman` is composed with `DownloadSpec`.

### The JSON of the objects

*Assumptions.* A structure writes members it has, each of a type that is known (`StructuresAssumption`), and
an object holds bytes of the shape its types ask for (`TablesAssumption`). `SecretsStay` supposes
that every structure masks what it writes of the user names and passwords (`MasksSecrets`), `ReadBackExactly` that it
masks nothing else and forgets the images alone (`MasksNothingElse`, `ForgetsImages`). That
the 23 structures of the code are so is what the run `json` finds out member by member; that nothing
else is needed, whatever the texts, is what the theorems add.

*The argument.* The loop is simple (`Written`); the texts are not. `Sanitize` makes thirty-five
replacements one after the other. A replacement of a character is a pass that puts a piece in the
place of each character (`Spread`), two passes are one (`SpreadTwice`), and no piece holds a character that
a later pass replaces (`EscapedByNext`, `NotReplacedAgain`): so the thirty-five are one pass
(`EscapeAllIsSpread`, `PlainPieceIs`, `ZeroedPieceIs`). Each piece is JSON and is read as
its character unless JSON has only a name for it (`PieceIsJson`); and JSON joined to JSON is JSON, read
as the two joined (`JsonJoined`, `TextOfJoined`), although what a backslash means depends on all before it
(`EscapeAtBehind`). What is left are the zeroes, which `Sanitize` replaces only up to the length the text
had before its backslashes were doubled. `PlaceIs` to `PlacesAreAll` say where each character comes to stand,
and `SanitizeIs` what is then written: with the zeroes that have all moved out left raw (`ZeroLeft`), or cut
at the old length, perhaps between the two backslashes of a pair (`CutInEscape`). `SanitizeIsJson`
shows that these two are exactly the texts that are not JSON. Induction over texts is `TextInduction`, got from
sets of numbers. For numbers of sixteen bytes `LongLongIsReadBack` follows the digits: the second half
is told from the first exactly if it has no more than eight.

### The command line

*Assumptions.* Lines are sequences of arguments, digits stand for numbers below ten, and `MaxBlocks` and `LongMax` are numbers
(`LinesAssumption`, `DigitsAssumption`, `BoundAssumption`, `LongAssumption`); no file of the name that is fetched is
there at first (`DatabasesAssumption`); and as the model goes by the name to say whether a file is
compressed, the copy of one has neither a name that is nor the one that is fetched (`PackedAssumption`). A database may
well have the name of a copy: it is then overwritten, as `DatabasesKept` says.

*The argument.* `IInv` has one part for each thing a run works on. `DataOK`: `Within`, that the stretch of
names and `optind` lie within the arguments and that a half-read argument is there, is kept by each part of
`getopt_long`. `exchange` turns until one stretch is used up (`TurnKeeps`, `SwappedKeeps`), `NextOptionIs` says what the
skipping of names finds, and `GetOptLongKeeps` puts the parts together. That main may move `optind` itself needs more:
an answer that ends the options leaves no argument half read. The port is a number of sixteen bits
because what the regular expression takes for it are digits (`PortIsOfDigits`, for the match that
is first among the possible ones, which `LongestWay` shows to exist). `TerminalOK` knows what
`takePassword` will go back to: without echo only after a kill. `DocumentsOK`, `PhaseOK` and
`FetchOK` carry `DownloadSpec` through `main`, as what a run knows of the local file in each phase.
`SavedOK` follows the file named: what SQLite has open is that file or the whole copy of it (`SourceIsNamed`),
still so after the document was created, unless this took the place of one of the two, and the rows
written are of it.

`DocumentOfTheFileNamed` and `DatabasesOutlive` are about what a line means, and the invariant about
the variables of `main`. Between the two stands `ReadAsGiven`, that at the end of the options the variables say what
the line says; the theorems have `[]ReadAsGiven` as their hypothesis, and TLC checks it on every
line of the run. So they show that everything behind the options is right for any
number of runs, any files and every failure, if the options are.

### Only checked

- The liveness properties (`EndsUnlessLocked`, `Terminates`, `CallEnds`, `OpeningEnds`, `RunsEnd`): the prover has no
  rules for fairness.
- `ReadAsGiven` and `DialsAsWritten`: they compare the loop of `main` over `getopt_long`, which permutes the
  line step by step, with recursive functions over the whole line, for lines of any length. A proof would need,
  at each step, which part of the meaning of the line has been taken and which is still in the
  permuted arguments; that is induction over data, and has not been brought to sets of numbers here.
- `DudeTables` and `DudeObjects` are kept out of the modules with theorems, as their
  numerals are hexadecimal, which the prover does not read; `TablesAssumption` of the table readers and
  `MasksSecrets`, `MasksNothingElse` and `ForgetsImages` are what is known of them there, and TLC evaluates
  the first and checks, by `CredentialsMasked` and `MembersReadBack`, what the others are for.
- What a recursive function computes for every input is in general out of reach of the prover's
  library; where it is proved here it was brought to sets of numbers, with `SetInduction`.

## Not modelled

- The labels and the layout of the JSON, numbers in decimal, bytes above 127
  but for a8, which `Sanitize` replaces.
- The wording of what is printed. The case `d` of `main`, which no option leads to.
- The SQLite writer and the validator, which nothing makes: the writer's only statement is
  private and uncalled, its `CreateTable` returns zero, the validator is a
  constructor. `UploadDatabase`, `Compress`, `ListUsedDataFormats` and the getters of the chart
  and outage tables are stubs or uncalled.
- The Windows side: `takePassword` by console modes, wide characters in getopt.
- The common headers, which name types and swap bytes, and the helpers of
  `string_util.cpp` that nothing reaches.
- SQLite, zlib, libssh2, fmt, the device: external, modelled by what the code relies on. The
  amalgamation `sqlite3.c` with its header makes up 97 of every 100 lines of code under `src/`; it is a
  library with a verification of its own, and of it only the locks and results the reader meets are here.
- Threads: `session_mutex` guards calls that only one thread makes.

## Plan

The order was: the parser, since everything rests on where its cursor stands;
the tables over it; the export over those; the query below them; the
unpacking and the device, which feed them; the JSON of the objects; last the command line, which joins them. Each came with its abstract side (`BlobFormat`,
`RowFormat`, `ExportSpec`, `TableQuery`, `JsonText`, `DownloadSpec`, `CommandLineSpec`) first. What is left:

1. `ReadAsGiven` for lines of any length: an invariant that splits the meaning of a line into what main has
   taken and what `getopt_long` has still to give, kept by `exchange`. `DialsAsWritten` rests on it, and on
   `Address` of `CommandLineSpec` giving the groups of the regular expression.
