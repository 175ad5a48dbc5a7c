-------------------------------- MODULE Gzip ---------------------------------
(***************************************************************************)
(* SqliteReader::OpenDatabase with the class Gzip it uses: a compressed    *)
(* database is unpacked, without the header in front of it, into a copy    *)
(* next to it, and the copy is opened.  The program is started again and   *)
(* again, on a file that may have been replaced, and may be killed: the    *)
(* copy of one run is still there in the next.                             *)
(*                                                                         *)
(* zlib and the streams are external.  Sizes count units of which the      *)
(* header has HeaderLen and the buffer BufLen; a unit is known by the run  *)
(* whose file it is of and its place in the unpacked file.                 *)
(***************************************************************************)
EXTENDS Integers, Sequences

CONSTANTS
  HeaderLen,   \* the header of a Dude database, 0x200 bytes in the code
  BufLen,      \* the buffer of DecompressFiles
  MaxUnits,    \* bound: the size of an unpacked file
  MaxRuns      \* bound: how often the program is started

ASSUME SizesAssumption ==
  /\ HeaderLen \in Nat \ {0}
  /\ BufLen \in Nat /\ HeaderLen <= BufLen
  /\ MaxUnits \in Nat /\ MaxRuns \in Nat

VARIABLES
  pc,              \* "off", "open", "unpack", "read", "finish", "copy", "ready", "failed"
  source,          \* the file the program was given
  position,        \* the units gzread has given
  is_first_batch,
  buffer,          \* what fwrite took and has not yet written
  copy,            \* the units in the copy
  opened,          \* what SQLite opened: "none", "source" or "copy"
  runs             \* the number of the run

vars == <<pc, source, position, is_first_batch, buffer, copy, opened, runs>>

\* A file: compressed or not, whether it may be written, the size it has
\* unpacked, and how much of that can be read: where "fault" is "cut" it ends
\* there in the middle of the stream, where it is "damaged" a check fails.
Files ==
  [compressed : BOOLEAN, writable : BOOLEAN, size : 0..MaxUnits,
   fault : {"none", "cut", "damaged"}, readable : 0..MaxUnits]

Sources ==
  {f \in Files : IF f.fault = "none" THEN f.readable = f.size ELSE f.readable < f.size}

Content(size) == [i \in 1..size |-> <<runs, i>>]

\* What stands behind the buffer on the stack.
Garbage == <<0, 0>>

Init ==
  /\ pc = "off"
  /\ source \in Sources
  /\ position = 0
  /\ is_first_batch = TRUE
  /\ buffer = <<>>
  /\ copy = <<>>
  /\ opened = "none"
  /\ runs = 0

\* A new reader, before its database is open.
Start ==
  /\ pc = "off"
  /\ runs < MaxRuns
  /\ pc' = "open"
  /\ source' \in Sources
  /\ opened' = "none"
  /\ runs' = runs + 1
  /\ position' = 0
  /\ is_first_batch' = TRUE
  /\ buffer' = <<>>
  /\ copy' = copy

\* The signature is read through a stream opened for reading and writing.
IsGzipFile == source.writable /\ source.compressed

Fail ==
  /\ pc' = "failed"
  /\ UNCHANGED <<source, position, is_first_batch, buffer, opened, runs>>

\* A plausible slip: what SQLite answers is not looked at in the first place.
OpenDatabaseEager ==
  /\ pc = "open"
  /\ pc' = IF IsGzipFile THEN "unpack" ELSE "failed"
  /\ opened' = IF IsGzipFile THEN opened ELSE "source"
  /\ UNCHANGED <<source, position, is_first_batch, buffer, copy, runs>>

\* OpenDatabase up to the copy.  SQLite opens a file without a look into it.
OpenDatabase ==
  /\ pc = "open"
  /\ copy' = copy
  /\ \/ /\ IsGzipFile
        /\ pc' = "unpack"
        /\ UNCHANGED <<source, position, is_first_batch, buffer, opened, runs>>
     \/ /\ ~IsGzipFile
        /\ pc' = "ready"
        /\ opened' = "source"
        /\ UNCHANGED <<source, position, is_first_batch, buffer, runs>>
     \/ ~IsGzipFile /\ Fail

\* Decompress opens both files, which empties the copy.
Decompress ==
  /\ pc = "unpack"
  /\ \/ /\ pc' = "read"
        /\ copy' = <<>>
        /\ UNCHANGED <<source, position, is_first_batch, buffer, opened, runs>>
     \/ copy' \in {copy, <<>>} /\ Fail

\* fwrite: the stream writes some of what it has, in order, or fails.
Write(units) ==
  \E n \in 0..Len(buffer \o units) :
    /\ copy' = copy \o SubSeq(buffer \o units, 1, n)
    /\ buffer' = SubSeq(buffer \o units, n + 1, Len(buffer \o units))

\* The lengths gzread may return: a full buffer unless the file ends, and an
\* error instead of, or behind, what stands before the damage.
Left == source.readable - position

Lengths ==
  LET full == IF Left < BufLen THEN Left ELSE BufLen
  IN IF source.fault = "damaged" /\ Left < BufLen
     THEN {-1} \cup ({Left} \ {0}) ELSE {full}

Batch(len) == SubSeq(Content(source.size), position + 1, position + len)

\* A plausible slip: every batch is taken for the first.
ReadBatchStripped ==
  /\ pc = "read"
  /\ \E len \in Lengths :
       /\ len >= HeaderLen
       /\ Write(SubSeq(Batch(len), HeaderLen + 1, len))
       /\ position' = position + len
  /\ UNCHANGED <<pc, source, is_first_batch, opened, runs>>

\* A batch of the loop of DecompressFiles, the first without the header.
ReadBatch ==
  /\ pc = "read"
  /\ \E len \in Lengths :
       /\ len > 0
       /\ is_first_batch => len >= HeaderLen
       /\ \/ /\ Write(IF is_first_batch THEN SubSeq(Batch(len), HeaderLen + 1, len) ELSE Batch(len))
             /\ position' = position + len
             /\ is_first_batch' = FALSE
             /\ UNCHANGED <<pc, source, opened, runs>>
          \/ copy' = copy /\ Fail

\* A first batch shorter than the header: the length wraps around, and fwrite
\* runs over the end of the buffer, until it fails or the program is ended.
ReadShortBatch ==
  /\ pc = "read"
  /\ is_first_batch
  /\ \E len \in Lengths : len > 0 /\ len < HeaderLen
  /\ copy' \in {copy, Append(copy, Garbage)}
  /\ pc' \in {"off", "failed"}
  /\ UNCHANGED <<source, position, is_first_batch, buffer, opened, runs>>

\* A plausible slip: an error is taken for an empty batch.
ReadFailsOn ==
  /\ pc = "read"
  /\ -1 \in Lengths
  /\ UNCHANGED vars

\* gzread reports an error.
ReadFails ==
  /\ pc = "read"
  /\ -1 \in Lengths
  /\ copy' = copy
  /\ Fail

\* gzread reports the end.
EndOfFile ==
  /\ pc = "read"
  /\ 0 \in Lengths
  /\ pc' = "finish"
  /\ UNCHANGED <<source, position, is_first_batch, buffer, copy, opened, runs>>

\* fclose writes what is left, and gzclose answers that the stream was whole.
Finish ==
  /\ pc = "finish"
  /\ \/ /\ source.fault # "cut"
        /\ copy' = copy \o buffer
        /\ pc' = "copy"
     \/ /\ \E n \in 0..Len(buffer) : copy' = copy \o SubSeq(buffer, 1, n)
        /\ pc' = "failed"
  /\ buffer' = <<>>
  /\ UNCHANGED <<source, position, is_first_batch, opened, runs>>

\* OpenDatabase goes on with the copy.
OpenCopy ==
  /\ pc = "copy"
  /\ copy' = copy
  /\ \/ /\ pc' = "ready"
        /\ opened' = "copy"
        /\ UNCHANGED <<source, position, is_first_batch, buffer, runs>>
     \/ Fail

\* The program ends, by itself or killed; a stream that was left open by a
\* failure still writes some of what it has, or nothing.
End ==
  /\ pc # "off"
  /\ pc' = "off"
  /\ Write(<<>>)
  /\ opened' = "none"
  /\ UNCHANGED <<source, position, is_first_batch, runs>>

Opening ==
  \/ OpenDatabase \/ Decompress
  \/ ReadBatch \/ ReadShortBatch \/ ReadFails \/ EndOfFile \/ Finish \/ OpenCopy

Next == Start \/ Opening \/ End

\* No call of zlib, SQLite or the streams waits for anybody.
Spec == Init /\ [][Next]_vars /\ WF_vars(Opening)
-----------------------------------------------------------------------------
Units == {Garbage} \cup (1..MaxRuns) \X (1..MaxUnits)

TypeOK ==
  /\ pc \in {"off", "open", "unpack", "read", "finish", "copy", "ready", "failed"}
  /\ source \in Sources
  /\ position \in 0..source.readable
  /\ is_first_batch \in BOOLEAN
  /\ buffer \in Seq(Units)
  /\ copy \in Seq(Units)
  /\ opened \in {"none", "source", "copy"}
  /\ opened # "none" => pc = "ready"
  /\ runs \in 0..MaxRuns

\* "Sqlite can't read compressed databases" (sqlite_reader.cpp:23): what SQLite
\* opens is never packed and never a part.  If it is the copy, that holds the
\* whole database and nothing else: the file of this run unpacked, without its
\* header, whatever an earlier run left there, wherever the file was cut off or
\* damaged, and however its size relates to the header and the buffer.  If it
\* is the file itself, that is not compressed, or may not be written, so that
\* the stream that looks for the signature could not be opened (gzip.cpp:47).
OpensTheDatabase ==
  /\ opened = "copy" =>
       /\ source.fault = "none"
       /\ copy = SubSeq(Content(source.size), HeaderLen + 1, source.size)
  /\ opened = "source" => ~source.compressed \/ ~source.writable

\* OpenDatabase comes to an end, whatever zlib answers.
OpeningEnds == pc = "open" ~> pc \in {"ready", "failed", "off"}
=============================================================================
