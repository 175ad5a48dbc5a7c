--------------------------- MODULE MikrotikDevice ----------------------------
(***************************************************************************)
(* The class MikrotikDevice as main uses it: connect, have the device      *)
(* export its database into a file, ask whether the file is there, fetch   *)
(* it over SFTP, remove it from the device, disconnect, and read the local *)
(* file.  Every call of libssh2 may fail, the connection may be lost       *)
(* between any two of them, and the program may be killed.  The local file *)
(* and the file on the device outlive the program: the next run finds      *)
(* them.                                                                   *)
(*                                                                         *)
(* libssh2, the sockets and the device are external.  A file is the        *)
(* sequence of the blocks it is read in; a block is known by the export it *)
(* comes from and its number, so that a mixture would show.                *)
(***************************************************************************)
EXTENDS Integers, Sequences

CONSTANTS
  MaxRuns,        \* bound: how often the program is started
  MaxBlocks,      \* bound: the blocks of an export
  ProgressEvery   \* the number of blocks between two reports of progress

ASSUME BoundsAssumption ==
  /\ MaxRuns \in Nat
  /\ MaxBlocks \in Nat
  /\ ProgressEvery \in Nat \ {0}

VARIABLES
  \* the program
  pc,            \* what it does next
  is_connected,
  session,       \* the SSH session: "none", "made", "up" or "down"
  sock,          \* the socket: "none", "open", "closed" or "closed twice"
  channel,       \* "none", "open" or "running" (its command was taken)
  sftp_session,  \* "none", "open" or "closed"
  sftp_handle,   \* "none", "open" or "closed"
  output,        \* what the command has answered so far
  filesize,      \* what fstat said the file has, in blocks
  reads,         \* the blocks read so far
  stream,        \* the local file is "closed", "good" or "bad"
  returned,      \* what DownloadDatabase returned: "none", "true" or "false"
  \* what is outside
  link,          \* the connection: "up" or "lost"
  reply,         \* what the running command has still to answer
  remote,        \* the file on the device
  local,         \* the local file
  \* auxiliary
  runs,          \* the number of the run
  flawless,      \* nothing has failed in this run
  confirmed,     \* the device has said in this run that the file is there
  leaked         \* channels that were opened and never freed

sshVars   == <<is_connected, session, sock>>
sftpVars  == <<sftp_session, sftp_handle, filesize, reads, stream>>
execVars  == <<channel, output, reply, leaked, confirmed>>
fileVars  == <<remote, local>>
vars == <<pc, sshVars, sftpVars, execVars, fileVars, runs, returned, link, flawless>>

\* A file: whether it is there, and its blocks.
NoFile  == [there |-> FALSE, blocks |-> <<>>]
File(s) == [there |-> TRUE, blocks |-> s]

Export(n) == File([i \in 1..n |-> <<runs, i>>])

Init ==
  /\ pc = "done"
  /\ is_connected = FALSE /\ session = "none" /\ sock = "none"
  /\ channel = "none" /\ output = <<>> /\ reply = <<>> /\ leaked = 0
  /\ sftp_session = "none" /\ sftp_handle = "none"
  /\ filesize = 0 /\ reads = 0 /\ stream = "closed"
  /\ returned = "none"
  /\ link = "up"
  /\ remote = NoFile /\ local = NoFile
  /\ runs = 0
  /\ flawless = TRUE /\ confirmed = FALSE

\* A call of a library succeeds only while the connection is up; that one has
\* failed is remembered.
Succeeds == link = "up" /\ flawless' = flawless
Fails    == flawless' = FALSE

\* The constructor: InitializeSSH makes the session.
Construct ==
  /\ pc = "done"
  /\ runs < MaxRuns
  /\ pc' = "connect"
  /\ session' = "made" /\ sock' = "none" /\ is_connected' = FALSE
  /\ channel' = "none" /\ output' = <<>> /\ reply' = <<>> /\ leaked' = 0
  /\ sftp_session' = "none" /\ sftp_handle' = "none"
  /\ filesize' = 0 /\ reads' = 0 /\ stream' = "closed"
  /\ returned' = "none"
  /\ link' = "up"
  /\ runs' = runs + 1
  /\ flawless' = TRUE /\ confirmed' = FALSE
  /\ UNCHANGED fileVars

\* DisconnectSSH: the session is told and the socket, if there ever was one,
\* closed: its number is kept, so that nothing would stop a second close.
Closing == [none |-> "none", open |-> "closed", closed |-> "closed twice"]

DisconnectSSH ==
  /\ session' = "down"
  /\ sock' = Closing[sock]

\* Connect: the socket, the connection, the handshake and the password.  When
\* one of them fails the connection is taken down and main gives up.
Connect ==
  /\ pc = "connect"
  /\ \/ /\ Succeeds
        /\ sock' = "open" /\ session' = "up" /\ is_connected' = TRUE
        /\ pc' = "export"
     \/ /\ Fails
        /\ session' = "down"
        /\ sock' \in {"none", "closed"}
        /\ is_connected' = FALSE
        /\ pc' = "destroy"
  /\ UNCHANGED <<sftpVars, execVars, fileVars, runs, returned, link>>

-----------------------------------------------------------------------------
\* Execute, for one of three commands.  What ExecuteSSH returns is ignored:
\* however it ends, DownloadDatabase goes on.

Commands == {"export", "count", "remove"}

AfterCommand ==
  [export |-> "count", count |-> "check", remove |-> "disconnect"]

GoOn == pc' = AfterCommand[pc]

\* What the device does with a command it was given: an export may fail, for
\* want of space say, and then leaves an older file alone.
Effect ==
  \/ pc = "export" /\ remote' \in {remote} \cup {Export(n) : n \in 0..MaxBlocks}
  \/ pc = "count"  /\ remote' = remote
  \/ pc = "remove" /\ remote' = NoFile

\* A command that was not carried out for a reason of the device's own.
Refused == pc = "export" /\ remote' = remote

\* "count-only" answers a number and a line end; the others are not looked at.
Answer == IF pc = "count" THEN <<IF remote.there THEN "1" ELSE "0", "\r", "\n">> ELSE <<>>

OpenChannel ==
  /\ pc \in Commands
  /\ channel = "none"
  /\ output' = <<>>
  /\ \/ Succeeds /\ channel' = "open" /\ pc' = pc
     \/ Fails /\ channel' = channel /\ GoOn
  /\ UNCHANGED <<sshVars, sftpVars, fileVars, runs, reply, leaked, confirmed, returned, link>>

\* A request that fails may have been carried out all the same.  Its channel
\* is not freed.
ExecCommand ==
  /\ pc \in Commands
  /\ channel = "open"
  /\ \/ /\ link = "up"
        /\ Effect
        /\ flawless' = (flawless /\ ~Refused)
        /\ reply' = Answer
        /\ channel' = "running"
        /\ pc' = pc /\ leaked' = leaked
     \/ /\ Fails
        /\ Effect \/ remote' = remote
        /\ channel' = "none"
        /\ leaked' = leaked + 1
        /\ GoOn
        /\ UNCHANGED reply
  /\ UNCHANGED <<sshVars, sftpVars, local, runs, output, confirmed, returned, link>>

\* One call of libssh2_channel_read: it gives what has arrived, and the loop
\* puts a line end behind it.
ReadReply ==
  /\ pc \in Commands
  /\ channel = "running"
  /\ reply # <<>>
  /\ Succeeds
  /\ \E n \in 1..Len(reply) :
       /\ output' = output \o SubSeq(reply, 1, n) \o <<"\n">>
       /\ reply' = SubSeq(reply, n + 1, Len(reply))
       /\ confirmed' = (confirmed \/ (n >= 1 /\ reply[1] = "1"))
  /\ UNCHANGED <<pc, sshVars, sftpVars, fileVars, runs, channel, leaked, returned, link>>

\* A plausible slip: every error of a read is taken for "try again".
EndCommandRetrying ==
  /\ pc \in Commands
  /\ channel = "running"
  /\ reply = <<>>
  /\ flawless' \in {flawless, FALSE}
  /\ channel' = "none"
  /\ GoOn
  /\ UNCHANGED <<sshVars, sftpVars, fileVars, runs, reply, output, leaked, confirmed, returned,
                 link>>

\* The reply ends, or cannot be read; the channel is closed and freed.
EndCommand ==
  /\ pc \in Commands
  /\ channel = "running"
  /\ IF reply = <<>> THEN flawless' \in {flawless, FALSE} ELSE Fails
  /\ channel' = "none"
  /\ reply' = <<>>
  /\ GoOn
  /\ UNCHANGED <<sshVars, sftpVars, fileVars, runs, output, leaked, confirmed, returned, link>>

-----------------------------------------------------------------------------
\* The rest of DownloadDatabase.

StartsWith(s, t) == Len(t) <= Len(s) /\ SubSeq(s, 1, Len(t)) = t

\* A plausible slip: the count is printed and not acted upon.
CheckLenient ==
  /\ pc = "check"
  /\ pc' = "sftp"
  /\ UNCHANGED <<sshVars, sftpVars, execVars, fileVars, runs, returned, link, flawless>>

\* output.starts_with("1\r"), else "File not found" and main gives up.
Check ==
  /\ pc = "check"
  /\ IF StartsWith(output, <<"1", "\r">>)
     THEN pc' = "sftp" /\ returned' = returned
     ELSE pc' = "destroy" /\ returned' = "false"
  /\ UNCHANGED <<sshVars, sftpVars, execVars, fileVars, runs, link, flawless>>

\* InitializeSFTP; a null pointer goes on as well.
InitializeSFTP ==
  /\ pc = "sftp"
  /\ \/ Succeeds /\ sftp_session' = "open"
     \/ Fails /\ sftp_session' = "none"
  /\ pc' = "open"
  /\ UNCHANGED <<sshVars, sftp_handle, filesize, reads, stream, execVars, fileVars, runs,
                 returned, link>>

\* A plausible slip: the size is never asked for.
OpenFilesUnsized ==
  /\ pc = "open"
  /\ \/ /\ Fails
        /\ sftp_handle' = "none"
        /\ pc' = "close"
        /\ UNCHANGED <<local, stream, filesize>>
     \/ /\ sftp_session = "open"
        /\ remote.there
        /\ link = "up"
        /\ sftp_handle' = "open"
        /\ \/ /\ Fails
              /\ pc' = "close"
              /\ UNCHANGED <<local, stream, filesize>>
           \/ /\ local' = File(<<>>)
              /\ stream' = "good"
              /\ pc' = "read"
              /\ Succeeds
              /\ filesize' = 0
  /\ reads' = 0
  /\ UNCHANGED <<sshVars, sftp_session, execVars, remote, runs, returned, link>>

\* The beginning of DownloadFile: open the file on the device, create the
\* local one, which empties it, and ask for the size.  A size that could not
\* be had is whatever was on the stack.
OpenFiles ==
  /\ pc = "open"
  /\ \/ /\ Fails
        /\ sftp_handle' = "none"
        /\ pc' = "close"
        /\ UNCHANGED <<local, stream, filesize>>
     \/ /\ sftp_session = "open"
        /\ remote.there
        /\ link = "up"
        /\ sftp_handle' = "open"
        /\ \/ /\ Fails
              /\ pc' = "close"
              /\ UNCHANGED <<local, stream, filesize>>
           \/ /\ local' = File(<<>>)
              /\ stream' = "good"
              /\ pc' = "read"
              /\ \/ Succeeds /\ filesize' = Len(remote.blocks)
                 \/ Fails /\ filesize' \in {0, MaxBlocks + 1}
  /\ reads' = 0
  /\ UNCHANGED <<sshVars, sftp_session, execVars, remote, runs, returned, link>>

\* One turn of the loop: a block is read and written.  A write that fails
\* makes those after it fail, and nobody looks.  Every so many blocks the
\* progress is computed, a division by the size.
ReadBlock ==
  /\ pc = "read"
  /\ reads < Len(remote.blocks)
  /\ link = "up"
  /\ ~(filesize = 0 /\ (reads + 1) % ProgressEvery = 0)
  /\ reads' = reads + 1
  /\ \/ /\ stream = "good"
        /\ Succeeds
        /\ local' = File(Append(local.blocks, remote.blocks[reads + 1]))
        /\ stream' = stream
     \/ /\ Fails
        /\ stream' = "bad"
        /\ local' = local
  /\ UNCHANGED <<pc, sshVars, sftp_session, sftp_handle, filesize, execVars, remote, runs,
                 returned, link>>

\* The division by zero ends the program.
DivideByZero ==
  /\ pc = "read"
  /\ reads < Len(remote.blocks)
  /\ link = "up"
  /\ filesize = 0
  /\ (reads + 1) % ProgressEvery = 0
  /\ pc' = "done"
  /\ UNCHANGED <<sshVars, sftpVars, execVars, fileVars, runs, returned, link, flawless>>

\* A plausible slip: a short block is taken for the end.
EndDownloadShort ==
  /\ pc = "read"
  /\ IF reads + 1 >= Len(remote.blocks) THEN flawless' = flawless ELSE Fails
  /\ stream' = "closed"
  /\ pc' = "close"
  /\ UNCHANGED <<sshVars, sftp_session, sftp_handle, filesize, reads, execVars, fileVars, runs,
                 returned, link>>

\* The end of the file and an error look the same: "Download complete!"
EndDownload ==
  /\ pc = "read"
  /\ IF reads = Len(remote.blocks) THEN flawless' \in {flawless, FALSE} ELSE Fails
  /\ stream' = "closed"
  /\ pc' = "close"
  /\ UNCHANGED <<sshVars, sftp_session, sftp_handle, filesize, reads, execVars, fileVars, runs,
                 returned, link>>

\* A plausible slip: the handle is not closed.
DisconnectSFTPSession ==
  /\ pc = "close"
  /\ sftp_session' = IF sftp_session = "open" THEN "closed" ELSE sftp_session
  /\ pc' = "remove"
  /\ UNCHANGED <<sshVars, sftp_handle, filesize, reads, stream, execVars, fileVars, runs,
                 returned, link, flawless>>

\* DisconnectSFTP.
DisconnectSFTP ==
  /\ pc = "close"
  /\ sftp_handle' = IF sftp_handle = "open" THEN "closed" ELSE sftp_handle
  /\ sftp_session' = IF sftp_session = "open" THEN "closed" ELSE sftp_session
  /\ pc' = "remove"
  /\ UNCHANGED <<sshVars, filesize, reads, stream, execVars, fileVars, runs, returned, link,
                 flawless>>

\* A plausible slip: the connection is not forgotten.
DisconnectRemembered ==
  /\ pc = "disconnect"
  /\ returned' = "true"
  /\ DisconnectSSH
  /\ pc' = "destroy"
  /\ UNCHANGED <<is_connected, sftpVars, execVars, fileVars, runs, link, flawless>>

\* DownloadDatabase returns true; main disconnects.
Disconnect ==
  /\ pc = "disconnect"
  /\ returned' = "true"
  /\ DisconnectSSH
  /\ is_connected' = FALSE
  /\ pc' = "destroy"
  /\ UNCHANGED <<sftpVars, execVars, fileVars, runs, link, flawless>>

\* The destructor disconnects what is still connected and frees the session.
\* main then reads the local file if all went well for all it knows.
Destroy ==
  /\ pc = "destroy"
  /\ session' = "none"
  /\ sock' = IF is_connected THEN Closing[sock] ELSE sock
  /\ is_connected' = FALSE
  /\ pc' = "done"
  /\ UNCHANGED <<sftpVars, execVars, fileVars, runs, returned, link, flawless>>

-----------------------------------------------------------------------------
LoseLink ==
  /\ link = "up"
  /\ pc # "done"
  /\ link' = "lost"
  /\ UNCHANGED <<pc, sshVars, sftpVars, execVars, fileVars, runs, returned, flawless>>

\* The program is killed; the system closes what it had open.
Kill ==
  /\ pc # "done"
  /\ pc' = "done"
  /\ flawless' = FALSE
  /\ UNCHANGED <<sshVars, sftpVars, execVars, fileVars, runs, returned, link>>

Program ==
  \/ Connect
  \/ OpenChannel \/ ExecCommand \/ ReadReply \/ EndCommand
  \/ Check \/ InitializeSFTP \/ OpenFiles \/ ReadBlock \/ DivideByZero \/ EndDownload
  \/ DisconnectSFTP \/ Disconnect \/ Destroy

Next == Construct \/ Program \/ LoseLink \/ Kill

\* A call of libssh2 returns: the device answers or the connection breaks.
Spec == Init /\ [][Next]_vars /\ WF_vars(Program)
-----------------------------------------------------------------------------
Files == [there : BOOLEAN, blocks : Seq((1..MaxRuns) \X (1..MaxBlocks))]

\* The types of the variables; no socket is closed twice.
TypeOK ==
  /\ pc \in {"connect", "check", "sftp", "open", "read", "close", "disconnect", "destroy", "done"}
           \cup Commands
  /\ is_connected \in BOOLEAN
  /\ session \in {"none", "made", "up", "down"}
  /\ sock \in {"none", "open", "closed"}
  /\ channel \in {"none", "open", "running"}
  /\ sftp_session \in {"none", "open", "closed"}
  /\ sftp_handle \in {"none", "open", "closed"}
  /\ output \in Seq({"0", "1", "\r", "\n"})
  /\ reply \in Seq({"0", "1", "\r", "\n"})
  /\ filesize \in 0..(MaxBlocks + 1)
  /\ reads \in 0..MaxBlocks
  /\ stream \in {"closed", "good", "bad"}
  /\ returned \in {"none", "true", "false"}
  /\ link \in {"up", "lost"}
  /\ remote \in Files /\ local \in Files
  /\ runs \in 0..MaxRuns
  /\ flawless \in BOOLEAN /\ confirmed \in BOOLEAN
  /\ leaked \in 0..3

\* What hangs on the connection is open only while the connection is, a handle
\* only while its SFTP session is, and a program that comes to its end without
\* being cut off has left nothing open, whatever failed on the way.
ReleasedInOrder ==
  /\ channel # "none" \/ sftp_session = "open" =>
       is_connected /\ session = "up" /\ sock = "open"
  /\ sftp_handle = "open" => sftp_session = "open"
  /\ session = "none" =>
       sock # "open" /\ channel = "none" /\ sftp_session # "open" /\ sftp_handle # "open"

\* The program comes to its end without an exception unless a call has failed:
\* the division by the size is safe when the size was had.
FlawlessRunsEndWell ==
  (pc = "done" /\ runs > 0 /\ flawless) => session = "none"

Removed == remote.there /\ ~remote'.there

\* The file is removed only after the device has said that it is there.
RemovedOnlyIfConfirmed == [][Removed => confirmed]_vars

\* DownloadDatabase is what the rest of the program takes it for: the file is
\* made, copied and removed in this order, with whatever failures; the local
\* file is never parts of two exports, a file is removed in a run in which
\* nothing fails only when the local file is a copy of it, and such a run that
\* answers true has left a whole copy of its own export behind.
Phase == [done |-> "idle",
          connect |-> "making", export |-> "making", count |-> "making", check |-> "making",
          sftp |-> "copying", open |-> "copying", read |-> "copying", close |-> "copying",
          remove |-> "removing", disconnect |-> "answering", destroy |-> "ending"]

Promise == INSTANCE DownloadSpec WITH phase <- Phase[pc]

KeepsItsPromise == Promise!Spec

\* Every run comes to its end: no loop over what a call of libssh2 returns
\* goes on for ever.
Terminates == pc # "done" ~> pc = "done"

\* "Download complete!" (mikrotik_device.cpp:329): the local file is the one on
\* the device.  It is printed as well after a read or a write that failed.
DownloadComplete == [][(pc = "read" /\ pc' = "close") => local = remote]_vars
=============================================================================
