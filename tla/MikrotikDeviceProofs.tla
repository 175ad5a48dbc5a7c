------------------------ MODULE MikrotikDeviceProofs -------------------------
(***************************************************************************)
(* Proofs about MikrotikDevice, for any number of runs and exports of any  *)
(* size: what it leaves behind, what it removes, and that it implements    *)
(* DownloadSpec, whatever fails and wherever it is cut off.                *)
(***************************************************************************)
EXTENDS MikrotikDevice, SequenceTheorems, TLAPS

Chars  == {"0", "1", "\r", "\n"}
Blocks == (1..MaxRuns) \X (1..MaxBlocks)

PcOK ==
  pc \in {"connect", "check", "sftp", "open", "read", "close", "disconnect", "destroy", "done"}
         \cup Commands

BooleansOK == is_connected \in BOOLEAN /\ flawless \in BOOLEAN /\ confirmed \in BOOLEAN

HandlesOK ==
  /\ session \in {"none", "made", "up", "down"}
  /\ sock \in {"none", "open", "closed"}
  /\ channel \in {"none", "open", "running"}
  /\ sftp_session \in {"none", "open", "closed"}
  /\ sftp_handle \in {"none", "open", "closed"}
  /\ stream \in {"closed", "good", "bad"}
  /\ returned \in {"none", "true", "false"}
  /\ link \in {"up", "lost"}

\* Between Connect and Disconnect there is a connection; the destructor finds
\* it up and open, or taken down already.
ConnectionOK ==
  /\ pc = "connect" => session = "made" /\ sock = "none" /\ returned = "none"
  /\ pc \notin {"connect", "destroy", "done"} => is_connected
  /\ is_connected <=> sock = "open"
  /\ is_connected => session = "up"
  /\ session = "none" => pc = "done"
  /\ pc = "done" /\ runs > 0 /\ flawless => session = "none"

\* A channel is alive only within Execute, an SFTP session only within
\* DownloadFile, unless the program was cut off there.
ReleaseOK ==
  /\ channel # "none" => is_connected /\ pc \in Commands \cup {"done"}
  /\ sftp_session = "open" => is_connected /\ pc \in {"open", "read", "close", "done"}
  /\ sftp_handle = "open" => sftp_session = "open"
  /\ pc = "sftp" => sftp_handle # "open"
  /\ leaked \in 0..3
  /\ pc \in {"connect", "export"} => leaked = 0
  /\ pc = "count" => leaked <= 1
  /\ pc \in {"check", "sftp", "open", "read", "close", "remove"} => leaked <= 2

FilesOK ==
  /\ runs \in 0..MaxRuns
  /\ pc # "done" => runs >= 1
  /\ remote \in Files /\ local \in Files
  /\ Len(remote.blocks) <= MaxBlocks
  /\ filesize \in 0..(MaxBlocks + 1)
  /\ reads \in 0..MaxBlocks

\* An answer that begins with a one has been read in this run, and while the
\* count is taken it stands for a file that is there.
OutputOK ==
  /\ output \in Seq(Chars) /\ reply \in Seq(Chars)
  /\ output # <<>> /\ output[1] = "1" => confirmed
  /\ pc \in {"sftp", "open", "read", "close", "remove"} => confirmed
  /\ reply # <<>> => channel = "running"
  /\ pc \in {"connect", "export"} => output = <<>> /\ reply = <<>>
  /\ pc = "count" => \A i \in 1..Len(reply) : reply[i] = "1" => remote.there
  /\ pc \in {"count", "check"} /\ output # <<>> /\ output[1] = "1" => remote.there

OfThisRun(file) == \A i \in DOMAIN file.blocks : file.blocks[i][1] = runs

\* What is known of the two files at each point of DownloadDatabase.
CopyOK ==
  /\ pc \in {"sftp", "open", "read", "close"} => remote.there
  /\ flawless /\ ((pc = "export" /\ channel = "running")
                   \/ pc \in {"count", "check", "sftp", "open", "read", "close"}) =>
       OfThisRun(remote)
  /\ pc = "read" => reads <= Len(remote.blocks)
  /\ pc = "read" /\ stream = "good" => local = File(SubSeq(remote.blocks, 1, reads))
  /\ pc = "read" /\ flawless => stream = "good" /\ filesize = Len(remote.blocks)
  /\ pc = "close" /\ flawless => local = remote
  /\ pc = "remove" /\ channel = "running" => ~remote.there

\* The inductive invariant.
IInv == PcOK /\ BooleansOK /\ HandlesOK /\ ConnectionOK /\ ReleaseOK /\ FilesOK /\ OutputOK /\ CopyOK

-----------------------------------------------------------------------------
(* The types.                                                              *)

LEMMA InitIInv == Init => IInv
<1> SUFFICES ASSUME Init PROVE IInv
  OBVIOUS
<1>1. PcOK
  BY DEF Init, PcOK
<1>2. BooleansOK
  BY DEF Init, BooleansOK
<1>3. HandlesOK
  BY DEF Init, HandlesOK
<1>4. ConnectionOK
  BY DEF Init, ConnectionOK
<1>5. ReleaseOK
  BY DEF Init, ReleaseOK
<1>6. FilesOK
  <2>1. <<>> \in Seq(Blocks) /\ Len(<<>>) = 0
    OBVIOUS
  <2>2. NoFile \in Files
    BY <2>1 DEF NoFile, Files, Blocks
  <2> QED
    BY <2>1, <2>2, BoundsAssumption DEF Init, FilesOK, NoFile
<1>7. OutputOK
  BY DEF Init, OutputOK
<1>8. CopyOK
  BY DEF Init, CopyOK
<1> QED
  BY <1>1, <1>2, <1>3, <1>4, <1>5, <1>6, <1>7, <1>8 DEF IInv

\* The only socket that is closed is an open one.
LEMMA Closes == Closing["open"] = "closed"
BY DEF Closing

\* The division by zero follows a failure: that of asking for the size.
LEMMA DivisionNeedsAFailure ==
  ASSUME IInv, DivideByZero
  PROVE  ~flawless
<1>1. Len(remote.blocks) # 0
  BY DEF IInv, FilesOK, DivideByZero
<1>2. pc = "read" /\ filesize = 0
  BY DEF DivideByZero
<1> QED
  BY <1>1, <1>2 DEF IInv, CopyOK

LEMMA PcKept ==
  ASSUME IInv, [Next]_vars
  PROVE  PcOK'
<1> USE DEF PcOK, Commands, GoOn, AfterCommand
<1>0. PcOK
  BY DEF IInv
<1>1. CASE Construct
  BY <1>0, <1>1 DEF Construct
<1>2. CASE Connect
  BY <1>0, <1>2 DEF Connect, Succeeds, Fails
<1>3. CASE OpenChannel
  BY <1>0, <1>3 DEF OpenChannel, Succeeds, Fails
<1>4. CASE ExecCommand
  BY <1>0, <1>4 DEF ExecCommand, Fails
<1>5. CASE ReadReply
  BY <1>0, <1>5 DEF ReadReply, Succeeds
<1>6. CASE EndCommand
  BY <1>0, <1>6 DEF EndCommand, Fails
<1>7. CASE Check
  BY <1>0, <1>7 DEF Check
<1>8. CASE InitializeSFTP
  BY <1>0, <1>8 DEF InitializeSFTP, Succeeds, Fails
<1>9. CASE OpenFiles
  BY <1>0, <1>9 DEF OpenFiles, Succeeds, Fails
<1>10. CASE ReadBlock
  BY <1>0, <1>10 DEF ReadBlock, Succeeds, Fails
<1>11. CASE DivideByZero
  BY <1>0, <1>11 DEF DivideByZero
<1>12. CASE EndDownload
  BY <1>0, <1>12 DEF EndDownload, Fails
<1>13. CASE DisconnectSFTP
  BY <1>0, <1>13 DEF DisconnectSFTP
<1>14. CASE Disconnect
  BY <1>0, <1>14 DEF Disconnect, DisconnectSSH, Closing
<1>15. CASE Destroy
  BY <1>0, <1>15 DEF Destroy, Closing
<1>16. CASE LoseLink
  BY <1>0, <1>16 DEF LoseLink
<1>17. CASE Kill
  BY <1>0, <1>17 DEF Kill
<1>18. CASE UNCHANGED vars
  BY <1>0, <1>18 DEF vars
<1> QED
  BY <1>1, <1>2, <1>3, <1>4, <1>5, <1>6, <1>7, <1>8, <1>9, <1>10, <1>11, <1>12, <1>13, <1>14,
     <1>15, <1>16, <1>17, <1>18
  DEF Next, Program

LEMMA BooleansKept ==
  ASSUME IInv, [Next]_vars
  PROVE  BooleansOK'
<1> USE DEF BooleansOK, sshVars, sftpVars, execVars, fileVars
<1>0. BooleansOK
  BY DEF IInv
<1>1. CASE Construct
  BY <1>0, <1>1 DEF Construct
<1>2. CASE Connect
  BY <1>0, <1>2 DEF Connect, Succeeds, Fails
<1>3. CASE OpenChannel
  BY <1>0, <1>3 DEF OpenChannel, Succeeds, Fails
<1>4. CASE ExecCommand
  BY <1>0, <1>4 DEF ExecCommand, Fails
<1>5. CASE ReadReply
  BY <1>0, <1>5 DEF ReadReply, Succeeds
<1>6. CASE EndCommand
  BY <1>0, <1>6 DEF EndCommand, Fails
<1>7. CASE Check
  BY <1>0, <1>7 DEF Check
<1>8. CASE InitializeSFTP
  BY <1>0, <1>8 DEF InitializeSFTP, Succeeds, Fails
<1>9. CASE OpenFiles
  BY <1>0, <1>9 DEF OpenFiles, Succeeds, Fails
<1>10. CASE ReadBlock
  BY <1>0, <1>10 DEF ReadBlock, Succeeds, Fails
<1>11. CASE DivideByZero
  BY <1>0, <1>11 DEF DivideByZero
<1>12. CASE EndDownload
  BY <1>0, <1>12 DEF EndDownload, Fails
<1>13. CASE DisconnectSFTP
  BY <1>0, <1>13 DEF DisconnectSFTP
<1>14. CASE Disconnect
  BY <1>0, <1>14 DEF Disconnect, DisconnectSSH, Closing
<1>15. CASE Destroy
  BY <1>0, <1>15 DEF Destroy, Closing
<1>16. CASE LoseLink
  BY <1>0, <1>16 DEF LoseLink
<1>17. CASE Kill
  BY <1>0, <1>17 DEF Kill
<1>18. CASE UNCHANGED vars
  BY <1>0, <1>18 DEF vars
<1> QED
  BY <1>1, <1>2, <1>3, <1>4, <1>5, <1>6, <1>7, <1>8, <1>9, <1>10, <1>11, <1>12, <1>13, <1>14,
     <1>15, <1>16, <1>17, <1>18
  DEF Next, Program

LEMMA HandlesKept ==
  ASSUME IInv, [Next]_vars
  PROVE  HandlesOK'
<1> USE DEF HandlesOK, sshVars, sftpVars, execVars, fileVars
<1>0. HandlesOK /\ ConnectionOK
  BY DEF IInv
<1>1. CASE Construct
  BY <1>0, <1>1 DEF Construct
<1>2. CASE Connect
  BY <1>0, <1>2 DEF Connect, Succeeds, Fails
<1>3. CASE OpenChannel
  BY <1>0, <1>3 DEF OpenChannel, Succeeds, Fails
<1>4. CASE ExecCommand
  BY <1>0, <1>4 DEF ExecCommand, Fails
<1>5. CASE ReadReply
  BY <1>0, <1>5 DEF ReadReply, Succeeds
<1>6. CASE EndCommand
  BY <1>0, <1>6 DEF EndCommand, Fails
<1>7. CASE Check
  BY <1>0, <1>7 DEF Check
<1>8. CASE InitializeSFTP
  BY <1>0, <1>8 DEF InitializeSFTP, Succeeds, Fails
<1>9. CASE OpenFiles
  BY <1>0, <1>9 DEF OpenFiles, Succeeds, Fails
<1>10. CASE ReadBlock
  BY <1>0, <1>10 DEF ReadBlock, Succeeds, Fails
<1>11. CASE DivideByZero
  BY <1>0, <1>11, DivisionNeedsAFailure DEF DivideByZero
<1>12. CASE EndDownload
  BY <1>0, <1>12 DEF EndDownload, Fails
<1>13. CASE DisconnectSFTP
  BY <1>0, <1>13 DEF DisconnectSFTP
<1>14. CASE Disconnect
  BY <1>0, <1>14, Closes DEF Disconnect, DisconnectSSH, ConnectionOK
<1>15. CASE Destroy
  BY <1>0, <1>15, Closes DEF Destroy, ConnectionOK
<1>16. CASE LoseLink
  BY <1>0, <1>16 DEF LoseLink
<1>17. CASE Kill
  BY <1>0, <1>17 DEF Kill
<1>18. CASE UNCHANGED vars
  BY <1>0, <1>18 DEF vars
<1> QED
  BY <1>1, <1>2, <1>3, <1>4, <1>5, <1>6, <1>7, <1>8, <1>9, <1>10, <1>11, <1>12, <1>13, <1>14,
     <1>15, <1>16, <1>17, <1>18
  DEF Next, Program

LEMMA ConnectionKept ==
  ASSUME IInv, [Next]_vars
  PROVE  ConnectionOK'
<1> USE DEF ConnectionOK, PcOK, BooleansOK, HandlesOK, Commands, GoOn, AfterCommand, sshVars, sftpVars, execVars, fileVars
<1>0. PcOK /\ BooleansOK /\ HandlesOK /\ ConnectionOK
  BY DEF IInv
<1>1. CASE Construct
  BY <1>0, <1>1 DEF Construct
<1>2. CASE Connect
  BY <1>0, <1>2 DEF Connect, Succeeds, Fails
<1>3. CASE OpenChannel
  BY <1>0, <1>3 DEF OpenChannel, Succeeds, Fails
<1>4. CASE ExecCommand
  BY <1>0, <1>4 DEF ExecCommand, Fails
<1>5. CASE ReadReply
  BY <1>0, <1>5 DEF ReadReply, Succeeds
<1>6. CASE EndCommand
  BY <1>0, <1>6 DEF EndCommand, Fails
<1>7. CASE Check
  BY <1>0, <1>7 DEF Check
<1>8. CASE InitializeSFTP
  BY <1>0, <1>8 DEF InitializeSFTP, Succeeds, Fails
<1>9. CASE OpenFiles
  BY <1>0, <1>9 DEF OpenFiles, Succeeds, Fails
<1>10. CASE ReadBlock
  BY <1>0, <1>10 DEF ReadBlock, Succeeds, Fails
<1>11. CASE DivideByZero
  BY <1>0, <1>11, DivisionNeedsAFailure DEF DivideByZero
<1>12. CASE EndDownload
  BY <1>0, <1>12 DEF EndDownload, Fails
<1>13. CASE DisconnectSFTP
  BY <1>0, <1>13 DEF DisconnectSFTP
<1>14. CASE Disconnect
  BY <1>0, <1>14, Closes DEF Disconnect, DisconnectSSH
<1>15. CASE Destroy
  BY <1>0, <1>15, Closes DEF Destroy
<1>16. CASE LoseLink
  BY <1>0, <1>16 DEF LoseLink
<1>17. CASE Kill
  BY <1>0, <1>17 DEF Kill
<1>18. CASE UNCHANGED vars
  BY <1>0, <1>18 DEF vars
<1> QED
  BY <1>1, <1>2, <1>3, <1>4, <1>5, <1>6, <1>7, <1>8, <1>9, <1>10, <1>11, <1>12, <1>13, <1>14,
     <1>15, <1>16, <1>17, <1>18
  DEF Next, Program

LEMMA ReleaseKept ==
  ASSUME IInv, [Next]_vars
  PROVE  ReleaseOK'
<1> USE DEF ReleaseOK, PcOK, Commands, GoOn, AfterCommand, sshVars, sftpVars, execVars, fileVars
<1>0. PcOK /\ BooleansOK /\ HandlesOK /\ ConnectionOK /\ ReleaseOK
  BY DEF IInv
<1>1. CASE Construct
  BY <1>0, <1>1 DEF Construct
<1>2. CASE Connect
  BY <1>0, <1>2 DEF Connect, Succeeds, Fails
<1>3. CASE OpenChannel
  BY <1>0, <1>3 DEF OpenChannel, Succeeds, Fails, ConnectionOK
<1>4. CASE ExecCommand
  BY <1>0, <1>4 DEF ExecCommand, Fails
<1>5. CASE ReadReply
  BY <1>0, <1>5 DEF ReadReply, Succeeds
<1>6. CASE EndCommand
  BY <1>0, <1>6 DEF EndCommand, Fails
<1>7. CASE Check
  BY <1>0, <1>7 DEF Check
<1>8. CASE InitializeSFTP
  BY <1>0, <1>8 DEF InitializeSFTP, Succeeds, Fails, ConnectionOK
<1>9. CASE OpenFiles
  BY <1>0, <1>9 DEF OpenFiles, Succeeds, Fails
<1>10. CASE ReadBlock
  BY <1>0, <1>10 DEF ReadBlock, Succeeds, Fails
<1>11. CASE DivideByZero
  BY <1>0, <1>11 DEF DivideByZero
<1>12. CASE EndDownload
  BY <1>0, <1>12 DEF EndDownload, Fails
<1>13. CASE DisconnectSFTP
  BY <1>0, <1>13 DEF DisconnectSFTP
<1>14. CASE Disconnect
  BY <1>0, <1>14 DEF Disconnect, DisconnectSSH, Closing
<1>15. CASE Destroy
  BY <1>0, <1>15 DEF Destroy, Closing
<1>16. CASE LoseLink
  BY <1>0, <1>16 DEF LoseLink
<1>17. CASE Kill
  BY <1>0, <1>17 DEF Kill
<1>18. CASE UNCHANGED vars
  BY <1>0, <1>18 DEF vars
<1> QED
  BY <1>1, <1>2, <1>3, <1>4, <1>5, <1>6, <1>7, <1>8, <1>9, <1>10, <1>11, <1>12, <1>13, <1>14,
     <1>15, <1>16, <1>17, <1>18
  DEF Next, Program

-----------------------------------------------------------------------------
(* Files.                                                                  *)

LEMMA FilesAreSets == Files = [there : BOOLEAN, blocks : Seq(Blocks)]
BY DEF Files, Blocks

LEMMA FileOfBlocks ==
  ASSUME NEW s \in Seq(Blocks)
  PROVE  File(s) \in Files /\ File(s).there /\ File(s).blocks = s
BY FilesAreSets DEF File

LEMMA NoFileProperties == NoFile \in Files /\ ~NoFile.there /\ NoFile.blocks = <<>>
<1>1. <<>> \in Seq(Blocks)
  OBVIOUS
<1> QED
  BY <1>1, FilesAreSets DEF NoFile

LEMMA FileProperties ==
  ASSUME NEW f \in Files
  PROVE  /\ f.blocks \in Seq(Blocks)
         /\ Len(f.blocks) \in Nat
         /\ \A i \in 1..Len(f.blocks) : f.blocks[i] \in Blocks
         /\ f.there => f = File(f.blocks)
<1>1. f.blocks \in Seq(Blocks) /\ f = [there |-> f.there, blocks |-> f.blocks] /\ f.there \in BOOLEAN
  BY FilesAreSets
<1>2. Len(f.blocks) \in Nat /\ \A i \in 1..Len(f.blocks) : f.blocks[i] \in Blocks
  BY <1>1, LenProperties, ElementOfSeq
<1>3. ASSUME f.there PROVE f = File(f.blocks)
  <2>1. f.there = TRUE
    BY <1>1, <1>3, Zenon
  <2> QED
    BY <1>1, <2>1, Zenon DEF File
<1> QED
  BY <1>1, <1>2, <1>3

LEMMA ExportProperties ==
  ASSUME BoundsAssumption, runs \in 1..MaxRuns, NEW n \in 0..MaxBlocks
  PROVE  /\ Export(n) \in Files
         /\ Export(n).there
         /\ Len(Export(n).blocks) = n
         /\ OfThisRun(Export(n))
<1> DEFINE s == [i \in 1..n |-> <<runs, i>>]
<1>1. n \in Nat /\ \A i \in 1..n : <<runs, i>> \in Blocks
  BY DEF BoundsAssumption, Blocks
<1>2. s \in Seq(Blocks) /\ Len(s) = n
  <2>1. s \in [1..n -> Blocks]
    BY <1>1
  <2> QED
    BY <1>1, <2>1, LenProperties
<1>3. \A i \in DOMAIN s : s[i][1] = runs
  OBVIOUS
<1>4. Export(n) = File(s)
  BY DEF Export
<1> HIDE DEF s
<1>5. Export(n) \in Files /\ Export(n).there /\ Export(n).blocks = s
  BY <1>2, <1>4, FileOfBlocks
<1> QED
  BY <1>2, <1>3, <1>5 DEF OfThisRun

\* The first blocks of a file, one by one.
LEMMA FirstBlocks ==
  ASSUME NEW f \in Files
  PROVE  /\ SubSeq(f.blocks, 1, 0) = <<>>
         /\ SubSeq(f.blocks, 1, Len(f.blocks)) = f.blocks
         /\ \A n \in 0..(Len(f.blocks) - 1) :
              Append(SubSeq(f.blocks, 1, n), f.blocks[n + 1]) = SubSeq(f.blocks, 1, n + 1)
<1> DEFINE s == f.blocks
<1>1. s \in Seq(Blocks) /\ Len(s) \in Nat /\ \A i \in 1..Len(s) : s[i] \in Blocks
  BY FileProperties
<1> HIDE DEF s
<1>2. SubSeq(s, 1, 0) = <<>>
  BY SubSeqEmpty
<1>3. SubSeq(s, 1, Len(s)) = s
  BY <1>1, SubSeqFull
<1>4. ASSUME NEW n \in 0..(Len(s) - 1)
      PROVE  Append(SubSeq(s, 1, n), s[n + 1]) = SubSeq(s, 1, n + 1)
  <2>1. n + 1 \in 1..Len(s) /\ 1 \in 1..Len(s) /\ n + 1 - 1 = n /\ n \in Int
    BY <1>1
  <2>2. SubSeq(s, 1, n + 1) = SubSeq(s, 1, n + 1 - 1) \o <<s[n + 1]>>
    BY <1>1, <2>1, SubSeqRecursiveSecond
  <2>3. SubSeq(s, 1, n) \in Seq(Blocks)
    BY <1>1, <2>1, SubSeqProperties
  <2>4. Append(SubSeq(s, 1, n), s[n + 1]) = SubSeq(s, 1, n) \o <<s[n + 1]>>
    BY <1>1, <2>1, <2>3, AppendIsConcat
  <2> QED
    BY <2>1, <2>2, <2>4
<1> QED
  BY <1>2, <1>3, <1>4 DEF s

\* What the device is left with by a command.
LEMMA EffectProperties ==
  ASSUME IInv, ExecCommand
  PROVE  /\ pc = "export" => remote' \in {remote} \cup {Export(n) : n \in 0..MaxBlocks}
         /\ pc = "count"  => remote' = remote
         /\ pc = "remove" => remote' \in {remote, NoFile}
         /\ pc \in Commands
         /\ remote' \in Files /\ Len(remote'.blocks) <= MaxBlocks
<1>0. runs \in 1..MaxRuns /\ remote \in Files /\ Len(remote.blocks) <= MaxBlocks
  <2>1. pc # "done"
    BY DEF ExecCommand, Commands
  <2> QED
    BY <2>1 DEF IInv, FilesOK
<1>1. /\ pc = "export" => remote' \in {remote} \cup {Export(n) : n \in 0..MaxBlocks}
      /\ pc = "count"  => remote' = remote
      /\ pc = "remove" => remote' \in {remote, NoFile}
      /\ pc \in Commands
  BY DEF ExecCommand, Effect
<1>2. CASE remote' = remote
  BY <1>0, <1>1, <1>2
<1>3. CASE remote' = NoFile
  <2>1. Len(NoFile.blocks) = 0 /\ 0 <= MaxBlocks
    BY NoFileProperties, BoundsAssumption
  <2> QED
    BY <1>1, <1>3, <2>1, NoFileProperties
<1>4. ASSUME NEW n \in 0..MaxBlocks, remote' = Export(n)
      PROVE  remote' \in Files /\ Len(remote'.blocks) <= MaxBlocks
  <2>1. Export(n) \in Files /\ Len(Export(n).blocks) = n
    BY <1>0, BoundsAssumption, ExportProperties
  <2> QED
    BY <1>4, <2>1, BoundsAssumption
<1>5. remote' = remote \/ remote' = NoFile \/ \E n \in 0..MaxBlocks : remote' = Export(n)
  BY <1>1 DEF Commands
<1> QED
  BY <1>1, <1>2, <1>3, <1>4, <1>5

LEMMA FilesKept ==
  ASSUME IInv, [Next]_vars
  PROVE  FilesOK'
<1> USE DEF FilesOK, PcOK, Commands, GoOn, AfterCommand, sshVars, sftpVars, execVars, fileVars
<1>0. PcOK /\ ConnectionOK /\ FilesOK
  BY DEF IInv
<1>1. CASE Construct
  BY <1>0, <1>1, BoundsAssumption DEF Construct
<1>2. CASE Connect
  BY <1>0, <1>2 DEF Connect, Succeeds, Fails
<1>3. CASE OpenChannel
  BY <1>0, <1>3 DEF OpenChannel, Succeeds, Fails
<1>4. CASE ExecCommand
  <2>1. remote' \in Files /\ Len(remote'.blocks) <= MaxBlocks
    BY <1>4, EffectProperties
  <2>2. UNCHANGED <<local, runs, filesize, reads>> /\ pc # "done"
    BY <1>4 DEF ExecCommand
  <2> QED
    BY <1>0, <2>1, <2>2
<1>5. CASE ReadReply
  BY <1>0, <1>5 DEF ReadReply, Succeeds
<1>6. CASE EndCommand
  BY <1>0, <1>6 DEF EndCommand, Fails
<1>7. CASE Check
  BY <1>0, <1>7 DEF Check
<1>8. CASE InitializeSFTP
  BY <1>0, <1>8 DEF InitializeSFTP, Succeeds, Fails
<1>9. CASE OpenFiles
  <2>1. local' \in Files
    <3>1. <<>> \in Seq(Blocks)
      OBVIOUS
    <3>2. File(<<>>) \in Files
      BY <3>1, FileOfBlocks
    <3> QED
      BY <1>0, <3>2, <1>9 DEF OpenFiles
  <2>2. filesize' \in 0..(MaxBlocks + 1)
    <3>1. Len(remote.blocks) \in 0..(MaxBlocks + 1) /\ {0, MaxBlocks + 1} \subseteq 0..(MaxBlocks + 1)
      BY <1>0, BoundsAssumption, FileProperties
    <3> QED
      BY <1>0, <3>1, <1>9 DEF OpenFiles
  <2>3. UNCHANGED <<remote, runs>> /\ reads' = 0 /\ pc # "done"
    BY <1>9 DEF OpenFiles
  <2> QED
    BY <1>0, <2>1, <2>2, <2>3, BoundsAssumption
<1>10. CASE ReadBlock
  <2>1. reads < Len(remote.blocks) /\ reads \in Nat /\ Len(remote.blocks) \in Nat
    BY <1>0, <1>10, FileProperties DEF ReadBlock
  <2>2. local' \in Files
    <3>1. remote.blocks[reads + 1] \in Blocks
      BY <1>0, <2>1, FileProperties
    <3>2. local.blocks \in Seq(Blocks)
      BY <1>0, FileProperties
    <3>3. Append(local.blocks, remote.blocks[reads + 1]) \in Seq(Blocks)
      BY <3>1, <3>2, AppendProperties
    <3>4. File(Append(local.blocks, remote.blocks[reads + 1])) \in Files
      BY <3>3, FileOfBlocks
    <3> QED
      BY <1>0, <3>4, <1>10 DEF ReadBlock
  <2>3. UNCHANGED <<remote, runs, filesize>> /\ reads' = reads + 1 /\ pc # "done"
    BY <1>10 DEF ReadBlock
  <2> QED
    BY <1>0, <2>1, <2>2, <2>3, BoundsAssumption
<1>11. CASE DivideByZero
  BY <1>0, <1>11 DEF DivideByZero
<1>12. CASE EndDownload
  BY <1>0, <1>12 DEF EndDownload, Fails
<1>13. CASE DisconnectSFTP
  BY <1>0, <1>13 DEF DisconnectSFTP
<1>14. CASE Disconnect
  BY <1>0, <1>14 DEF Disconnect, DisconnectSSH, Closing
<1>15. CASE Destroy
  BY <1>0, <1>15 DEF Destroy, Closing
<1>16. CASE LoseLink
  BY <1>0, <1>16 DEF LoseLink
<1>17. CASE Kill
  BY <1>0, <1>17 DEF Kill
<1>18. CASE UNCHANGED vars
  BY <1>0, <1>18 DEF vars
<1> QED
  BY <1>1, <1>2, <1>3, <1>4, <1>5, <1>6, <1>7, <1>8, <1>9, <1>10, <1>11, <1>12, <1>13, <1>14,
     <1>15, <1>16, <1>17, <1>18
  DEF Next, Program

-----------------------------------------------------------------------------
(* The answer to a command.                                                *)

\* Only the count is answered, and with a one only when the file is there.
LEMMA AnswerProperties ==
  /\ Answer \in Seq(Chars)
  /\ pc # "count" => Answer = <<>>
  /\ \A i \in 1..Len(Answer) : Answer[i] = "1" => remote.there
<1> DEFINE one  == <<"1", "\r", "\n">>
           zero == <<"0", "\r", "\n">>
<1>1. /\ one \in Seq(Chars) /\ zero \in Seq(Chars) /\ <<>> \in Seq(Chars)
      /\ Len(zero) = 3 /\ \A i \in 1..3 : zero[i] # "1"
      /\ Len(<<>>) = 0
  BY DEF Chars
<1>2. Answer = IF pc = "count" THEN IF remote.there THEN one ELSE zero ELSE <<>>
  BY DEF Answer
<1> HIDE DEF one, zero
<1>3. CASE pc = "count" /\ remote.there
  BY <1>1, <1>2, <1>3
<1>4. CASE pc = "count" /\ ~remote.there
  <2>1. Answer = zero
    BY <1>2, <1>4
  <2> QED
    BY <1>1, <1>4, <2>1
<1>5. CASE pc # "count"
  <2>1. Answer = <<>>
    BY <1>2, <1>5
  <2> QED
    BY <1>1, <2>1
<1> QED
  BY <1>3, <1>4, <1>5

LEMMA StartsWithOne ==
  ASSUME output \in Seq(Chars), StartsWith(output, <<"1", "\r">>)
  PROVE  output # <<>> /\ output[1] = "1"
<1> DEFINE t == <<"1", "\r">>
<1>1. Len(t) = 2 /\ t[1] = "1"
  OBVIOUS
<1>2. 2 <= Len(output) /\ SubSeq(output, 1, 2) = t
  BY <1>1 DEF StartsWith
<1>3. \A i \in 1..2 : output[i] \in Chars
  BY <1>2, ElementOfSeq
<1>4. 1 \in 1..2 /\ 1 \in Int /\ 2 \in Int /\ 1 + 1 - 1 = 1 /\ 1 \in 1..(2 - 1 + 1)
  OBVIOUS
<1>5. SubSeq(output, 1, 2)[1] = output[1 + 1 - 1]
  BY <1>3, <1>4, SubSeqProperties
<1>6. output # <<>>
  BY <1>2
<1> HIDE DEF t
<1> QED
  BY <1>1, <1>2, <1>4, <1>5, <1>6

\* What is left of a sequence when the first n elements have been taken.
LEMMA RestOfSeq ==
  ASSUME NEW S, NEW s \in Seq(S), NEW n \in 1..Len(s)
  PROVE  /\ SubSeq(s, n + 1, Len(s)) \in Seq(S)
         /\ \A i \in 1..Len(SubSeq(s, n + 1, Len(s))) :
              n + i \in 1..Len(s) /\ SubSeq(s, n + 1, Len(s))[i] = s[n + i]
<1> DEFINE t == SubSeq(s, n + 1, Len(s))
<1>1. /\ n + 1 \in Int /\ Len(s) \in Int /\ n \in Int
      /\ \A i \in (n + 1)..Len(s) : s[i] \in S
  BY ElementOfSeq, LenProperties
<1>2. /\ t \in Seq(S)
      /\ Len(t) = IF n + 1 <= Len(s) THEN Len(s) - (n + 1) + 1 ELSE 0
      /\ \A i \in 1..(Len(s) - (n + 1) + 1) : t[i] = s[n + 1 + i - 1]
  BY <1>1, SubSeqProperties
<1> HIDE DEF t
<1>3. ASSUME NEW i \in 1..Len(t) PROVE n + i \in 1..Len(s) /\ t[i] = s[n + i]
  <2>1. i \in 1..(Len(s) - (n + 1) + 1) /\ n + 1 + i - 1 = n + i
    BY <1>1, <1>2
  <2> QED
    BY <1>1, <1>2, <2>1
<1> QED
  BY <1>2, <1>3 DEF t

\* A read gives what comes next, puts it behind what was read before, and
\* notices a one at its beginning.
LEMMA ReadReplyProperties ==
  ASSUME OutputOK, BooleansOK, ReadReply
  PROVE  /\ output' \in Seq(Chars) /\ output' # <<>>
         /\ output'[1] = IF output = <<>> THEN reply[1] ELSE output[1]
         /\ reply' \in Seq(Chars)
         /\ \A i \in 1..Len(reply') : \E j \in 1..Len(reply) : reply'[i] = reply[j]
         /\ confirmed => confirmed'
         /\ reply[1] = "1" => confirmed'
<1>1. PICK n \in 1..Len(reply) :
        /\ output' = output \o SubSeq(reply, 1, n) \o <<"\n">>
        /\ reply' = SubSeq(reply, n + 1, Len(reply))
        /\ confirmed' = (confirmed \/ (n >= 1 /\ reply[1] = "1"))
  BY DEF ReadReply
<1>2. output \in Seq(Chars) /\ reply \in Seq(Chars) /\ reply # <<>>
  BY DEF OutputOK, ReadReply
<1>3. confirmed => confirmed'
  BY <1>1, Zenon
<1>4. reply[1] = "1" => confirmed'
  <2>1. n >= 1
    OBVIOUS
  <2> QED
    BY <1>1, <2>1, Zenon
<1>5. reply' \in Seq(Chars) /\ \A i \in 1..Len(reply') : \E j \in 1..Len(reply) : reply'[i] = reply[j]
  BY <1>1, <1>2, RestOfSeq
<1> DEFINE new == SubSeq(reply, 1, n)
           end == <<"\n">>
<1>6. new \in Seq(Chars) /\ Len(new) = n /\ new[1] = reply[1]
  <2>1. /\ 1 \in Int /\ n \in Int /\ n - 1 + 1 = n /\ 1 <= n /\ 1 \in 1..(n - 1 + 1)
        /\ 1 + 1 - 1 = 1
        /\ \A i \in 1..n : reply[i] \in Chars
    BY <1>2, ElementOfSeq
  <2>2. /\ new \in Seq(Chars)
        /\ Len(new) = IF 1 <= n THEN n - 1 + 1 ELSE 0
        /\ new[1] = reply[1 + 1 - 1]
    BY <2>1, SubSeqProperties
  <2> QED
    BY <2>1, <2>2
<1>7. end \in Seq(Chars) /\ Len(end) = 1
  BY DEF Chars
<1> HIDE DEF new, end
<1>8. /\ output \o new \in Seq(Chars)
      /\ Len(output \o new) = Len(output) + n
      /\ (output \o new)[1] = IF output = <<>> THEN new[1] ELSE output[1]
  <2>1. Len(output) \in Nat /\ n >= 1 /\ n \in Nat /\ (output = <<>> <=> Len(output) = 0)
    BY <1>2, EmptySeq, LenProperties
  <2>2. 1 \in 1..(Len(output) + Len(new))
    BY <1>6, <2>1
  <2>3. /\ output \o new \in Seq(Chars)
        /\ Len(output \o new) = Len(output) + Len(new)
        /\ (output \o new)[1] = IF 1 <= Len(output) THEN output[1] ELSE new[1 - Len(output)]
    BY <1>2, <1>6, <2>2, ConcatProperties
  <2>4. CASE output = <<>>
    <3>1. Len(output) = 0 /\ 1 - Len(output) = 1
      BY <2>1, <2>4
    <3> QED
      BY <1>6, <2>3, <2>4, <3>1
  <2>5. CASE output # <<>>
    BY <1>6, <2>1, <2>3, <2>5
  <2> QED
    BY <2>4, <2>5
<1> DEFINE mid == output \o new
<1>9. /\ output' \in Seq(Chars)
      /\ Len(output') = Len(output) + n + 1
      /\ output'[1] = mid[1]
  <2>1. Len(output) \in Nat /\ n >= 1 /\ n \in Nat
    BY <1>2, LenProperties
  <2>2. output' = mid \o end
    BY <1>1 DEF new, end
  <2>3. mid \in Seq(Chars) /\ Len(mid) = Len(output) + n
    BY <1>8
  <2> HIDE DEF mid
  <2>4. 1 \in 1..(Len(mid) + Len(end)) /\ 1 <= Len(mid)
    BY <1>7, <2>1, <2>3
  <2>5. /\ mid \o end \in Seq(Chars)
        /\ Len(mid \o end) = Len(mid) + Len(end)
        /\ (mid \o end)[1] = IF 1 <= Len(mid) THEN mid[1] ELSE end[1 - Len(mid)]
    BY <1>7, <2>3, <2>4, ConcatProperties
  <2> QED
    BY <1>7, <2>2, <2>3, <2>4, <2>5
<1>10. output' # <<>>
  <2>1. Len(output') # 0 /\ Len(<<>>) = 0
    BY <1>2, <1>9, LenProperties
  <2> QED
    BY <2>1, Zenon
<1> QED
  BY <1>3, <1>4, <1>5, <1>6, <1>8, <1>9, <1>10

LEMMA OutputKept ==
  ASSUME IInv, [Next]_vars
  PROVE  OutputOK'
<1> USE DEF OutputOK, PcOK, HandlesOK, Commands, GoOn, AfterCommand, sshVars, sftpVars, execVars, fileVars
<1>0. PcOK /\ BooleansOK /\ HandlesOK /\ ReleaseOK /\ OutputOK
  BY DEF IInv
<1>1. CASE Construct
  BY <1>0, <1>1 DEF Construct
<1>2. CASE Connect
  BY <1>0, <1>2 DEF Connect, Succeeds, Fails
<1>3. CASE OpenChannel
  BY <1>0, <1>3 DEF OpenChannel, Succeeds, Fails
<1>4. CASE ExecCommand
  <2>1. pc \in Commands /\ UNCHANGED <<output, confirmed>>
    BY <1>4 DEF ExecCommand
  <2>2. reply = <<>>
    BY <1>0, <1>4 DEF ExecCommand
  <2>3. pc = "count" => remote' = remote
    BY <1>4, EffectProperties
  <2>4. CASE reply' = Answer /\ pc' = pc /\ channel' = "running"
    BY <1>0, <2>1, <2>3, <2>4, AnswerProperties
  <2>5. CASE reply' = reply /\ GoOn
    BY <1>0, <2>1, <2>2, <2>3, <2>5
  <2> QED
    BY <1>4, <2>4, <2>5 DEF ExecCommand
<1>5. CASE ReadReply
  <2>1. /\ pc' = pc /\ channel' = channel /\ remote' = remote
        /\ pc \in Commands /\ channel = "running" /\ reply # <<>>
    BY <1>5 DEF ReadReply
  <2>2. 1 \in 1..Len(reply)
    BY <1>0, <2>1
  <2> QED
    BY <1>0, <1>5, <2>1, <2>2, ReadReplyProperties DEF ReleaseOK
<1>6. CASE EndCommand
  BY <1>0, <1>6 DEF EndCommand, Fails
<1>7. CASE Check
  <2>1. CASE StartsWith(output, <<"1", "\r">>)
    <3>1. output # <<>> /\ output[1] = "1"
      BY <1>0, <2>1, StartsWithOne
    <3> QED
      BY <1>0, <1>7, <2>1, <3>1 DEF Check
  <2>2. CASE ~StartsWith(output, <<"1", "\r">>)
    BY <1>0, <1>7, <2>2 DEF Check
  <2> QED
    BY <2>1, <2>2
<1>8. CASE InitializeSFTP
  BY <1>0, <1>8 DEF InitializeSFTP, Succeeds, Fails
<1>9. CASE OpenFiles
  BY <1>0, <1>9 DEF OpenFiles, Succeeds, Fails
<1>10. CASE ReadBlock
  BY <1>0, <1>10 DEF ReadBlock, Succeeds, Fails
<1>11. CASE DivideByZero
  BY <1>0, <1>11 DEF DivideByZero
<1>12. CASE EndDownload
  BY <1>0, <1>12 DEF EndDownload, Fails
<1>13. CASE DisconnectSFTP
  BY <1>0, <1>13 DEF DisconnectSFTP
<1>14. CASE Disconnect
  BY <1>0, <1>14 DEF Disconnect, DisconnectSSH, Closing
<1>15. CASE Destroy
  BY <1>0, <1>15 DEF Destroy, Closing
<1>16. CASE LoseLink
  BY <1>0, <1>16 DEF LoseLink
<1>17. CASE Kill
  BY <1>0, <1>17 DEF Kill
<1>18. CASE UNCHANGED vars
  BY <1>0, <1>18 DEF vars
<1> QED
  BY <1>1, <1>2, <1>3, <1>4, <1>5, <1>6, <1>7, <1>8, <1>9, <1>10, <1>11, <1>12, <1>13, <1>14,
     <1>15, <1>16, <1>17, <1>18
  DEF Next, Program

-----------------------------------------------------------------------------
(* The two files.                                                          *)

\* That a call has failed in a run stays remembered to its end.
LEMMA FlawlessKept ==
  ASSUME [Next]_vars, pc # "done"
  PROVE  flawless' => flawless
<1>1. CASE ExecCommand
  <2>1. CASE flawless' = (flawless /\ ~Refused)
    BY <2>1, Zenon
  <2>2. CASE Fails
    BY <2>2, Zenon DEF Fails
  <2> QED
    BY <1>1, <2>1, <2>2 DEF ExecCommand
<1>2. CASE ~ExecCommand
  <2>1. flawless' = flawless \/ flawless' = FALSE
    BY <1>2 DEF Next, Program, Construct, Connect, OpenChannel, ReadReply, EndCommand, Check,
                InitializeSFTP, OpenFiles, ReadBlock, DivideByZero, EndDownload, DisconnectSFTP,
                Disconnect, Destroy, LoseLink, Kill, Succeeds, Fails, vars
  <2> QED
    BY <2>1, Zenon
<1> QED
  BY <1>1, <1>2

\* What a command that was carried out has done to the file on the device.
LEMMA ExecProperties ==
  ASSUME IInv, ExecCommand
  PROVE  /\ UNCHANGED <<local, runs, stream, reads, filesize>>
         /\ \/ pc' = pc /\ channel' = "running"
            \/ ~flawless' /\ channel' = "none" /\ pc' = AfterCommand[pc]
         /\ pc = "export" /\ flawless' => OfThisRun(remote)'
         /\ pc = "remove" /\ channel' = "running" => ~remote'.there
<1>1. /\ UNCHANGED <<local, runs, stream, reads, filesize>>
      /\ \/ pc' = pc /\ channel' = "running"
         \/ ~flawless' /\ channel' = "none" /\ pc' = AfterCommand[pc]
  BY DEF ExecCommand, Fails, GoOn, sftpVars
<1>2. ASSUME pc = "export", flawless' PROVE OfThisRun(remote)'
  <2>1. flawless' = (flawless /\ ~Refused)
    BY <1>2, Zenon DEF ExecCommand, Fails
  <2>2. ~Refused
    BY <1>2, <2>1, Zenon
  <2>3. remote' # remote
    BY <1>2, <2>2 DEF Refused
  <2>4. PICK n \in 0..MaxBlocks : remote' = Export(n)
    BY <1>2, <2>3, EffectProperties
  <2>5. runs \in 1..MaxRuns
    BY <1>2 DEF IInv, FilesOK
  <2>6. OfThisRun(Export(n))
    BY <2>5, BoundsAssumption, ExportProperties
  <2>7. \A i \in DOMAIN remote'.blocks : remote'.blocks[i][1] = runs'
    BY <1>1, <2>4, <2>6 DEF OfThisRun
  <2> QED
    BY <2>7 DEF OfThisRun
<1>3. ASSUME pc = "remove", channel' = "running" PROVE ~remote'.there
  <2>1. Effect
    BY <1>3 DEF ExecCommand
  <2>2. remote' = NoFile
    BY <1>3, <2>1 DEF Effect
  <2> QED
    BY <2>2, NoFileProperties
<1> QED
  BY <1>1, <1>2, <1>3

LEMMA CopyKept ==
  ASSUME IInv, [Next]_vars
  PROVE  CopyOK'
<1> USE DEF CopyOK, PcOK, Commands, GoOn, AfterCommand, sshVars, sftpVars, execVars, fileVars
<1>0. PcOK /\ BooleansOK /\ HandlesOK /\ ReleaseOK /\ FilesOK /\ OutputOK /\ CopyOK
  BY DEF IInv
<1>a. runs' = runs /\ remote' = remote => (OfThisRun(remote)' <=> OfThisRun(remote))
  BY DEF OfThisRun
<1>b. pc # "done" => (flawless' => flawless)
  BY FlawlessKept
<1>1. CASE Construct
  BY <1>0, <1>a, <1>b, <1>1 DEF Construct
<1>2. CASE Connect
  BY <1>0, <1>a, <1>b, <1>2 DEF ReleaseOK, Connect, Succeeds, Fails
<1>3. CASE OpenChannel
  BY <1>0, <1>a, <1>b, <1>3 DEF OpenChannel, Succeeds, Fails
<1>4. CASE ExecCommand
  <2>1. /\ UNCHANGED <<local, runs, stream, reads, filesize>>
        /\ pc \in Commands /\ (pc = "count" => remote' = remote)
        /\ \/ pc' = pc /\ channel' = "running"
           \/ ~flawless' /\ channel' = "none" /\ pc' = AfterCommand[pc]
    BY <1>4, ExecProperties, EffectProperties
  <2>2. CASE pc = "export"
    BY <1>4, <2>1, <2>2, ExecProperties
  <2>3. CASE pc = "count"
    BY <1>0, <1>a, <1>b, <2>1, <2>3
  <2>4. CASE pc = "remove"
    BY <1>4, <2>1, <2>4, ExecProperties
  <2> QED
    BY <2>1, <2>2, <2>3, <2>4
<1>5. CASE ReadReply
  BY <1>0, <1>a, <1>b, <1>5 DEF ReadReply
<1>6. CASE EndCommand
  BY <1>0, <1>a, <1>b, <1>6 DEF EndCommand, Fails
<1>7. CASE Check
  <2>1. CASE StartsWith(output, <<"1", "\r">>)
    <3>1. output # <<>> /\ output[1] = "1"
      BY <1>0, <2>1, StartsWithOne DEF OutputOK
    <3> QED
      BY <1>0, <1>a, <1>b, <1>7, <2>1, <3>1 DEF Check, OutputOK
  <2>2. CASE ~StartsWith(output, <<"1", "\r">>)
    BY <1>0, <1>7, <2>2 DEF Check
  <2> QED
    BY <2>1, <2>2
<1>8. CASE InitializeSFTP
  BY <1>0, <1>a, <1>b, <1>8 DEF InitializeSFTP, Succeeds, Fails
<1>9. CASE OpenFiles
  <2>1. /\ pc = "open" /\ UNCHANGED <<remote, runs, channel>> /\ reads' = 0
        /\ \/ pc' = "close" /\ ~flawless'
           \/ /\ pc' = "read" /\ local' = File(<<>>) /\ stream' = "good"
              /\ filesize' = Len(remote.blocks) \/ ~flawless'
    BY <1>9 DEF OpenFiles, Succeeds, Fails
  <2>2. 0 <= Len(remote.blocks) /\ SubSeq(remote.blocks, 1, 0) = <<>>
    BY <1>0, FileProperties, FirstBlocks DEF FilesOK
  <2> QED
    BY <1>0, <1>a, <1>b, <2>1, <2>2
<1>10. CASE ReadBlock
  <2>1. /\ pc = "read" /\ pc' = "read" /\ UNCHANGED <<remote, runs, channel, filesize>>
        /\ reads < Len(remote.blocks) /\ reads' = reads + 1
        /\ \/ /\ stream = "good" /\ stream' = "good"
              /\ local' = File(Append(local.blocks, remote.blocks[reads + 1]))
           \/ stream' = "bad" /\ ~flawless'
    BY <1>10 DEF ReadBlock, Succeeds, Fails
  <2>2. reads \in 0..(Len(remote.blocks) - 1) /\ reads + 1 <= Len(remote.blocks)
    BY <1>0, <2>1, FileProperties, BoundsAssumption DEF FilesOK
  <2>3. ASSUME stream = "good"
        PROVE  File(Append(local.blocks, remote.blocks[reads + 1])) =
                 File(SubSeq(remote.blocks, 1, reads + 1))
    <3>1. local.blocks = SubSeq(remote.blocks, 1, reads)
      BY <1>0, <2>1, <2>3 DEF File
    <3> QED
      BY <1>0, <2>2, <3>1, FirstBlocks DEF FilesOK
  <2> QED
    BY <1>0, <1>a, <1>b, <2>1, <2>2, <2>3
<1>11. CASE DivideByZero
  BY <1>0, <1>a, <1>b, <1>11 DEF DivideByZero
<1>12. CASE EndDownload
  <2>1. /\ pc = "read" /\ pc' = "close" /\ UNCHANGED <<remote, local, runs, channel>>
        /\ reads = Len(remote.blocks) \/ ~flawless'
    BY <1>12 DEF EndDownload, Fails
  <2>2. ASSUME flawless' PROVE local = remote
    <3>1. local = File(SubSeq(remote.blocks, 1, Len(remote.blocks)))
      BY <1>0, <1>b, <2>1, <2>2
    <3>2. remote = File(remote.blocks)
      BY <1>0, <2>1, FileProperties DEF FilesOK
    <3> QED
      BY <1>0, <3>1, <3>2, FirstBlocks DEF FilesOK
  <2> QED
    BY <1>0, <1>a, <1>b, <2>1, <2>2
<1>13. CASE DisconnectSFTP
  BY <1>0, <1>a, <1>b, <1>13 DEF ReleaseOK, DisconnectSFTP
<1>14. CASE Disconnect
  BY <1>0, <1>a, <1>b, <1>14 DEF Disconnect, DisconnectSSH, Closing
<1>15. CASE Destroy
  BY <1>0, <1>a, <1>b, <1>15 DEF Destroy, Closing
<1>16. CASE LoseLink
  BY <1>0, <1>a, <1>b, <1>16 DEF LoseLink
<1>17. CASE Kill
  BY <1>0, <1>a, <1>b, <1>17 DEF Kill
<1>18. CASE UNCHANGED vars
  BY <1>0, <1>a, <1>b, <1>18 DEF vars
<1> QED
  BY <1>1, <1>2, <1>3, <1>4, <1>5, <1>6, <1>7, <1>8, <1>9, <1>10, <1>11, <1>12, <1>13, <1>14,
     <1>15, <1>16, <1>17, <1>18
  DEF Next, Program

LEMMA StepIInv == IInv /\ [Next]_vars => IInv'
BY PcKept, BooleansKept, HandlesKept, ConnectionKept, ReleaseKept, FilesKept, OutputKept, CopyKept
DEF IInv

\* The invariant holds of every behaviour.
THEOREM Inductive == Spec => []IInv
BY InitIInv, StepIInv, PTL DEF Spec

-----------------------------------------------------------------------------
(* What the runs check.                                                    *)

\* The variables keep their types; no socket is closed twice.
THEOREM TypeCorrect == Spec => []TypeOK
<1>1. IInv => TypeOK
  BY DEF IInv, PcOK, BooleansOK, HandlesOK, ReleaseOK, FilesOK, OutputOK, Chars, TypeOK
<1> QED
  BY <1>1, Inductive, PTL

\* Whatever fails, nothing outlives what it hangs on, and a program that ends
\* has nothing left open.
THEOREM NothingLeftOpen == Spec => []ReleasedInOrder
<1>1. IInv => ReleasedInOrder
  <2> SUFFICES ASSUME IInv PROVE ReleasedInOrder
    OBVIOUS
  <2>1. channel # "none" \/ sftp_session = "open" => is_connected /\ session = "up" /\ sock = "open"
    BY DEF IInv, ReleaseOK, ConnectionOK
  <2>2. sftp_handle = "open" => sftp_session = "open"
    BY DEF IInv, ReleaseOK
  <2>3. session = "none" => sock # "open"
    BY DEF IInv, ConnectionOK
  <2> QED
    BY <2>1, <2>2, <2>3 DEF ReleasedInOrder
<1> QED
  BY <1>1, Inductive, PTL

\* A run in which no call has failed ends by itself, and not in a division by
\* zero.
THEOREM NoDivisionWithoutFailure == Spec => []FlawlessRunsEndWell
<1>1. IInv => FlawlessRunsEndWell
  BY DEF IInv, ConnectionOK, FlawlessRunsEndWell
<1> QED
  BY <1>1, Inductive, PTL

\* The program removes from the device only a file whose being there the
\* device has confirmed.
THEOREM ConfirmedBeforeRemoval == Spec => RemovedOnlyIfConfirmed
<1>1. IInv /\ [Next]_vars => [Removed => confirmed]_vars
  <2> SUFFICES ASSUME IInv, [Next]_vars, remote.there, ~remote'.there
               PROVE  confirmed
    BY DEF Removed
  <2>1. remote' # remote
    OBVIOUS
  <2>2. ExecCommand
    BY <2>1 DEF Next, Program, Construct, Connect, OpenChannel, ReadReply, EndCommand, Check,
                InitializeSFTP, OpenFiles, ReadBlock, DivideByZero, EndDownload, DisconnectSFTP,
                Disconnect, Destroy, LoseLink, Kill, fileVars, vars
  <2>3. pc = "remove"
    <3>1. ASSUME pc = "export" PROVE FALSE
      <4>1. PICK n \in 0..MaxBlocks : remote' = Export(n)
        BY <2>1, <2>2, <3>1, EffectProperties
      <4> QED
        BY <4>1 DEF Export, File
    <3> QED
      BY <2>1, <2>2, <3>1, EffectProperties DEF Commands
  <2> QED
    BY <2>3 DEF IInv, OutputOK
<1> QED
  BY <1>1, Inductive, PTL DEF Spec, RemovedOnlyIfConfirmed

-----------------------------------------------------------------------------
(* The device implements the download.                                     *)

LEMMA Phases ==
  /\ Phase["done"] = "idle"
  /\ Phase["connect"] = "making" /\ Phase["export"] = "making"
  /\ Phase["count"] = "making" /\ Phase["check"] = "making"
  /\ Phase["sftp"] = "copying" /\ Phase["open"] = "copying"
  /\ Phase["read"] = "copying" /\ Phase["close"] = "copying"
  /\ Phase["remove"] = "removing" /\ Phase["disconnect"] = "answering"
  /\ Phase["destroy"] = "ending"
BY DEF Phase

\* A step within a run: it may fail, and goes from a phase to a phase.
LEMMA StepIsStep ==
  ASSUME IInv, [Next]_vars, pc # "done", runs' = runs
  PROVE  Promise!Step(Phase[pc], Phase[pc'])
<1>1. flawless' \in {flawless, FALSE}
  <2>1. flawless' => flawless
    BY FlawlessKept
  <2>2. flawless \in BOOLEAN /\ flawless' \in BOOLEAN
    BY BooleansKept DEF IInv, BooleansOK
  <2> QED
    BY <2>1, <2>2, Zenon
<1> QED
  BY <1>1 DEF Promise!Step

\* A step that changes no file and stays in its phase at most fails.
LEMMA FailOrNothing ==
  ASSUME IInv, [Next]_vars, pc # "done", Phase[pc'] = Phase[pc],
         UNCHANGED <<remote, local, runs, returned>>
  PROVE  Promise!Next
<1>1. Promise!Step(Phase[pc], Phase[pc])
  BY StepIsStep
<1>2. Phase[pc] # "idle"
  BY Phases DEF IInv, PcOK, Commands
<1> QED
  BY <1>1, <1>2 DEF Promise!Fail, Promise!Work, Promise!Next

\* The last command may take the file away, and ends without a failure only
\* when it has.
LEMMA RemoveIsRemove ==
  ASSUME IInv, [Next]_vars, pc = "remove", pc' \in {"remove", "disconnect"},
         remote' \in {remote, NoFile}, UNCHANGED <<local, runs, returned>>,
         pc' = "disconnect" /\ flawless' => ~remote'.there
  PROVE  Promise!Next
<1>1. Promise!Step("removing", "removing") \/ Promise!Step("removing", "answering")
  BY StepIsStep, Phases
<1>2. Phase[pc'] = "answering" /\ flawless' => ~remote'.there
  BY Phases
<1>3. remote' \in {remote, Promise!NoFile}
  BY DEF NoFile, Promise!NoFile
<1> QED
  BY <1>1, <1>2, <1>3 DEF Promise!Remove, Promise!Work, Promise!Next

LEMMA InitIsInit == Init => Promise!Init
BY Phases DEF Init, NoFile, Promise!Init, Promise!NoFile

\* A step that copies leaves the first blocks of the file on the device.
LEMMA CopyIsCopy ==
  ASSUME IInv, [Next]_vars, pc \in {"open", "read"}, pc' = "read",
         UNCHANGED <<remote, runs, returned>>,
         NEW n \in 0..Len(remote.blocks), local' = File(SubSeq(remote.blocks, 1, n))
  PROVE  Promise!Next
<1>1. Promise!Step("copying", "copying")
  BY StepIsStep, Phases
<1>2. remote.there
  BY DEF IInv, CopyOK
<1>3. local' = Promise!File(SubSeq(remote.blocks, 1, n))
  BY DEF File, Promise!File
<1> QED
  BY <1>1, <1>2, <1>3 DEF Promise!Copy, Promise!Work, Promise!Next

\* A command that leaves the files alone goes on, or has failed.
LEMMA WithinACommand ==
  ASSUME IInv, [Next]_vars, pc \in Commands, UNCHANGED <<remote, local, runs, returned>>,
         pc' = pc \/ (pc' = AfterCommand[pc] /\ ~flawless')
  PROVE  Promise!Next
<1>1. CASE pc = "remove"
  <2>1. pc' \in {"remove", "disconnect"} /\ (pc' = "disconnect" => ~flawless')
    BY <1>1 DEF AfterCommand
  <2> QED
    BY <1>1, <2>1, RemoveIsRemove
<1>2. CASE pc # "remove"
  <2>1. pc # "done" /\ Phase[pc'] = Phase[pc]
    BY <1>2, Phases DEF AfterCommand, Commands
  <2> QED
    BY <2>1, FailOrNothing
<1> QED
  BY <1>1, <1>2

LEMMA NextIsNext ==
  ASSUME IInv, [Next]_vars
  PROVE  [Promise!Next]_Promise!vars
<1> USE DEF sshVars, sftpVars, execVars, fileVars
<1>0. PcOK /\ BooleansOK /\ ConnectionOK /\ FilesOK /\ OutputOK /\ CopyOK
  BY DEF IInv
<1>1. CASE Construct
  <2>1. Promise!Begin
    BY <1>0, <1>1, Phases DEF Construct, Promise!Begin
  <2> QED
    BY <2>1 DEF Promise!Next
<1>2. CASE Connect
  <2>1. pc = "connect" /\ UNCHANGED <<remote, local, runs, returned>>
    BY <1>2 DEF Connect
  <2>2. CASE pc' = "export"
    BY <2>1, <2>2, Phases, FailOrNothing
  <2>3. CASE pc' = "destroy"
    <3>1. Promise!Step("making", "ending")
      BY <2>1, <2>3, StepIsStep, Phases
    <3>2. returned' = "none"
      BY <1>0, <2>1 DEF ConnectionOK
    <3> QED
      BY <2>1, <3>1, <3>2 DEF Promise!GiveUp, Promise!Work, Promise!Next
  <2> QED
    BY <1>2, <2>2, <2>3 DEF Connect
<1>3. CASE OpenChannel
  <2>1. /\ pc \in Commands /\ UNCHANGED <<remote, local, runs, returned>>
        /\ pc' = pc \/ (pc' = AfterCommand[pc] /\ ~flawless')
    BY <1>3 DEF OpenChannel, Fails, GoOn
  <2> QED
    BY <2>1, WithinACommand
<1>4. CASE ExecCommand
  <2>1. /\ pc \in Commands /\ UNCHANGED <<local, runs, returned>>
        /\ pc' = pc \/ (pc' = AfterCommand[pc] /\ ~flawless')
    BY <1>4 DEF ExecCommand, Fails, GoOn
  <2>2. CASE remote' = remote
    BY <2>1, <2>2, WithinACommand
  <2>3. CASE pc = "export" /\ remote' # remote
    <3>1. PICK n \in 0..MaxBlocks : remote' = Export(n)
      BY <1>4, <2>3, EffectProperties
    <3>2. remote' = Promise!Export(n)
      BY <3>1 DEF Export, File, Promise!Export, Promise!File
    <3>3. Phase[pc] = "making" /\ Phase[pc'] = "making"
      BY <2>1, <2>3, Phases DEF AfterCommand
    <3>4. Promise!Step("making", "making")
      BY <2>1, <2>3, <3>3, StepIsStep
    <3> QED
      BY <2>1, <3>2, <3>4 DEF Promise!Make, Promise!Work, Promise!Next
  <2>4. CASE pc = "remove" /\ remote' # remote
    <3>1. remote' = NoFile
      BY <1>4, <2>4, EffectProperties
    <3>2. pc' \in {"remove", "disconnect"}
      BY <2>1, <2>4 DEF AfterCommand
    <3> QED
      BY <2>1, <2>4, <3>1, <3>2, NoFileProperties, RemoveIsRemove
  <2> QED
    BY <1>4, <2>1, <2>2, <2>3, <2>4, EffectProperties DEF Commands
<1>5. CASE ReadReply
  <2>1. pc \in Commands /\ pc' = pc /\ UNCHANGED <<remote, local, runs, returned>>
    BY <1>5 DEF ReadReply
  <2> QED
    BY <2>1, WithinACommand
<1>6. CASE EndCommand
  <2>1. /\ pc \in Commands /\ UNCHANGED <<remote, local, runs, returned>>
        /\ pc' = AfterCommand[pc] /\ channel = "running"
    BY <1>6 DEF EndCommand, GoOn
  <2>2. CASE pc = "remove"
    <3>1. pc' = "disconnect" /\ ~remote.there
      BY <1>0, <2>1, <2>2 DEF AfterCommand, CopyOK
    <3> QED
      BY <2>1, <2>2, <3>1, RemoveIsRemove
  <2>3. CASE pc # "remove"
    <3>1. pc # "done" /\ Phase[pc'] = Phase[pc]
      BY <2>1, <2>3, Phases DEF AfterCommand, Commands
    <3> QED
      BY <2>1, <3>1, FailOrNothing
  <2> QED
    BY <2>2, <2>3
<1>7. CASE Check
  <2>1. pc = "check" /\ UNCHANGED <<remote, local, runs>>
    BY <1>7 DEF Check
  <2>2. CASE StartsWith(output, <<"1", "\r">>)
    <3>1. pc' = "sftp" /\ returned' = returned
      BY <1>7, <2>2 DEF Check
    <3>2. output # <<>> /\ output[1] = "1"
      BY <1>0, <2>2, StartsWithOne DEF OutputOK
    <3>3. remote.there /\ (flawless' => Promise!OfThisRun(remote))
      BY <1>0, <2>1, <3>2, FlawlessKept DEF OutputOK, CopyOK, OfThisRun, Promise!OfThisRun
    <3>4. Promise!Step("making", "copying")
      BY <2>1, <3>1, StepIsStep, Phases
    <3> QED
      BY <2>1, <3>1, <3>3, <3>4 DEF Promise!Confirm, Promise!Work, Promise!Next
  <2>3. CASE ~StartsWith(output, <<"1", "\r">>)
    <3>1. pc' = "destroy" /\ returned' = "false"
      BY <1>7, <2>3 DEF Check
    <3>2. Promise!Step("making", "ending")
      BY <2>1, <3>1, StepIsStep, Phases
    <3> QED
      BY <2>1, <3>1, <3>2 DEF Promise!GiveUp, Promise!Work, Promise!Next
  <2> QED
    BY <2>2, <2>3
<1>8. CASE InitializeSFTP
  <2>1. pc # "done" /\ Phase[pc'] = Phase[pc] /\ UNCHANGED <<remote, local, runs, returned>>
    BY <1>0, <1>8, Phases DEF InitializeSFTP
  <2> QED
    BY <2>1, FailOrNothing
<1>9. CASE OpenFiles
  <2>1. /\ pc = "open" /\ UNCHANGED <<remote, runs, returned>>
        /\ (pc' = "close" /\ local' = local) \/ (pc' = "read" /\ local' = File(<<>>))
    BY <1>9 DEF OpenFiles
  <2>2. CASE pc' = "close" /\ local' = local
    BY <2>1, <2>2, Phases, FailOrNothing
  <2>3. CASE pc' = "read" /\ local' = File(<<>>)
    <3>1. 0 \in 0..Len(remote.blocks)
      BY <1>0, FileProperties DEF FilesOK
    <3>2. SubSeq(remote.blocks, 1, 0) = <<>>
      BY <1>0, FirstBlocks DEF FilesOK
    <3> QED
      BY <2>1, <2>3, <3>1, <3>2, CopyIsCopy
  <2> QED
    BY <2>1, <2>2, <2>3
<1>10. CASE ReadBlock
  <2>1. /\ pc = "read" /\ pc' = "read" /\ UNCHANGED <<remote, runs, returned>>
        /\ reads < Len(remote.blocks)
        /\ \/ /\ stream = "good"
              /\ local' = File(Append(local.blocks, remote.blocks[reads + 1]))
           \/ local' = local
    BY <1>10 DEF ReadBlock, Succeeds, Fails
  <2>2. CASE local' = local
    BY <2>1, <2>2, FailOrNothing
  <2>3. CASE stream = "good" /\ local' = File(Append(local.blocks, remote.blocks[reads + 1]))
    <3>1. reads \in 0..(Len(remote.blocks) - 1) /\ reads + 1 \in 0..Len(remote.blocks)
      BY <1>0, <2>1, FileProperties, BoundsAssumption DEF FilesOK
    <3>2. local.blocks = SubSeq(remote.blocks, 1, reads)
      BY <1>0, <2>1, <2>3 DEF File, CopyOK
    <3>3. local' = File(SubSeq(remote.blocks, 1, reads + 1))
      BY <1>0, <2>3, <3>1, <3>2, FirstBlocks DEF FilesOK
    <3> QED
      BY <2>1, <3>1, <3>3, CopyIsCopy
  <2> QED
    BY <2>1, <2>2, <2>3
<1>11. CASE DivideByZero
  <2>1. pc # "done" /\ pc' = "done" /\ UNCHANGED <<remote, local, runs, returned>>
    BY <1>11 DEF DivideByZero
  <2>2. flawless' = FALSE
    BY <1>0, <1>11, DivisionNeedsAFailure, Zenon DEF DivideByZero, BooleansOK
  <2>3. Phase[pc] # "idle" /\ Phase[pc'] = "idle"
    BY <1>0, <2>1, Phases DEF PcOK, Commands
  <2> QED
    BY <2>1, <2>2, <2>3 DEF Promise!Cut, Promise!Next
<1>12. CASE EndDownload
  <2>1. pc # "done" /\ Phase[pc'] = Phase[pc] /\ UNCHANGED <<remote, local, runs, returned>>
    BY <1>0, <1>12, Phases DEF EndDownload
  <2> QED
    BY <2>1, FailOrNothing
<1>13. CASE DisconnectSFTP
  <2>1. pc = "close" /\ pc' = "remove" /\ UNCHANGED <<remote, local, runs, returned>>
    BY <1>13 DEF DisconnectSFTP
  <2>2. flawless' => local = remote
    BY <1>0, <2>1, FlawlessKept DEF CopyOK
  <2>3. Promise!Step("copying", "removing")
    BY <2>1, StepIsStep, Phases
  <2> QED
    BY <2>1, <2>2, <2>3 DEF Promise!EndCopy, Promise!Work, Promise!Next
<1>14. CASE Disconnect
  <2>1. pc = "disconnect" /\ pc' = "destroy" /\ UNCHANGED <<remote, local, runs>> /\ returned' = "true"
    BY <1>14 DEF Disconnect
  <2>2. Promise!Step("answering", "ending")
    BY <2>1, StepIsStep, Phases
  <2> QED
    BY <2>1, <2>2 DEF Promise!Answer, Promise!Work, Promise!Next
<1>15. CASE Destroy
  <2>1. pc = "destroy" /\ pc' = "done" /\ UNCHANGED <<remote, local, runs, returned>>
    BY <1>15 DEF Destroy
  <2>2. Promise!Step("ending", "idle")
    BY <2>1, StepIsStep, Phases
  <2> QED
    BY <2>1, <2>2 DEF Promise!End, Promise!Work, Promise!Next
<1>16. CASE LoseLink
  BY <1>16 DEF LoseLink, Promise!vars
<1>17. CASE Kill
  <2>1. pc # "done" /\ pc' = "done" /\ UNCHANGED <<remote, local, runs, returned>>
    BY <1>17 DEF Kill
  <2>2. flawless' = FALSE
    BY <1>17 DEF Kill
  <2>3. Phase[pc] # "idle" /\ Phase[pc'] = "idle"
    BY <1>0, <2>1, Phases DEF PcOK, Commands
  <2> QED
    BY <2>1, <2>2, <2>3 DEF Promise!Cut, Promise!Next
<1>18. CASE UNCHANGED vars
  BY <1>18 DEF vars, Promise!vars
<1> QED
  BY <1>1, <1>2, <1>3, <1>4, <1>5, <1>6, <1>7, <1>8, <1>9, <1>10, <1>11, <1>12, <1>13, <1>14,
     <1>15, <1>16, <1>17, <1>18
  DEF Next, Program

\* Whatever fails, and wherever the program is cut off, DownloadDatabase is
\* what DownloadSpec promises; what is proved of DownloadSpec holds of it.
THEOREM DeviceImplementsDownload == Spec => KeepsItsPromise
<1>1. IInv /\ [Next]_vars => [Promise!Next]_Promise!vars
  BY NextIsNext
<1> QED
  BY <1>1, InitIsInit, Inductive, PTL DEF Spec, KeepsItsPromise, Promise!Spec

-----------------------------------------------------------------------------
(* What is promised, for exports of any size and any number of runs, from  *)
(* the steps of DownloadSpec alone.                                        *)

\* The files there can be: none, or the first blocks of the export of a run.
ExportOf(r, n)  == Promise!File([i \in 1..n |-> <<r, i>>])
FilesOfExports == {Promise!NoFile} \cup {ExportOf(r, n) : r \in Nat, n \in Nat}

PhaseNames == {"idle", "making", "copying", "removing", "answering", "ending"}

PromisedTypes ==
  /\ Phase[pc] \in PhaseNames
  /\ runs \in Nat
  /\ returned \in {"none", "true", "false"}
  /\ flawless \in BOOLEAN

PromisedFiles == remote \in FilesOfExports /\ local \in FilesOfExports

\* What is known of the files in each phase of a run in which nothing failed.
PromisedPhases ==
  /\ Phase[pc] \in {"making", "copying", "removing", "answering"} => returned = "none"
  /\ Phase[pc] = "copying" => remote.there
  /\ Phase[pc] = "copying" /\ flawless => Promise!OfThisRun(remote)
  /\ Phase[pc] \in {"removing", "answering"} /\ flawless =>
       local.there /\ Promise!OfThisRun(local) /\ (remote.there => local = remote)
  /\ Phase[pc] = "answering" /\ flawless => ~remote.there
  /\ returned = "true" /\ flawless => local.there /\ Promise!OfThisRun(local) /\ ~remote.there

\* The inductive invariant.
PromiseInv == PromisedTypes /\ PromisedFiles /\ PromisedPhases

-----------------------------------------------------------------------------
(* Files.                                                                  *)

LEMMA NoFileIsFile == ~Promise!NoFile.there /\ Promise!NoFile.blocks = <<>> /\ Promise!NoFile \in FilesOfExports
BY DEF Promise!NoFile, FilesOfExports

LEMMA OfProperties ==
  ASSUME NEW r \in Nat, NEW n \in Nat
  PROVE  /\ ExportOf(r, n) \in FilesOfExports
         /\ ExportOf(r, n).there
         /\ ExportOf(r, n).blocks = [i \in 1..n |-> <<r, i>>]
<1>1. ExportOf(r, n) \in FilesOfExports
  BY DEF FilesOfExports
<1>2. ExportOf(r, n).there /\ ExportOf(r, n).blocks = [i \in 1..n |-> <<r, i>>]
  BY DEF ExportOf, Promise!File
<1> QED
  BY <1>1, <1>2

\* An export that is made is a file there can be.
LEMMA ExportIsOfRun ==
  ASSUME runs \in Nat, NEW n \in Nat
  PROVE  Promise!Export(n) = ExportOf(runs, n) /\ Promise!Export(n) \in FilesOfExports
BY OfProperties DEF Promise!Export, ExportOf

\* The first blocks of an export are the first blocks of the export.
LEMMA FirstOfExport ==
  ASSUME NEW r \in Nat, NEW n \in Nat, NEW m \in 0..n
  PROVE  SubSeq([i \in 1..n |-> <<r, i>>], 1, m) = [i \in 1..m |-> <<r, i>>]
<1> DEFINE s == [i \in 1..n |-> <<r, i>>]
           t == SubSeq(s, 1, m)
<1>1. \A i \in 1..m : s[i] \in Nat \X Nat
  OBVIOUS
<1>2. t \in Seq(Nat \X Nat) /\ Len(t) = m /\ \A i \in 1..m : t[i] = s[i]
  <2>1. /\ t \in Seq(Nat \X Nat)
        /\ Len(t) = IF 1 <= m THEN m - 1 + 1 ELSE 0
        /\ \A i \in 1..(m - 1 + 1) : t[i] = s[1 + i - 1]
    BY <1>1, SubSeqProperties
  <2> QED
    BY <2>1
<1>3. t = [i \in 1..m |-> t[i]]
  BY <1>2, LenProperties
<1> QED
  BY <1>2, <1>3

\* What Copy leaves is a file there can be.
LEMMA CopyIsFile ==
  ASSUME NEW f \in FilesOfExports, f.there, NEW m \in 0..Len(f.blocks)
  PROVE  Promise!File(SubSeq(f.blocks, 1, m)) \in FilesOfExports
<1>1. PICK r \in Nat, n \in Nat : f = ExportOf(r, n)
  BY NoFileIsFile DEF FilesOfExports
<1>2. f.blocks = [i \in 1..n |-> <<r, i>>] /\ Len(f.blocks) = n
  BY <1>1, OfProperties
<1>3. m \in Nat /\ m \in 0..n
  BY <1>2
<1>4. SubSeq(f.blocks, 1, m) = [i \in 1..m |-> <<r, i>>]
  BY <1>2, <1>3, FirstOfExport
<1>5. Promise!File(SubSeq(f.blocks, 1, m)) = ExportOf(r, m)
  BY <1>4, Zenon DEF ExportOf
<1> QED
  BY <1>3, <1>5, OfProperties

\* A file that holds the export of this run, and no other.
LEMMA ThisRunsExport ==
  ASSUME NEW f \in FilesOfExports, f.there, Promise!OfThisRun(f), runs \in Nat
  PROVE  \E n \in Nat : f = Promise!Export(n)
<1>1. PICK r \in Nat, n \in Nat : f = ExportOf(r, n)
  BY NoFileIsFile DEF FilesOfExports
<1>2. f.blocks = [i \in 1..n |-> <<r, i>>]
  BY <1>1, OfProperties
<1>3. \A i \in 1..n : r = runs
  BY <1>2 DEF Promise!OfThisRun
<1>4. [i \in 1..n |-> <<r, i>>] = [i \in 1..n |-> <<runs, i>>]
  BY <1>3
<1>5. f = Promise!Export(n)
  BY <1>1, <1>4 DEF ExportOf, Promise!Export
<1> QED
  BY <1>5

-----------------------------------------------------------------------------
(* The invariant.                                                          *)

LEMMA PromiseInit == Promise!Init => PromiseInv
BY NoFileIsFile DEF Promise!Init, PromiseInv, PromisedTypes, PromisedFiles, PromisedPhases, PhaseNames

\* A step, or none, keeps the types.
LEMMA PromisedTypesKept ==
  ASSUME PromisedTypes, [Promise!Next]_Promise!vars
  PROVE  PromisedTypes'
<1> USE DEF PromisedTypes, PhaseNames, Promise!Step
<1>1. CASE Promise!Begin
  BY <1>1 DEF Promise!Begin
<1>2. CASE Promise!Make
  BY <1>2 DEF Promise!Make
<1>3. CASE Promise!Confirm
  BY <1>3 DEF Promise!Confirm
<1>4. CASE Promise!GiveUp
  BY <1>4 DEF Promise!GiveUp
<1>5. CASE Promise!Copy
  BY <1>5 DEF Promise!Copy
<1>6. CASE Promise!EndCopy
  BY <1>6 DEF Promise!EndCopy
<1>7. CASE Promise!Remove
  BY <1>7 DEF Promise!Remove
<1>8. CASE Promise!Answer
  BY <1>8 DEF Promise!Answer
<1>9. CASE Promise!End
  BY <1>9 DEF Promise!End
<1>10. CASE Promise!Fail
  BY <1>10 DEF Promise!Fail
<1>11. CASE Promise!Cut
  BY <1>11 DEF Promise!Cut
<1>12. CASE UNCHANGED Promise!vars
  BY <1>12 DEF Promise!vars
<1> QED
  BY <1>1, <1>2, <1>3, <1>4, <1>5, <1>6, <1>7, <1>8, <1>9, <1>10, <1>11, <1>12
  DEF Promise!Next, Promise!Work

\* A step, or none, leaves files there can be.
LEMMA PromisedFilesKept ==
  ASSUME PromiseInv, [Promise!Next]_Promise!vars
  PROVE  PromisedFiles'
<1> USE DEF PromiseInv, PromisedFiles
<1>1. CASE Promise!Make
  <2>1. PICK n \in 0..MaxBlocks : remote' = Promise!Export(n)
    BY <1>1 DEF Promise!Make
  <2>2. n \in Nat
    OBVIOUS
  <2>3. remote' \in FilesOfExports
    BY <2>1, <2>2, ExportIsOfRun DEF PromisedTypes
  <2> QED
    BY <1>1, <2>3 DEF Promise!Make
<1>2. CASE Promise!Copy
  <2>1. PICK n \in 0..Len(remote.blocks) : local' = Promise!File(SubSeq(remote.blocks, 1, n))
    BY <1>2 DEF Promise!Copy
  <2>2. local' \in FilesOfExports
    BY <1>2, <2>1, CopyIsFile DEF Promise!Copy
  <2> QED
    BY <1>2, <2>2 DEF Promise!Copy
<1>3. CASE Promise!Remove
  BY <1>3, NoFileIsFile DEF Promise!Remove
<1>4. CASE UNCHANGED <<remote, local>>
  BY <1>4
<1> QED
  BY <1>1, <1>2, <1>3, <1>4
  DEF Promise!Next, Promise!Work, Promise!Begin, Promise!Confirm, Promise!GiveUp, Promise!EndCopy, Promise!Answer, Promise!End, Promise!Fail, Promise!Cut, Promise!vars

\* What the steps of a run have in common.
LEMMA PromisedStep ==
  ASSUME NEW from, NEW to, Promise!Step(from, to)
  PROVE  Phase[pc] = from /\ Phase[pc'] = to /\ runs' = runs /\ (flawless' => flawless)
<1>1. flawless' = flawless \/ flawless' = FALSE
  BY DEF Promise!Step
<1>2. flawless' => flawless
  BY <1>1, Zenon
<1> QED
  BY <1>2 DEF Promise!Step

\* A step, or none, keeps what is known in each phase.
LEMMA PromisedPhasesKept ==
  ASSUME PromiseInv, [Promise!Next]_Promise!vars
  PROVE  PromisedPhases'
<1> USE PromisedStep DEF PromiseInv, PromisedTypes, PromisedPhases, PhaseNames
<1>a. runs' = runs /\ remote' = remote => (Promise!OfThisRun(remote)' <=> Promise!OfThisRun(remote))
  BY DEF Promise!OfThisRun
<1>b. runs' = runs /\ local' = local => (Promise!OfThisRun(local)' <=> Promise!OfThisRun(local))
  BY DEF Promise!OfThisRun
<1>1. CASE Promise!Begin
  BY <1>1 DEF Promise!Begin
<1>2. CASE Promise!Make
  BY <1>2 DEF Promise!Make
<1>3. CASE Promise!Confirm
  BY <1>3, <1>a, <1>b DEF Promise!Confirm
<1>4. CASE Promise!GiveUp
  BY <1>4, <1>a, <1>b DEF Promise!GiveUp
<1>5. CASE Promise!Copy
  BY <1>5, <1>a, <1>b DEF Promise!Copy
<1>6. CASE Promise!EndCopy
  BY <1>6, <1>a, <1>b DEF Promise!EndCopy
<1>7. CASE Promise!Remove
  BY <1>7, <1>a, <1>b, NoFileIsFile DEF Promise!Remove
<1>8. CASE Promise!Answer
  BY <1>8, <1>a, <1>b DEF Promise!Answer
<1>9. CASE Promise!End
  BY <1>9, <1>a, <1>b DEF Promise!End
<1>10. CASE Promise!Fail
  BY <1>10, <1>a, <1>b DEF Promise!Fail
<1>11. CASE Promise!Cut
  BY <1>11 DEF Promise!Cut
<1>12. CASE UNCHANGED Promise!vars
  BY <1>12, <1>a, <1>b DEF Promise!vars
<1> QED
  BY <1>1, <1>2, <1>3, <1>4, <1>5, <1>6, <1>7, <1>8, <1>9, <1>10, <1>11, <1>12
  DEF Promise!Next, Promise!Work

LEMMA PromiseStep == PromiseInv /\ [Promise!Next]_Promise!vars => PromiseInv'
BY PromisedTypesKept, PromisedFilesKept, PromisedPhasesKept DEF PromiseInv

LEMMA PromiseInductive == Promise!Spec => []PromiseInv
BY PromiseInit, PromiseStep, PTL DEF Promise!Spec

-----------------------------------------------------------------------------
\* The local file is never a mixture of two exports, however many runs were cut
\* off while they wrote it.
THEOREM LocalIsOneExport == Promise!Spec => []Promise!NeverMixed
<1>1. PromiseInv => Promise!NeverMixed
  <2> SUFFICES ASSUME PromiseInv PROVE Promise!NeverMixed
    OBVIOUS
  <2>1. CASE local = Promise!NoFile
    BY <2>1, NoFileIsFile, 0 \in Nat DEF Promise!NeverMixed
  <2>2. CASE local # Promise!NoFile
    <3>1. PICK r \in Nat, n \in Nat : local = ExportOf(r, n)
      BY <2>2 DEF PromiseInv, PromisedFiles, FilesOfExports
    <3>2. local.blocks = [i \in 1..n |-> <<r, i>>]
      BY <3>1, OfProperties
    <3> QED
      BY <3>2 DEF Promise!NeverMixed
  <2> QED
    BY <2>1, <2>2
<1> QED
  BY <1>1, PromiseInductive, PTL

\* After a run in which nothing failed, true means a local file of this run's
\* export and nothing left on the device.
THEOREM TrueMeansCopied == Promise!Spec => []Promise!AnswerIsKept
<1>1. PromiseInv => Promise!AnswerIsKept
  BY ThisRunsExport DEF PromiseInv, PromisedTypes, PromisedFiles, PromisedPhases, Promise!AnswerIsKept
<1> QED
  BY <1>1, PromiseInductive, PTL

\* Nothing is removed from the device, in a run in which nothing failed, that
\* is not held locally.
THEOREM NothingIsLost == Promise!Spec => Promise!CopiedBeforeRemoval
<1> DEFINE Safe == remote.there /\ ~remote'.there /\ flawless' =>
                     local = remote /\ Promise!OfThisRun(local)
<1>1. PromiseInv /\ [Promise!Next]_Promise!vars => Safe
  <2> SUFFICES ASSUME PromiseInv, [Promise!Next]_Promise!vars, remote.there, ~remote'.there, flawless'
               PROVE  local = remote /\ Promise!OfThisRun(local)
    OBVIOUS
  <2>1. remote' # remote
    OBVIOUS
  <2>2. CASE Promise!Make
    BY <2>2 DEF Promise!Make, Promise!Export, Promise!File
  <2>3. CASE Promise!Remove
    BY <2>3 DEF Promise!Remove, Promise!Step, PromiseInv, PromisedTypes, PromisedPhases
  <2> QED
    BY <2>1, <2>2, <2>3
    DEF Promise!Next, Promise!Work, Promise!Begin, Promise!Confirm, Promise!GiveUp, Promise!Copy, Promise!EndCopy, Promise!Answer, Promise!End, Promise!Fail, Promise!Cut, Promise!vars
<1>2. PromiseInv /\ [Promise!Next]_Promise!vars => [Safe]_Promise!vars
  BY <1>1
<1> QED
  BY <1>2, PromiseInductive, PTL DEF Promise!Spec, Promise!CopiedBeforeRemoval

-----------------------------------------------------------------------------
(* What is proved of the promise holds of the device that keeps it.        *)

\* The file DownloadFile writes is never parts of two exports, whatever the
\* run before it left there.
THEOREM DeviceNeverMixes == Spec => []Promise!NeverMixed
BY DeviceImplementsDownload, LocalIsOneExport, PTL DEF KeepsItsPromise

\* DownloadDatabase returns true, in a run in which nothing failed, over a
\* whole copy of this run's export.
THEOREM DeviceAnswerIsKept == Spec => []Promise!AnswerIsKept
BY DeviceImplementsDownload, TrueMeansCopied, PTL DEF KeepsItsPromise

\* In a run in which nothing fails, DownloadDatabase removes the file only when
\* it has the same file.
THEOREM DeviceLosesNothing == Spec => Promise!CopiedBeforeRemoval
BY DeviceImplementsDownload, NothingIsLost, PTL DEF KeepsItsPromise
=============================================================================
