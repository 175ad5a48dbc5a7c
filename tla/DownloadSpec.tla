---------------------------- MODULE DownloadSpec -----------------------------
(***************************************************************************)
(* What fetching the database from a device promises, run after run: first *)
(* the file on the device is made, then it is copied, and only then it is  *)
(* removed.  A call may fail anywhere, and the later phases are entered    *)
(* all the same; if none has and the answer is "true", the file is that of  *)
(* this run, the copy is whole, and nothing is left on the device.  A run  *)
(* may also give up, for no failure of a call but because the count of the *)
(* files on the device was misread; then the answer is not "true" and the  *)
(* file, if it was made, stays on the device.  Whatever fails, the copy is *)
(* the beginning of what is on the device, the local file is touched in no *)
(* other phase, and "false" means that it was not touched.                 *)
(***************************************************************************)
EXTENDS Integers, Sequences

CONSTANT MaxBlocks   \* bound: the blocks of an export

VARIABLES
  phase,     \* "idle", "making", "copying", "removing", "answering" or "ending"
  remote,    \* the file on the device
  local,     \* the local file
  runs,      \* the number of the run
  returned,  \* what DownloadDatabase returned: "none", "true" or "false"
  flawless   \* nothing has failed in this run

vars == <<phase, remote, local, runs, returned, flawless>>

\* A file: whether it is there, and its blocks; a block is known by the run
\* whose export it comes from and its number.
NoFile  == [there |-> FALSE, blocks |-> <<>>]
File(s) == [there |-> TRUE, blocks |-> s]

Export(n) == File([i \in 1..n |-> <<runs, i>>])

OfThisRun(file) == \A i \in DOMAIN file.blocks : file.blocks[i][1] = runs

Init ==
  /\ phase = "idle"
  /\ remote = NoFile /\ local = NoFile
  /\ runs = 0 /\ returned = "none"
  /\ flawless = TRUE

Begin ==
  /\ phase = "idle"
  /\ phase' = "making"
  /\ runs' = runs + 1 /\ returned' = "none" /\ flawless' = TRUE
  /\ UNCHANGED <<remote, local>>

\* A step of a run: one that has failed stays so.
Step(from, to) ==
  /\ phase = from /\ phase' = to
  /\ flawless' \in {flawless, FALSE}
  /\ UNCHANGED runs

Make ==
  /\ Step("making", "making")
  /\ \E n \in 0..MaxBlocks : remote' = Export(n)
  /\ UNCHANGED <<local, returned>>

Confirm ==
  /\ Step("making", "copying")
  /\ remote.there
  /\ flawless' => OfThisRun(remote)
  /\ UNCHANGED <<remote, local, returned>>

\* The device cannot be reached, or what it says is taken for there being no
\* file, even if nothing has failed.
GiveUp ==
  /\ Step("making", "ending")
  /\ returned' \in {"none", "false"}
  /\ UNCHANGED <<remote, local>>

Copy ==
  /\ Step("copying", "copying")
  /\ remote.there
  /\ \E n \in 0..Len(remote.blocks) : local' = File(SubSeq(remote.blocks, 1, n))
  /\ UNCHANGED <<remote, returned>>

EndCopy ==
  /\ Step("copying", "removing")
  /\ flawless' => local = remote
  /\ UNCHANGED <<remote, local, returned>>

Remove ==
  /\ Step("removing", "removing") \/ Step("removing", "answering")
  /\ remote' \in {remote, NoFile}
  /\ phase' = "answering" /\ flawless' => ~remote'.there
  /\ UNCHANGED <<local, returned>>

Answer ==
  /\ Step("answering", "ending")
  /\ returned' = "true"
  /\ UNCHANGED <<remote, local>>

End ==
  /\ Step("ending", "idle")
  /\ UNCHANGED <<remote, local, returned>>

\* A call fails and the run goes on in the phase it is in.
Fail ==
  /\ Step(phase, phase)
  /\ phase # "idle"
  /\ UNCHANGED <<remote, local, returned>>

\* The run is cut off, by a kill or an error that ends the program.
Cut ==
  /\ phase # "idle" /\ phase' = "idle"
  /\ flawless' = FALSE
  /\ UNCHANGED <<remote, local, runs, returned>>

Work ==
  \/ Make \/ Confirm \/ GiveUp \/ Copy \/ EndCopy \/ Remove
  \/ Answer \/ End \/ Fail

Next == Begin \/ Work \/ Cut

Spec == Init /\ [][Next]_vars
-----------------------------------------------------------------------------
\* The local file holds the beginning of one export, never parts of two,
\* although a run that was cut off leaves its file to the next
\* (mikrotik_device.cpp:296).
NeverMixed ==
  \E r \in Nat : \A i \in DOMAIN local.blocks : local.blocks[i] = <<r, i>>

\* DownloadDatabase returns true, after a run in which nothing failed, over a
\* local file that is the export of this very run, and a device that has been
\* tidied up (mikrotik_device.cpp:142).
AnswerIsKept ==
  returned = "true" /\ flawless =>
    ~remote.there /\ \E n \in Nat : local = Export(n)

\* In a run in which nothing fails the file on the device is removed only when
\* the local file is the same, and of this run (mikrotik_device.cpp:139).
CopiedBeforeRemoval ==
  [][remote.there /\ ~remote'.there /\ flawless' =>
       local = remote /\ OfThisRun(local)]_vars
=============================================================================
