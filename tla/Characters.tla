----------------------------- MODULE Characters ------------------------------
(***************************************************************************)
(* What the writing and the reading of texts share.  A text is a sequence  *)
(* of bytes, and these are the characters that mean something.             *)
(***************************************************************************)
EXTENDS DudeTypes

Seqs == INSTANCE SequencesExt

Nul       == 0
Quote     == 34
Digit0    == 48
Backslash == 92
=============================================================================
