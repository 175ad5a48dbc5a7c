-------------------------- MODULE MCMikrotikDevice ---------------------------
(***************************************************************************)
(* Two runs of the program, one after the other, and files of up to two    *)
(* blocks; the progress is computed at the second block.                   *)
(***************************************************************************)
EXTENDS MikrotikDevice
=============================================================================
