------------------------------- MODULE MCGzip --------------------------------
(***************************************************************************)
(* Files shorter and longer than the header, of one buffer, of two and in  *)
(* between, whole, cut off and damaged, in two runs.                       *)
(***************************************************************************)
EXTENDS Gzip
=============================================================================
