------------------------------ MODULE MCIngest ------------------------------
(***************************************************************************)
(* Ingest on small instances: a document of three chunks, the first without *)
(* a chapter and the others with one each.  The second may be skipped: the  *)
(* chapter of the third can then come before its own.                       *)
(***************************************************************************)
EXTENDS Ingest, TLC

CONSTANTS ch1, ch2, none

MixedChapters == <<none, ch1, ch2>>
StreamSymmetry == Permutations(Streams)
=============================================================================
