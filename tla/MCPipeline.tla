----------------------------- MODULE MCPipeline -----------------------------
(***************************************************************************)
(* Pipeline on small instances.                                            *)
(***************************************************************************)
EXTENDS Pipeline, TLC

CONSTANTS ch1, ch2, none

TwoChapters == <<ch1, ch2>>
Symmetry == Permutations(Workers) \cup Permutations(Streams)
=============================================================================
