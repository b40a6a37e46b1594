------------------------------ MODULE MCWorker ------------------------------
(***************************************************************************)
(* Worker on small instances.                                              *)
(***************************************************************************)
EXTENDS Worker, TLC

(* Workers are interchangeable; symmetry is used for safety runs only. *)
WorkerSymmetry == Permutations(Workers)
=============================================================================
