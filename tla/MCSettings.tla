----------------------------- MODULE MCSettings -----------------------------
(***************************************************************************)
(* Settings with questions and a confirmation of one user on one document. *)
(***************************************************************************)
EXTENDS Settings, TLC

CONSTANTS user, doc

OneUser == [r \in Requests |-> user]
OneDoc == [r \in Requests |-> doc]
AskSymmetry == Permutations(Asks)
=============================================================================
