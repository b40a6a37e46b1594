--------------------------- MODULE MCChatService ---------------------------
(***************************************************************************)
(* ChatService on small instances.                                         *)
(***************************************************************************)
EXTENDS ChatService, TLC

ChatSymmetry == Permutations(Asks) \cup Permutations(Docs)
=============================================================================
