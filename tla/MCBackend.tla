------------------------------ MODULE MCBackend ------------------------------
(***************************************************************************)
(* Backend with a client of one document and streams of two.               *)
(***************************************************************************)
EXTENDS Backend, TLC

CONSTANTS d1, d2, s1, s2

TopicOfFirst == [c \in Clients |-> {d1}]
OneStreamEach == (s1 :> d1) @@ (s2 :> d2)
=============================================================================
