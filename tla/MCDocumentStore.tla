--------------------------- MODULE MCDocumentStore ---------------------------
(***************************************************************************)
(* DocumentStore on documents two of which have the same contents.         *)
(***************************************************************************)
EXTENDS DocumentStore, TLC

CONSTANTS d1, d2, d3, h1, h2

TwoContents == (d1 :> h1) @@ (d2 :> h2)
PairContents == (d1 :> h1) @@ (d2 :> h1) @@ (d3 :> h2)
StoreSymmetry == Permutations(Confirms) \cup Permutations(Attempts)
=============================================================================
