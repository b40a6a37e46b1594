------------------------------ MODULE MCParser ------------------------------
(***************************************************************************)
(* Parser on all documents of a few blocks of these shapes.                *)
(***************************************************************************)
EXTENDS Parser

BlockShapes == {
    <<>>,
    <<"text">>,
    <<"title">>,
    <<"number", "title", "text">>,
    <<"title", "blank">>,
    <<"title", "title", "table", "table">>,
    <<"blank", "title", "text">>,
    <<"text", "table", "table">>,
    <<"text", "title", "text">>}
=============================================================================
