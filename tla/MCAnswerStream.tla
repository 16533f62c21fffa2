--------------------------- MODULE MCAnswerStream ---------------------------
(***************************************************************************)
(* A small alphabet for AnswerStream: both markers begin with the same     *)
(* symbol, as the real ones do, so that its arrival decides nothing.       *)
(***************************************************************************)
EXTENDS AnswerStream

MCAlphabet == {"p", " ", "<", "s", "e"}
MCStart    == <<"<", "s">>
MCEnd      == <<"<", "e">>
MCRequests == {<<"p">>, <<"p", "p">>}
MCChunks   == {<<>>, <<"s">>, <<"p", "<">>, <<" ", "<", "s", "p">>, <<"p", "<", "e">>}
=============================================================================
