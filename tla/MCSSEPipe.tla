------------------------------- MODULE MCSSEPipe -------------------------------
(* The module TLC runs SSEPipe from.                                       *)
EXTENDS SSEPipe

E(id, event, data) == [id |-> id, event |-> event, data |-> data]

(* Payloads that look like the format itself: blank lines, field lines,    *)
(* leading spaces, colons, nothing at all; a type with a line end; ids     *)
(* that are stripped in part or altogether.                                *)
MCEvents ==
  { E(<<>>, <<>>, <<>>),
    E(<<"1">>, <<"e">>, <<SP, "x">>),
    E(<<NUL>>, <<"e", LF, LF, "data">>, <<"x", LF, LF, COLON>>),
    E(<<SP, NUL, "2">>, <<>>, <<CR, LF, "id", COLON>>) }

MCComments == {<<"x", LF>>}
MCDelays == {-3, 5}
================================================================================
