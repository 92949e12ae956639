----------------------------- MODULE MCSSEForeign ------------------------------
(* The module TLC runs SSEForeign from.                                    *)
EXTENDS SSEForeign

L(text, kind, value) == [text |-> text, kind |-> kind, value |-> value]

Blank == L(<<>>, "blank", <<>>)
Mark  == L(<<BOM, "data">>, "bom", <<>>)

Data  == L(<<"data", COLON, SP, "x">>, "data", <<"x">>)
ID    == L(<<"id", COLON, "1">>, "id", <<"1">>)
Event == L(<<"event", COLON, COLON>>, "event", <<COLON>>)
NulID == L(<<"id", COLON, NUL>>, "other", <<>>)

Retry(n) == L(<<"retry", COLON, FormatInt(n)>>, "retry", <<FormatInt(n)>>)

(* Every terminator; every kind of line, with and without the optional     *)
(* space, and retry values below and above both limits of an int64; longer *)
(* streams, several events.                                                *)
MCProducers ==
  { [lines |-> {Blank, Mark, Data, ID},
     ends |-> {<<LF>>, <<CR>>, <<CR, LF>>}, max |-> 3],
    [lines |-> {Blank, Mark, ID, Event, NulID,
                L(<<"data", COLON, SP, SP>>, "data", <<SP>>),
                L(<<"data">>, "data", <<>>),
                L(<<"id">>, "id", <<>>),
                L(<<COLON, "data">>, "other", <<>>),
                Retry(1), Retry(MaxInt), Retry(MaxInt + 1),
                L(<<"retry", COLON, "x">>, "other", <<>>)},
     ends |-> {<<LF>>}, max |-> 3],
    [lines |-> {Blank, Data, ID, Event, NulID}, ends |-> {<<LF>>}, max |-> 5] }
================================================================================
