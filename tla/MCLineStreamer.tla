---------------------------- MODULE MCLineStreamer -----------------------------
(***************************************************************************)
(* The module TLC runs LineStreamer from: chunks that end in, before and   *)
(* after a newline, and a transform that marks every line and drops some.  *)
(***************************************************************************)
EXTENDS LineStreamer

MCChars == {"a", "b", "c", "d", "e", "f", "mark", NL}

MCChunks == {<<>>, <<"a">>, <<NL>>, <<"b", NL>>, <<NL, "c">>, <<"d", NL, "e", NL, "f">>}

MCTransform(line) == IF "c" \in ToSet(line) THEN EmptyText ELSE <<"mark">> \o line
================================================================================
