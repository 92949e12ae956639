------------------------------ MODULE MCRoundTrip ------------------------------
(* The module TLC runs RoundTrip from; the .cfg files give the values.     *)
EXTENDS RoundTrip
================================================================================
