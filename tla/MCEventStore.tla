----------------------------- MODULE MCEventStore ------------------------------
(* The module TLC runs EventStore from.  Every constant gets its value in  *)
(* the .cfg.                                                               *)
EXTENDS EventStore
================================================================================
