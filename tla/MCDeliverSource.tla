---------------------------- MODULE MCDeliverSource ----------------------------
(* The module TLC runs DeliverSource from; the .cfg files give the values. *)
EXTENDS DeliverSource
================================================================================
