------------------------------- MODULE MCResume --------------------------------
(* The module TLC runs Resume from.  An event is its producer and number,  *)
(* which serves as payload and, when it has one, as id.                    *)
EXTENDS Resume

MCEvents == Producers \X (1 .. MaxEmits)

MCNoData == CHOOSE e \in MCEvents : TRUE
================================================================================
