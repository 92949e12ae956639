------------------------------ MODULE EventChannel -----------------------------
(***************************************************************************)
(* What a Source promises (the Source interface of event.go): it hands out *)
(* what was put in, in order and once each, and answers ErrNoMoreEvents,   *)
(* the normal end, only when all of it has been handed out and nothing     *)
(* more can come.  A reader that fails or leaves is promised nothing more. *)
(* SSEPipe and DeliverSource implement it.                                 *)
(***************************************************************************)
EXTENDS Naturals, Sequences

VARIABLES accepted,   \* events put in
          received,   \* events Next has returned
          reading     \* the reader: "open", "ended" (ErrNoMoreEvents) or "left"

vars == <<accepted, received, reading>>

Init == accepted = <<>> /\ received = <<>> /\ reading = "open"

Accept ==
  /\ reading # "ended"
  /\ Len(accepted') = Len(accepted) + 1
  /\ accepted = SubSeq(accepted', 1, Len(accepted))
  /\ UNCHANGED <<received, reading>>

(* Next returns an event; its caller goes on or leaves with it.            *)
Take ==
  /\ reading = "open"
  /\ Len(received) < Len(accepted)
  /\ received' = Append(received, accepted[Len(received) + 1])
  /\ reading' \in {"open", "left"}
  /\ UNCHANGED accepted

(* Next returns ErrNoMoreEvents.                                           *)
End ==
  /\ reading = "open"
  /\ received = accepted
  /\ reading' = "ended"
  /\ UNCHANGED <<accepted, received>>

(* Next returns another error.                                             *)
Leave ==
  /\ reading = "open"
  /\ reading' = "left"
  /\ UNCHANGED <<accepted, received>>

Next == Accept \/ Take \/ End \/ Leave

Spec == Init /\ [][Next]_vars
================================================================================
