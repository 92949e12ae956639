------------------------------ MODULE RetainedLog ------------------------------
(***************************************************************************)
(* What the EventStore interface promises (store.go, type EventStore): per *)
(* stream, a log of the most recent events that a reconnecting client can  *)
(* be resumed from.  No ring, no index, no sequence numbers: a resume      *)
(* point is an id that still occurs in the log, and what is replayed is    *)
(* what follows its last occurrence.                                       *)
(***************************************************************************)
EXTENDS Naturals, Sequences

CONSTANTS Streams,    \* stream identifiers
          Capacity,   \* events retained per stream
          IDs,        \* event ids a producer may assign
          NoID,       \* the empty id: such an event cannot be resumed to
          Data        \* payloads

VARIABLE log          \* log[s]: the retained events of stream s, oldest first

Event == [id : IDs \cup {NoID}, data : Data]

(* Positions of the events of s that carry id.                             *)
Occurrences(s, id) == {i \in DOMAIN log[s] : log[s][i].id = id}

Known(s, id) == id # NoID /\ Occurrences(s, id) # {}

(* Everything recorded after the latest event that carries id.             *)
Since(s, id) ==
  IF ~Known(s, id)
    THEN [known |-> FALSE, events |-> <<>>]
    ELSE LET last == CHOOSE i \in Occurrences(s, id) :
                       \A j \in Occurrences(s, id) : j <= i
         IN  [known |-> TRUE, events |-> SubSeq(log[s], last + 1, Len(log[s]))]

--------------------------------------------------------------------------------
Init == log = [s \in Streams |-> <<>>]

(* The event becomes the most recent one; at capacity the oldest goes.     *)
Record(s, e) ==
  log' = [log EXCEPT ![s] =
            Append(IF Len(@) < Capacity THEN @ ELSE Tail(@), e)]

Clear(s) == log' = [log EXCEPT ![s] = <<>>]

Next == \E s \in Streams : Clear(s) \/ \E e \in Event : Record(s, e)

Spec == Init /\ [][Next]_log
================================================================================
