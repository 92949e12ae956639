-------------------------------- MODULE AnyFeed --------------------------------
(***************************************************************************)
(* Reassemble fed with any events, in any order: what it must withstand of *)
(* a lossy, reordering or foreign producer.  The source ends the turn with *)
(* message_stop, with ErrNoMoreEvents or with another error, at any time.  *)
(***************************************************************************)
EXTENDS Reassembler

CONSTANTS Inputs,      \* events the source may hand out
          Chunks,      \* pieces texts are made of
          MaxInputs    \* bound: events before the end of the turn

(* An event other than message_stop, with the fields json.Unmarshal finds  *)
(* (or fills in) for its type; an index is any number, no one checks it.   *)
IsInput(e) ==
  /\ e.type # "message_stop"
  /\ "index" \in DOMAIN e => e.index \in Int
  /\ IsStart(e) => "block" \in DOMAIN e
  /\ IsStart(e) /\ e.block = "tool_use" => {"id", "name"} \subseteq DOMAIN e
  /\ IsStart(e) /\ e.block = "tool_result" => "id" \in DOMAIN e
  /\ IsDelta(e) => {"block", "text"} \subseteq DOMAIN e /\ e.text \in Seq(Chunks)

ASSUME InputAssumption == MaxInputs \in Nat /\ \A e \in Inputs : IsInput(e)

Next ==
  \/ \E e \in Inputs : Len(seen) < MaxInputs /\ Handle(e)
  \/ HandleStop
  \/ \E err \in BOOLEAN : SourceEnds(err)

Spec == RInit /\ [][Next]_rvars
================================================================================
