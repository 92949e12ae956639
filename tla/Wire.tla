--------------------------------- MODULE Wire ----------------------------------
(***************************************************************************)
(* The events of one streamed turn, as the Send* methods of Publisher      *)
(* build them (publisher.go, types.go).  A string is a sequence of chunks, *)
(* so <<>> is "" and \o is concatenation; JSON and the EventType names are *)
(* abstracted to record fields.  Fields nothing downstream reads (model,   *)
(* usage, is_error) are left out.                                          *)
(***************************************************************************)
EXTENDS Naturals, Sequences

EmptyText == <<>>

MessageStart(stream) == [type |-> "message_start", stream |-> stream]

Ping == [type |-> "ping"]

MessageDelta(reason) == [type |-> "message_delta", reason |-> reason]

MessageStop == [type |-> "message_stop"]

(* content_block_start of a text or thinking block.                        *)
BlockStart(index, kind) ==
  [type |-> "content_block_start", index |-> index, block |-> kind]

ToolUseStart(index, id, name) ==
  [type |-> "content_block_start", index |-> index, block |-> "tool_use",
   id |-> id, name |-> name]

ToolResultStart(index, id) ==
  [type |-> "content_block_start", index |-> index, block |-> "tool_result", id |-> id]

(* content_block_delta of a text (text_delta) or thinking block            *)
(* (thinking_delta).                                                       *)
BlockDelta(index, kind, text) ==
  [type |-> "content_block_delta", index |-> index, block |-> kind, text |-> text]

ToolInputDelta(index, json) ==
  [type |-> "content_block_delta", index |-> index, block |-> "tool_use", text |-> json]

ToolResultDelta(index, text) ==
  [type |-> "content_block_delta", index |-> index, block |-> "tool_result", text |-> text]

BlockStop(index) == [type |-> "content_block_stop", index |-> index]

IsStart(e) == e.type = "content_block_start"
IsDelta(e) == e.type = "content_block_delta"
IsStop(e)  == e.type = "content_block_stop"

StopReasons == {"end_turn", "tool_use", "max_tokens"}

(* The *Data types: an event has exactly the fields of its type, and a     *)
(* block event those of its block.                                         *)
IsWireEvent(e) ==
  CASE e.type = "message_start"          -> DOMAIN e = {"type", "stream"}
    [] e.type \in {"ping", "message_stop"} -> DOMAIN e = {"type"}
    [] e.type = "message_delta"          -> DOMAIN e = {"type", "reason"}
                                            /\ e.reason \in StopReasons
    [] IsStart(e) ->
         /\ e.index \in Nat
         /\ \/ e.block \in {"text", "thinking"} /\ DOMAIN e = {"type", "index", "block"}
            \/ e.block = "tool_use" /\ DOMAIN e = {"type", "index", "block", "id", "name"}
            \/ e.block = "tool_result" /\ DOMAIN e = {"type", "index", "block", "id"}
    [] IsDelta(e) ->
         /\ DOMAIN e = {"type", "index", "block", "text"}
         /\ e.index \in Nat /\ e.block \in {"text", "thinking", "tool_use", "tool_result"}
    [] IsStop(e) -> DOMAIN e = {"type", "index"} /\ e.index \in Nat
    [] OTHER -> FALSE

(* TimelineItem: a text or thinking segment, or a ToolExecution.           *)
IsTimelineItem(x) ==
  \/ x.kind \in {"text", "thinking"} /\ DOMAIN x = {"kind", "text"}
  \/ /\ x.kind = "tool" /\ DOMAIN x = {"kind", "exec"}
     /\ DOMAIN x.exec = {"name", "id", "params", "result"}

(* SendToolUseBlock and SendToolResultBlock: the three events of a block.  *)
ToolUseBlock(index, id, name, input) ==
  <<ToolUseStart(index, id, name), ToolInputDelta(index, input), BlockStop(index)>>

ToolResultBlock(index, id, text) ==
  <<ToolResultStart(index, id), ToolResultDelta(index, text), BlockStop(index)>>

StreamPreamble(stream) == <<MessageStart(stream), Ping>>

StreamEpilogue(reason) == <<MessageDelta(reason), MessageStop>>

(* Publisher.Publish, inside a call c: wire is what the sink has let       *)
(* through, left how many more events it takes, ok whether all went well.  *)
(* leak is what MultiSink warns of: an error although the event reached    *)
(* the wire.  Once an event has failed the call returns.                   *)
Emit(c, e) ==
  CASE ~c.ok                -> c
    [] c.ok /\ c.left > 0   -> [c EXCEPT !.wire = Append(@, e), !.left = @ - 1]
    [] c.ok /\ c.left = 0   -> [c EXCEPT !.ok = FALSE,
                                         !.wire = IF c.leak THEN Append(@, e) ELSE @]
================================================================================
