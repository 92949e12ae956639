------------------------------ MODULE Reassembler ------------------------------
(***************************************************************************)
(* Reassemble (reassemble.go): one loop that pulls events from a Source    *)
(* and rebuilds the turn.  The operators are the handlers of type          *)
(* reassembler, each from the state before an event to the state after it; *)
(* the actions are the iterations of the loop.                             *)
(*                                                                         *)
(* AnyFeed closes this module with a source that hands out any events at   *)
(* all; RoundTrip feeds it with what the Adapter emits.                    *)
(***************************************************************************)
EXTENDS Wire, Integers, SequencesExt

CONSTANT EmptyInput   \* the text "{}" of a tool call without input

VARIABLES
  r,      \* the reassembler, with the ParsedStream it builds
  loop,   \* "running" or "returned"
  seen    \* history: the events handled so far

rvars == <<r, loop, seen>>

NoBlock == -1

NewReassembler ==
  [stream        |-> EmptyText,
   toolNames     |-> <<>>,
   tools         |-> <<>>,          \* finished tool_use blocks
   executions    |-> <<>>,
   timeline      |-> <<>>,
   text          |-> EmptyText,     \* result.Text, set by finalize
   thinking      |-> EmptyText,     \* result.Thinking, set by finalize
   error         |-> FALSE,
   curText       |-> EmptyText, allText     |-> EmptyText,
   curThinking   |-> EmptyText, allThinking |-> EmptyText,
   inflight      |-> <<>>,          \* the tools map: index to tool_use in progress
   results       |-> <<>>,          \* the results map
   thinkingIndex |-> NoBlock,
   textIndex     |-> NoBlock]

(* delete(m, i) and m[i] = v of a Go map, as functions.                    *)
Without(m, i) == [j \in DOMAIN m \ {i} |-> m[j]]
With(m, i, v) == [j \in DOMAIN m \cup {i} |-> IF j = i THEN v ELSE m[j]]

--------------------------------------------------------------------------------
(* Segments: an open text or thinking run becomes one timeline item.       *)
closeTextBlock(s) ==
  IF s.curText = EmptyText
    THEN [s EXCEPT !.textIndex = NoBlock]
    ELSE [s EXCEPT !.textIndex = NoBlock,
                   !.curText   = EmptyText,
                   !.allText   = @ \o s.curText,
                   !.timeline  = Append(@, [kind |-> "text", text |-> s.curText])]

closeThinkingKeepsIndex(s) ==
  IF s.curThinking = EmptyText THEN s
  ELSE [s EXCEPT !.curThinking = EmptyText,
                 !.allThinking = @ \o s.curThinking,
                 !.timeline    = Append(@, [kind |-> "thinking", text |-> s.curThinking])]

closeThinkingKeepsParts(s) ==
  IF s.curThinking = EmptyText
    THEN [s EXCEPT !.thinkingIndex = NoBlock]
    ELSE [s EXCEPT !.thinkingIndex = NoBlock,
                   !.allThinking   = @ \o s.curThinking,
                   !.timeline      = Append(@, [kind |-> "thinking", text |-> s.curThinking])]

closeThinkingBlock(s) ==
  IF s.curThinking = EmptyText
    THEN [s EXCEPT !.thinkingIndex = NoBlock]
    ELSE [s EXCEPT !.thinkingIndex = NoBlock,
                   !.curThinking   = EmptyText,
                   !.allThinking   = @ \o s.curThinking,
                   !.timeline      = Append(@, [kind |-> "thinking", text |-> s.curThinking])]

(* The ToolCall of a tool_use block in progress.                           *)
calledRaw(t) == [name |-> t.name, id |-> t.id, params |-> t.params]

called(t) ==
  [name   |-> t.name,
   id     |-> t.id,
   params |-> IF t.params = EmptyText THEN EmptyInput ELSE t.params]

finalizeTool(s, t) == [s EXCEPT !.tools = Append(@, called(t))]

(* The first call with the result's tool_use_id, and the result with it.   *)
executionOfLast(tools, res) ==
  [name |-> Last(tools).name, id |-> res.id, params |-> Last(tools).params,
   result |-> res.text]

execution(tools, res) ==
  LET matches == {i \in DOMAIN tools : tools[i].id = res.id}
      tool    == tools[CHOOSE i \in matches : \A j \in matches : i <= j]
  IN  [name |-> tool.name, id |-> res.id, params |-> tool.params, result |-> res.text]

ToolItem(exec) == [kind |-> "tool", exec |-> exec]

(* A result without a call is dropped.                                     *)
finalizeResultFabricating(s, res) ==
  [s EXCEPT !.executions = Append(@, [name |-> EmptyText, id |-> res.id,
                                      params |-> EmptyText, result |-> res.text])]

finalizeResult(s, res) ==
  IF \A i \in DOMAIN s.tools : s.tools[i].id # res.id
    THEN s
    ELSE LET exec == execution(s.tools, res)
         IN  [s EXCEPT !.executions = Append(@, exec),
                       !.timeline   = Append(@, ToolItem(exec))]

(* flushAll ranges over two Go maps, in whatever order: torder and rorder  *)
(* are the orders in which the tool_use blocks left open, and the results  *)
(* left open that have a call, come up.                                    *)
flushAllKeepsMaps(s, torder, rorder) ==
  LET closed == closeThinkingBlock(closeTextBlock(s))
      tools  == closed.tools \o [k \in DOMAIN torder |-> called(s.inflight[torder[k]])]
      execs  == [k \in DOMAIN rorder |-> execution(tools, s.results[rorder[k]])]
  IN  [closed EXCEPT !.tools      = tools,
                     !.executions = @ \o execs,
                     !.timeline   = @ \o [k \in DOMAIN rorder |-> ToolItem(execs[k])]]

flushAll(s, torder, rorder) ==
  LET closed == closeThinkingBlock(closeTextBlock(s))
      tools  == closed.tools \o [k \in DOMAIN torder |-> called(s.inflight[torder[k]])]
      execs  == [k \in DOMAIN rorder |-> execution(tools, s.results[rorder[k]])]
  IN  [closed EXCEPT !.tools      = tools,
                     !.executions = @ \o execs,
                     !.timeline   = @ \o [k \in DOMAIN rorder |-> ToolItem(execs[k])],
                     !.inflight   = <<>>,
                     !.results    = <<>>]

finalizeJoinsFirst(s, torder, rorder) ==
  [flushAll(s, torder, rorder) EXCEPT !.text = s.allText, !.thinking = s.allThinking]

finalize(s, torder, rorder) ==
  LET f == flushAll(s, torder, rorder)
  IN  [f EXCEPT !.text = f.allText, !.thinking = f.allThinking]

--------------------------------------------------------------------------------
(* Handlers.  An event is decoded first: a content_block event that came   *)
(* without an index gets Go's zero value.                                  *)
decoded(e) ==
  IF "index" \in DOMAIN e THEN e
  ELSE [f \in DOMAIN e \cup {"index"} |-> IF f = "index" THEN 0 ELSE e[f]]

(* A block of no type counts as text; one of an unknown type is dropped.   *)
onContentBlockStart(s, e) ==
  CASE e.block = "tool_use" ->
         LET c == closeThinkingBlock(closeTextBlock(s))
         IN  [c EXCEPT !.toolNames = Append(@, e.name),
                       !.inflight  = With(@, e.index, [name |-> e.name, id |-> e.id,
                                                       params |-> EmptyText])]
    [] e.block = "tool_result" ->
         LET c == closeThinkingBlock(closeTextBlock(s))
         IN  [c EXCEPT !.results = With(@, e.index, [id |-> e.id, text |-> EmptyText])]
    [] e.block \in {"text", ""} ->
         [closeTextBlock(closeThinkingBlock(s)) EXCEPT !.textIndex = e.index]
    [] e.block = "thinking" ->
         [closeThinkingBlock(closeTextBlock(s)) EXCEPT !.thinkingIndex = e.index]
    [] OTHER -> s

(* A text delta goes to the open text run whatever its index says.         *)
handleTextDeltaIndexed(s, e) ==
  IF e.index = s.textIndex THEN [s EXCEPT !.curText = @ \o e.text] ELSE s

handleTextDelta(s, e) == [s EXCEPT !.curText = @ \o e.text]

handleThinkingDelta(s, e) ==
  IF e.index = s.thinkingIndex THEN [s EXCEPT !.curThinking = @ \o e.text] ELSE s

onContentBlockDelta(s, e) ==
  CASE e.block = "text"     -> handleTextDelta(s, e)
    [] e.block = "thinking" -> handleThinkingDelta(s, e)
    [] e.block = "tool_use" /\ e.index \in DOMAIN s.inflight ->
         [s EXCEPT !.inflight[e.index].params = @ \o e.text]
    [] e.block = "tool_result" /\ e.index \in DOMAIN s.results ->
         [s EXCEPT !.results[e.index].text = @ \o e.text]
    [] OTHER -> s

onContentBlockStop(s, e) ==
  CASE e.index \in DOMAIN s.inflight ->
         [finalizeTool(s, s.inflight[e.index]) EXCEPT !.inflight = Without(@, e.index)]
    [] e.index \notin DOMAIN s.inflight /\ e.index \in DOMAIN s.results ->
         [finalizeResult(s, s.results[e.index]) EXCEPT !.results = Without(@, e.index)]
    [] OTHER -> IF e.index = s.textIndex THEN closeTextBlock(s)
                ELSE IF e.index = s.thinkingIndex THEN closeThinkingBlock(s)
                ELSE s

(* handleEvent for everything but message_stop; a malformed event, a ping  *)
(* and a message_delta leave the state alone.                              *)
handleEvent(s, e) ==
  CASE e.type = "message_start"       -> [s EXCEPT !.stream = e.stream]
    [] e.type = "content_block_start" -> onContentBlockStart(s, decoded(e))
    [] e.type = "content_block_delta" -> onContentBlockDelta(s, decoded(e))
    [] e.type = "content_block_stop"  -> onContentBlockStop(s, decoded(e))
    [] OTHER                          -> s

--------------------------------------------------------------------------------
(* The loop.                                                               *)
RInit == r = NewReassembler /\ loop = "running" /\ seen = <<>>

(* Every order in which the two maps may be walked.  By the time results   *)
(* come up the tools left open are calls too.                              *)
Answered(s) ==
  {i \in DOMAIN s.results : \/ \E k \in DOMAIN s.tools : s.tools[k].id = s.results[i].id
                            \/ \E k \in DOMAIN s.inflight : s.inflight[k].id = s.results[i].id}

Finalized(s) ==
  {finalize(s, torder, rorder) : torder \in SetToSeqs(DOMAIN s.inflight),
                                 rorder \in SetToSeqs(Answered(s))}

(* Next returned an event other than message_stop.                         *)
Handle(e) ==
  /\ loop = "running"
  /\ e.type # "message_stop"
  /\ r' = handleEvent(r, e)
  /\ seen' = Append(seen, e)
  /\ UNCHANGED loop

(* message_stop: handled by finalize, and the loop returns.                *)
HandleStop ==
  /\ loop = "running"
  /\ r' \in Finalized(r)
  /\ seen' = Append(seen, MessageStop)
  /\ loop' = "returned"

(* Next failed: ErrNoMoreEvents ends the turn, any other error is recorded.*)
SourceEnds(err) ==
  /\ loop = "running"
  /\ r' \in Finalized([r EXCEPT !.error = err])
  /\ loop' = "returned"
  /\ UNCHANGED seen

--------------------------------------------------------------------------------
(* The text deltas among some events, joined, and what the items of one    *)
(* kind on a timeline join to.                                             *)
IsTextDelta(e) == IsDelta(e) /\ e.block = "text"

SpokenText(q) ==
  FlattenSeq([i \in DOMAIN q |-> IF IsTextDelta(q[i]) THEN q[i].text ELSE EmptyText])

ItemText(q, kind) ==
  FlattenSeq([i \in DOMAIN q |-> IF q[i].kind = kind THEN q[i].text ELSE EmptyText])

ItemExecutions(q) ==
  FlattenSeq([i \in DOMAIN q |-> IF q[i].kind = "tool" THEN <<q[i].exec>> ELSE <<>>])

(* A start that onContentBlockStart acts on, and: after the last of them   *)
(* came a thinking delta at this index.                                    *)
OpensBlock(e) ==
  IsStart(e) /\ e.block \in {"text", "", "thinking", "tool_use", "tool_result"}

FedSinceStart(q, index) ==
  \E j \in DOMAIN q :
    /\ IsDelta(q[j]) /\ q[j].block = "thinking" /\ decoded(q[j]).index = index
    /\ \A k \in DOMAIN q : k > j => ~OpensBlock(q[k])

(* The indices of in-flight blocks and the two open-block markers agree    *)
(* with the types of reassembler.                                          *)
RTypeOK ==
  /\ loop \in {"running", "returned"}
  /\ DOMAIN r.inflight \subseteq Int /\ DOMAIN r.results \subseteq Int
  /\ r.thinkingIndex \in Int /\ r.textIndex \in Int
  /\ r.error \in BOOLEAN
  /\ \A i \in DOMAIN r.timeline : IsTimelineItem(r.timeline[i])
  /\ loop = "returned" => r.inflight = <<>> /\ r.results = <<>>

(* Whatever arrives, in whatever order, every text delta handled is in the *)
(* returned Text, once and in arrival order (handleTextDelta checks no     *)
(* index): a lost start or stop never costs text.                          *)
TextConserved ==
  loop = "returned" => r.text = SpokenText(seen)

(* The timeline is the turn: its text items join to Text, its thinking     *)
(* items to Thinking, and its tool items are exactly Executions, in order. *)
TimelineIsTurn ==
  loop = "returned" =>
    /\ r.text = ItemText(r.timeline, "text")
    /\ r.thinking = ItemText(r.timeline, "thinking")
    /\ r.executions = ItemExecutions(r.timeline)

(* Text and thinking are never marked open at once, and a thinking run     *)
(* belongs to the marked index, fed since the last block started: thinking *)
(* cannot leak into a later block.  With no thinking block open only a     *)
(* delta at index -1, the marker's "no block", can begin such a run        *)
(* (handleThinkingDelta takes it for the open block's).                    *)
OneOpenRun ==
  /\ ~(r.textIndex # NoBlock /\ r.thinkingIndex # NoBlock)
  /\ r.curThinking # EmptyText => FedSinceStart(seen, r.thinkingIndex)

(* No event invents a call: every finished tool and every execution stems  *)
(* from a tool_use start that was handled, with that start's name.         *)
NothingInvented ==
  /\ \A i \in DOMAIN r.tools :
       \E j \in DOMAIN seen :
         /\ IsStart(seen[j]) /\ seen[j].block = "tool_use"
         /\ seen[j].id = r.tools[i].id /\ seen[j].name = r.tools[i].name
  /\ \A i \in DOMAIN r.executions :
       \E k \in DOMAIN r.tools :
         /\ r.tools[k].id = r.executions[i].id
         /\ r.tools[k].name = r.executions[i].name
         /\ r.tools[k].params = r.executions[i].params
================================================================================
