------------------------------- MODULE MCAnyFeed -------------------------------
(* AnyFeed against every sequence of MaxInputs events over two block     *)
(* indices and two calls.  Each text carries its own chunk, so that a      *)
(* loss, a repetition or a swap shows.  Some events carry -1, which is     *)
(* also what the markers hold when no block is open.                       *)
EXTENDS AnyFeed

Indices == {0, 1}

(* Block events without an index.                                          *)
MCBare == {[type |-> "content_block_start", block |-> "thinking"],
           [type |-> "content_block_stop"]}

MCChunks ==
  {<<k, i>> : k \in {"text", "thinking", "args", "output"}, i \in Indices \cup {NoBlock}}

MCNoIndex ==
  {BlockStart(NoBlock, "text"), BlockStart(NoBlock, "thinking"),
   BlockDelta(NoBlock, "thinking", <<<<"thinking", NoBlock>>>>), BlockStop(NoBlock),
   ToolUseStart(NoBlock, "a", <<"name", "a">>)}

MCInputs ==
  {BlockStart(i, k) : i \in Indices, k \in {"text", "thinking"}}
    \cup {ToolUseStart(i, id, <<"name", id>>) : i \in Indices, id \in {"a", "b"}}
    \cup {ToolResultStart(i, id) : i \in {1}, id \in {"a", "b"}}
    \cup {BlockDelta(i, k, <<<<k, i>>>>) : i \in Indices, k \in {"text", "thinking"}}
    \cup {ToolInputDelta(i, <<<<"args", i>>>>) : i \in Indices}
    \cup {ToolResultDelta(1, <<<<"output", 1>>>>)}
    \cup {BlockStop(i) : i \in Indices}
    \cup {MessageStart(<<<<"stream", 0>>>>), [type |-> "malformed"]}
    \cup MCBare \cup MCNoIndex
    \cup {BlockStart(1, ""), BlockStart(1, "image")}
================================================================================
