--------------------------- MODULE AnthropicStream ---------------------------
(***************************************************************************)
(* streamAnthropicWithCallbacks (protocol_handlers.go): the emitter that   *)
(* renders a turn as Anthropic server-sent events.  It is driven by any    *)
(* engine that keeps CallbackProtocol.                                     *)
(*                                                                         *)
(* The emitter keeps three block indices and a stop reason.  What it       *)
(* writes is modelled by what a client makes of it: "view" is the message  *)
(* a client has assembled from the events so far.  A write that fails      *)
(* (the client left) makes every later write fail too, so the events that  *)
(* reach a client are a prefix of the ones modelled here.                  *)
(*                                                                         *)
(* Definitions ending in _Bug are the plausible slips the properties are   *)
(* tested against; nothing here uses them.                                 *)
(***************************************************************************)
EXTENDS Integers, Sequences

CONSTANTS
  Chunk,        \* pieces of text or thinking an upstream can send
  MaxDeltas,    \* bound: text and thinking deltas of a turn
  MaxToolCalls  \* bound: calls in one OnToolCalls batch

ASSUME BoundsAssumption == MaxDeltas \in Nat /\ MaxToolCalls \in Nat

VARIABLES
  phase,          \* of CallbackProtocol
  thinkingIndex,  \* -1: no thinking block yet, -2: the block was stopped
  textIndex,      \* -1: no text block
  nextIndex,      \* index of the next block
  stopReason,     \* the reason message_delta will carry
  view,           \* the message the client has assembled
  sentText,       \* every text delta handed to OnText, in order
  sentThinking    \* every thinking delta handed to OnThinking, in order

emitter == <<thinkingIndex, textIndex, nextIndex, stopReason>>
sent    == <<sentText, sentThinking>>
vars    == <<phase, emitter, view, sent>>

Callbacks == INSTANCE CallbackProtocol

BlockType == {"thinking", "text", "tool_use"}

ContentBlock ==
  [type : BlockType, open : BOOLEAN, content : Seq(Chunk \union {"arguments"})]

Message ==
  [blocks : Seq(ContentBlock),
   stray : SUBSET (BlockType \union {"stop"}),  \* events that fitted no open block
   error : BOOLEAN,
   stop_reason : {"none", "end_turn", "tool_use"}]

-----------------------------------------------------------------------------
(* A client assembling events.  Blocks are numbered from 0 on the wire.    *)

Block(i) == i + 1

IsOpen(v, i) == Block(i) \in DOMAIN v.blocks /\ v.blocks[Block(i)].open

\* content_block_start
BlockStart(v, i, t) ==
  IF i = Len(v.blocks)
  THEN [v EXCEPT !.blocks = Append(@, [type |-> t, open |-> TRUE, content |-> <<>>])]
  ELSE [v EXCEPT !.stray = @ \union {t}]

\* content_block_delta: a delta for a block that is not open is stray
BlockDelta(v, i, t, delta) ==
  IF IsOpen(v, i) /\ v.blocks[Block(i)].type = t
  THEN [v EXCEPT !.blocks[Block(i)].content = Append(@, delta)]
  ELSE [v EXCEPT !.stray = @ \union {t}]

\* content_block_stop
BlockStop(v, i) ==
  IF IsOpen(v, i)
  THEN [v EXCEPT !.blocks[Block(i)].open = FALSE]
  ELSE [v EXCEPT !.stray = @ \union {"stop"}]

\* Start, delta and stop of each of the n tool_use blocks, from index i on.
ToolUseBlocks(v, i, n) ==
  LET called == [type |-> "tool_use", open |-> FALSE, content |-> <<"arguments">>]
  IN  IF i = Len(v.blocks)
      THEN [v EXCEPT !.blocks = @ \o [k \in 1..n |-> called]]
      ELSE [v EXCEPT !.stray = @ \union {"tool_use"}]

-----------------------------------------------------------------------------

Init ==
  /\ Callbacks!PhaseInit
  /\ thinkingIndex = -1 /\ textIndex = -1 /\ nextIndex = 0
  /\ stopReason = "end_turn"
  \* message_start has been written
  /\ view = [blocks |-> <<>>, stray |-> {}, error |-> FALSE, stop_reason |-> "none"]
  /\ sentText = <<>> /\ sentThinking = <<>>

OnThinking(delta) ==
  LET first == thinkingIndex = -1
      index == IF first THEN nextIndex ELSE thinkingIndex
      v1    == IF first THEN BlockStart(view, index, "thinking") ELSE view
  IN
  /\ Len(sentThinking) + Len(sentText) < MaxDeltas
  /\ Callbacks!CallThinking
  /\ thinkingIndex' = index
  /\ nextIndex' = IF first THEN nextIndex + 1 ELSE nextIndex
  /\ view' = BlockDelta(v1, index, "thinking", delta)
  /\ sentThinking' = Append(sentThinking, delta)
  /\ UNCHANGED <<textIndex, stopReason, sentText>>

\* A started thinking block is stopped before anything else is shown.
StopThinking(v) ==
  IF thinkingIndex >= 0 THEN BlockStop(v, thinkingIndex) ELSE v

ThinkingStopped == IF thinkingIndex >= 0 THEN -2 ELSE thinkingIndex

StopText(v) == IF textIndex # -1 THEN BlockStop(v, textIndex) ELSE v

OnText(delta) ==
  LET first == textIndex = -1
      index == IF first THEN nextIndex ELSE textIndex
      v1    == StopThinking(view)
      v2    == IF first THEN BlockStart(v1, index, "text") ELSE v1
  IN
  /\ Len(sentThinking) + Len(sentText) < MaxDeltas
  /\ Callbacks!CallText
  /\ thinkingIndex' = ThinkingStopped
  /\ textIndex' = index
  /\ nextIndex' = IF first THEN nextIndex + 1 ELSE nextIndex
  /\ view' = BlockDelta(v2, index, "text", delta)
  /\ sentText' = Append(sentText, delta)
  /\ UNCHANGED <<stopReason, sentThinking>>

\* The text block is stopped but still remembered.
OnToolCalls_Bug(n) ==
  /\ Callbacks!CallToolCalls
  /\ thinkingIndex' = ThinkingStopped
  /\ nextIndex' = nextIndex + n
  /\ stopReason' = "tool_use"
  /\ view' = ToolUseBlocks(StopText(StopThinking(view)), nextIndex, n)
  /\ UNCHANGED <<textIndex, sent>>

OnToolCalls(n) ==
  /\ Callbacks!CallToolCalls
  /\ thinkingIndex' = ThinkingStopped
  /\ textIndex' = -1
  /\ nextIndex' = nextIndex + n
  /\ stopReason' = "tool_use"
  /\ view' = ToolUseBlocks(StopText(StopThinking(view)), nextIndex, n)
  /\ UNCHANGED sent

OnError ==
  /\ Callbacks!CallError
  /\ view' = [view EXCEPT !.error = TRUE]
  /\ UNCHANGED <<emitter, sent>>

\* A thinking block that is still open is not stopped.
OnDone_Bug ==
  /\ Callbacks!CallDone
  /\ view' = [StopText(view) EXCEPT !.stop_reason = stopReason]
  /\ UNCHANGED <<emitter, sent>>

OnDone ==
  /\ Callbacks!CallDone
  \* message_delta, then message_stop
  /\ view' = [StopText(StopThinking(view)) EXCEPT !.stop_reason = stopReason]
  /\ UNCHANGED <<emitter, sent>>

\* The engine could not build its request: the stream ends after message_start.
NoCalls ==
  /\ Callbacks!Abort
  /\ UNCHANGED <<emitter, view, sent>>

Next ==
  \/ \E d \in Chunk : OnThinking(d) \/ OnText(d)
  \/ \E n \in 1..MaxToolCalls : OnToolCalls(n)
  \/ OnError \/ OnDone \/ NoCalls

Spec == Init /\ [][Next]_vars

-----------------------------------------------------------------------------
(* Properties *)

TypeOK ==
  /\ Callbacks!PhaseTypeOK
  /\ thinkingIndex \in Int /\ textIndex \in Int
  /\ nextIndex \in Nat
  /\ stopReason \in {"end_turn", "tool_use"}
  /\ view \in Message
  /\ sentText \in Seq(Chunk) /\ sentThinking \in Seq(Chunk)

BlocksOf(t) == {i \in DOMAIN view.blocks : view.blocks[i].type = t}

\* Every block start has the index the client expects next, every stop and every
\* text or tool delta addresses a block that is open and of its type: the indices
\* the emitter remembers are never stale, whatever the order of the callbacks.
EventsAddressOpenBlocks == view.stray \subseteq {"thinking"}

\* The client's one text block holds exactly the text the engine handed to OnText,
\* in order: nothing is lost, repeated or split over two blocks when thinking,
\* errors and tool calls are interleaved with it.
TextDelivered ==
  /\ sentText = <<>> => BlocksOf("text") = {}
  /\ sentText # <<>> =>
       \E i \in DOMAIN view.blocks :
         /\ BlocksOf("text") = {i}
         /\ view.blocks[i].content = sentText

\* When message_stop is written no block is left open, and stop_reason says
\* tool_use exactly when the message holds a tool call.
CleanEnd ==
  phase = "closed" =>
    /\ \A i \in DOMAIN view.blocks : ~view.blocks[i].open
    /\ (view.stop_reason = "tool_use") <=> (BlocksOf("tool_use") # {})
    /\ view.stop_reason # "none"

=============================================================================
