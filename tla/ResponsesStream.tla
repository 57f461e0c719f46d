--------------------------- MODULE ResponsesStream ---------------------------
(***************************************************************************)
(* streamResponsesWithCallbacks (protocol_handlers.go): the emitter that   *)
(* renders a turn as events of the Responses API.  As in AnthropicStream,  *)
(* "view" is the response a client has assembled from the events so far.   *)
(*                                                                         *)
(* The emitter does not advance nextOutputIdx over tool calls: that is     *)
(* right only because CallbackProtocol has nothing but OnDone after them.  *)
(*                                                                         *)
(* Definitions ending in _Bug are the plausible slips the properties are   *)
(* tested against; nothing here uses them.                                 *)
(***************************************************************************)
EXTENDS Integers, Sequences

CONSTANTS
  Chunk,        \* pieces of text or thinking an upstream can send
  MaxDeltas,    \* bound: text and thinking deltas of a turn
  MaxToolCalls  \* bound: calls in one OnToolCalls batch

VARIABLES
  phase,              \* of CallbackProtocol
  thinkingOutputIdx,  \* -1 while thinkingStarted is false
  thinkingBuffer,
  textOutputIdx,      \* -1 while textStarted is false
  textBuffer,
  nextOutputIdx,
  view                \* the response the client has assembled

emitter == <<thinkingOutputIdx, thinkingBuffer, textOutputIdx, textBuffer, nextOutputIdx>>
vars    == <<phase, emitter, view>>

Callbacks == INSTANCE CallbackProtocol

ItemType == {"reasoning", "message", "function_call"}

\* "text" is what the deltas add up to, "final" what the done event says it is.
OutputItem ==
  [type : ItemType, open : BOOLEAN, text : Seq(Chunk), final : Seq(Chunk)]

Response ==
  [items : Seq(OutputItem),
   stray : SUBSET {"added", "delta", "done"},  \* events that fitted no open item
   failed : BOOLEAN,
   status : {"in_progress", "completed"},
   output_text : Seq(Chunk)]

-----------------------------------------------------------------------------
(* A client assembling events.  Items are numbered from 0 on the wire.     *)

IsOpen(v, i) == i + 1 \in DOMAIN v.items /\ v.items[i + 1].open

\* response.output_item.added and the event that adds its one part
ItemAdded(v, i, t) ==
  IF i = Len(v.items)
  THEN [v EXCEPT !.items = Append(@, [type |-> t, open |-> TRUE, text |-> <<>>, final |-> <<>>])]
  ELSE [v EXCEPT !.stray = @ \union {"added"}]

\* response.output_text.delta, response.reasoning_summary_text.delta
TextDelta(v, i, delta) ==
  IF IsOpen(v, i)
  THEN [v EXCEPT !.items[i + 1].text = Append(@, delta)]
  ELSE [v EXCEPT !.stray = @ \union {"delta"}]

\* The done events of the text, of the part and of the item
ItemDone(v, i, text) ==
  IF IsOpen(v, i)
  THEN [v EXCEPT !.items[i + 1].final = text, !.items[i + 1].open = FALSE]
  ELSE [v EXCEPT !.stray = @ \union {"done"}]

\* Added, arguments and done of n calls, from index i on
FunctionCalls(v, i, n) ==
  LET called == [type |-> "function_call", open |-> FALSE, text |-> <<>>, final |-> <<>>]
  IN  IF i = Len(v.items)
      THEN [v EXCEPT !.items = @ \o [k \in 1..n |-> called]]
      ELSE [v EXCEPT !.stray = @ \union {"added"}]

-----------------------------------------------------------------------------

Init ==
  /\ Callbacks!PhaseInit
  /\ thinkingOutputIdx = -1 /\ thinkingBuffer = <<>>
  /\ textOutputIdx = -1 /\ textBuffer = <<>>
  /\ nextOutputIdx = 0
  \* response.created has been written
  /\ view = [items |-> <<>>, stray |-> {}, failed |-> FALSE,
             status |-> "in_progress", output_text |-> <<>>]

More == Len(thinkingBuffer) + Len(textBuffer) < MaxDeltas

\* The item's index is taken but not counted.
OnThinking_Bug(delta) ==
  LET index == IF thinkingOutputIdx = -1 THEN nextOutputIdx ELSE thinkingOutputIdx
      v1 == IF thinkingOutputIdx = -1 THEN ItemAdded(view, index, "reasoning") ELSE view
  IN
  /\ More /\ Callbacks!CallThinking
  /\ thinkingOutputIdx' = index
  /\ thinkingBuffer' = Append(thinkingBuffer, delta)
  /\ view' = TextDelta(v1, index, delta)
  /\ UNCHANGED <<textOutputIdx, textBuffer, nextOutputIdx>>

OnThinking(delta) ==
  LET first == thinkingOutputIdx = -1
      index == IF first THEN nextOutputIdx ELSE thinkingOutputIdx
      v1    == IF first THEN ItemAdded(view, index, "reasoning") ELSE view
  IN
  /\ More /\ Callbacks!CallThinking
  /\ thinkingOutputIdx' = index
  /\ nextOutputIdx' = IF first THEN nextOutputIdx + 1 ELSE nextOutputIdx
  /\ thinkingBuffer' = Append(thinkingBuffer, delta)
  /\ view' = TextDelta(v1, index, delta)
  /\ UNCHANGED <<textOutputIdx, textBuffer>>

\* The delta that opens the item is not buffered.
OnText_Bug(delta) ==
  LET first == textOutputIdx = -1
      index == IF first THEN nextOutputIdx ELSE textOutputIdx
      v1    == IF first THEN ItemAdded(view, index, "message") ELSE view
  IN
  /\ More /\ Callbacks!CallText
  /\ textOutputIdx' = index
  /\ nextOutputIdx' = IF first THEN nextOutputIdx + 1 ELSE nextOutputIdx
  /\ textBuffer' = IF first THEN textBuffer ELSE Append(textBuffer, delta)
  /\ view' = TextDelta(v1, index, delta)
  /\ UNCHANGED <<thinkingOutputIdx, thinkingBuffer>>

OnText(delta) ==
  LET first == textOutputIdx = -1
      index == IF first THEN nextOutputIdx ELSE textOutputIdx
      v1    == IF first THEN ItemAdded(view, index, "message") ELSE view
  IN
  /\ More /\ Callbacks!CallText
  /\ textOutputIdx' = index
  /\ nextOutputIdx' = IF first THEN nextOutputIdx + 1 ELSE nextOutputIdx
  /\ textBuffer' = Append(textBuffer, delta)
  /\ view' = TextDelta(v1, index, delta)
  /\ UNCHANGED <<thinkingOutputIdx, thinkingBuffer>>

OnToolCalls(n) ==
  /\ Callbacks!CallToolCalls
  /\ view' = FunctionCalls(view, nextOutputIdx, n)
  /\ UNCHANGED emitter

\* response.failed
OnError ==
  /\ Callbacks!CallError
  /\ view' = [view EXCEPT !.failed = TRUE]
  /\ UNCHANGED emitter

OnDone ==
  LET v1 == IF thinkingOutputIdx # -1
            THEN ItemDone(view, thinkingOutputIdx, thinkingBuffer) ELSE view
      v2 == IF textOutputIdx # -1 THEN ItemDone(v1, textOutputIdx, textBuffer) ELSE v1
  IN
  /\ Callbacks!CallDone
  \* response.completed, then [DONE]
  /\ view' = [v2 EXCEPT !.status = "completed", !.output_text = textBuffer]
  /\ UNCHANGED emitter

\* The engine could not build its request: the stream ends after response.created.
NoCalls ==
  /\ Callbacks!Abort
  /\ UNCHANGED <<emitter, view>>

Next ==
  \/ \E d \in Chunk : OnThinking(d) \/ OnText(d)
  \/ \E n \in 1..MaxToolCalls : OnToolCalls(n)
  \/ OnError \/ OnDone \/ NoCalls

Spec == Init /\ [][Next]_vars

-----------------------------------------------------------------------------
(* Properties *)

TypeOK ==
  /\ Callbacks!PhaseTypeOK
  /\ thinkingOutputIdx \in Int /\ textOutputIdx \in Int /\ nextOutputIdx \in Nat
  /\ thinkingBuffer \in Seq(Chunk) /\ textBuffer \in Seq(Chunk)
  /\ view \in Response

\* Every event carries the index of an item the client has and that is not done, and
\* every item the index the client expects next, whatever the order of the callbacks.
EventsAddressOpenItems == TypeOK /\ view.stray = {}

\* At response.completed every item that was added has been done, and what the done
\* events and output_text say of a text is what its deltas added up to.
FinalTextIsDeltas ==
  phase = "closed" =>
    /\ view.status = "completed"
    /\ \A i \in DOMAIN view.items :
         /\ ~view.items[i].open
         /\ view.items[i].final = view.items[i].text
         /\ view.items[i].type = "message" => view.items[i].text = view.output_text
    /\ view.output_text # <<>> =>
         \E i \in DOMAIN view.items : view.items[i].type = "message"

=============================================================================
