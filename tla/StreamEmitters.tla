---------------------------- MODULE StreamEmitters ----------------------------
(***************************************************************************)
(* The three emitters side by side: one turn of an engine, rendered for a  *)
(* client of each protocol.  A turn has one client in the program; the     *)
(* three are given the same callbacks here so that what their clients make *)
(* of them can be compared.                                                *)
(***************************************************************************)
EXTENDS AnthropicStream, FiniteSets

VARIABLES
  chunks,             \* the chat client's message
  thinkingOutputIdx, thinkingBuffer, textOutputIdx, textBuffer, nextOutputIdx,
  response            \* the Responses client's

responsesEmitter ==
  <<thinkingOutputIdx, thinkingBuffer, textOutputIdx, textBuffer, nextOutputIdx>>
allVars == <<vars, chunks, responsesEmitter, response>>

Chat      == INSTANCE ChatEvents WITH view <- chunks
Responses == INSTANCE ResponsesStream WITH view <- response

-----------------------------------------------------------------------------

EmittersInit == Init /\ Chat!Init /\ Responses!Init

Thinking(d) == OnThinking(d) /\ Chat!OnThinking(d) /\ Responses!OnThinking(d)
Text(d)     == OnText(d) /\ Chat!OnText(d) /\ Responses!OnText(d)
ToolCalls(n) == OnToolCalls(n) /\ Chat!OnToolCalls(n) /\ Responses!OnToolCalls(n)
Error       == OnError /\ Chat!OnError /\ Responses!OnError
Done        == OnDone /\ Chat!OnDone /\ Responses!OnDone
Nothing     == NoCalls /\ Chat!NoCalls /\ Responses!NoCalls

EmittersNext ==
  \/ \E d \in Chunk : Thinking(d) \/ Text(d)
  \/ \E n \in 1..MaxToolCalls : ToolCalls(n)
  \/ Error \/ Done \/ Nothing

EmittersSpec == EmittersInit /\ [][EmittersNext]_allVars

-----------------------------------------------------------------------------
(* Properties *)

EmittersTypeOK == TypeOK /\ Chat!TypeOK /\ Responses!TypeOK

\* What the Anthropic client has in its blocks of type t, and the Responses client in
\* its items of type t.
InBlocks(t) == [i \in BlocksOf(t) |-> view.blocks[i].content]
ItemsOf(t)  == {i \in DOMAIN response.items : response.items[i].type = t}
InItems(t)  == [i \in ItemsOf(t) |-> response.items[i].text]

\* All of the text is in one of the parts, the only one; without text there is no part.
Whole(parts, text) ==
  IF text = <<>> THEN DOMAIN parts = {}
  ELSE \E i \in DOMAIN parts : DOMAIN parts = {i} /\ parts[i] = text

\* The clients of the three protocols are told the same of a turn: the same text in the
\* same order, and all of it in one block or item, the same number of tool calls, that
\* there was an error, and, at the end, that it stopped for tools.  They have the same
\* thinking unless thinking came after text, which an Anthropic client is not shown.
ClientsAgree ==
  /\ Whole(InBlocks("text"), chunks.content) /\ Whole(InItems("message"), chunks.content)
  /\ Whole(InItems("reasoning"), chunks.reasoning_content)
  /\ view.stray = {} => Whole(InBlocks("thinking"), chunks.reasoning_content)
  /\ \A reported \in {BlocksOf("tool_use"), ItemsOf("function_call")} :
       Cardinality(reported) = chunks.tool_calls
  /\ view.error = chunks.error /\ response.failed = chunks.error
  /\ phase = "closed" =>
       /\ chunks.done /\ response.status = "completed"
       /\ view.stop_reason = "tool_use" <=> chunks.finish_reason = "tool_calls"

\* Every event of the Responses API carries the index of an item the client has and that
\* is not done, and every item the index the client expects next.
EventsAddressOpenItems == EmittersTypeOK /\ Responses!EventsAddressOpenItems

\* At response.completed the done events and output_text say what the deltas added up to.
FinalTextIsDeltas == Responses!FinalTextIsDeltas

=============================================================================
