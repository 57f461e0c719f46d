------------------------------ MODULE ChatStream ------------------------------
(***************************************************************************)
(* streamChatCompletion (stream_helpers.go): the engine that reads a chat  *)
(* completion from the upstream line by line, lets the detector find a     *)
(* soft tool call in it, and calls the functions of a chatStreamCallbacks  *)
(* value.                                                                  *)
(*                                                                         *)
(* Each turn of the read loop is one action.  It puts the callbacks it     *)
(* makes in "pending", and Deliver makes them one by one, because a client *)
(* sees each of them.  The upstream is free: it sends any text in any      *)
(* chunks between lines that carry none, ends the stream with or without a *)
(* last newline, fails, or stays silent.                                   *)
(*                                                                         *)
(* In the tool text a character stands for what the parsers tell apart: a  *)
(* call, a closing tag, a line of Markdown.  Left out of it: think blocks, *)
(* which are removed before parsing, a second trigger, and that a fence    *)
(* with tildes does not close a block opened with backquotes.              *)
(*                                                                         *)
(* Definitions ending in _Bug are the plausible slips the properties are   *)
(* tested against; nothing here uses them.                                 *)
(***************************************************************************)
EXTENDS StreamingFunctionCallDetector, FiniteSetsExt, SequencesExt

CONSTANTS
  Plain,         \* the characters sent outside tool text
  CallOf,        \* what stands for a call: its format, and whether it passes validation
  EndTag,        \* </function_calls>, or </TOOL_CALL> or </TOOL_CALLS>
  BlockOpener,   \* the line that opens a Markdown block: a fence and mbtoolcalls
  FenceLine      \* a line that is a fence and nothing else

Formats == {"xml", "sentinel_json", "markdown_block"}

Sent == Plain \union DOMAIN CallOf \union {EndTag, BlockOpener, FenceLine}

ASSUME TurnAssumption ==
  /\ Sent \subseteq Char
  /\ CallOf \in [DOMAIN CallOf -> [format : Formats, valid : BOOLEAN]]

VARIABLES
  pc,            \* where streamChatCompletion is
  protocolName,  \* of softTool; "none" when softTool is nil
  eof,           \* the reader has returned io.EOF with a line
  cancelled,     \* the client left: r.Context() is done
  pending,       \* callbacks this turn of the loop still has to make
  calls,         \* kinds of the callbacks made, repeated text or thinking merged
  shown          \* the text handed to OnText, in order

delivered == <<calls, shown>>
vars == <<pc, protocolName, eof, cancelled, pending, delivered, detectorVars>>

hasFunctionCall == protocolName # "none"

Text(t)  == [kind |-> "text", text |-> t]
Call(k)  == [kind |-> k, text |-> <<>>]

\* OnText is only called with something to show.
TextIfAny(t) == IF t = <<>> THEN <<>> ELSE <<Text(t)>>

-----------------------------------------------------------------------------
(* parseSoftToolCalls over the tool text                                   *)

Before(t, c) == SubSeq(t, 1, SelectInSeq(t, LAMBDA x : x = c) - 1)
Behind(t, c) == Rest(t, SelectInSeq(t, LAMBDA x : x = c))

IsCall(x, format) == x \in DOMAIN CallOf /\ CallOf[x].format = format
CallsIn(t, format) == SelectSeq(t, LAMBDA x : IsCall(x, format))

\* extractMarkdownToolPayload: from the opener, or from the trigger the text begins
\* with, to the first fence, be it a line of an argument's value.
MarkdownText(t) == Behind(Rest(t, Len(Trigger)), BlockOpener)
HasPayload(t)   == FenceLine \in Range(MarkdownText(t))
Payload(t)      == Before(MarkdownText(t), FenceLine)

HasCompleteToolTurn(t) ==
  IF protocolName = "markdown_block" THEN HasPayload(t) ELSE EndTag \in Range(t)

\* A block without calls falls back to every call there is.
XMLCalls(t) ==
  IF EndTag \in Range(t) /\ CallsIn(Before(t, EndTag), "xml") # <<>>
  THEN CallsIn(Before(t, EndTag), "xml")
  ELSE CallsIn(t, "xml")

\* Nothing is read that has no end.
SentinelCalls(t) ==
  IF EndTag \in Range(t) THEN CallsIn(Before(t, EndTag), "sentinel_json") ELSE <<>>

\* A payload begins with a call; what follows one is part of its arguments.
PayloadCalls(t) ==
  IF HasPayload(t) /\ Payload(t) # <<>> /\ IsCall(Head(Payload(t)), "markdown_block")
  THEN CallsIn(Payload(t), "markdown_block")
  ELSE <<>>

\* The Markdown parser reads the other formats, too.
MarkdownCalls(t) ==
  IF PayloadCalls(t) # <<>> THEN PayloadCalls(t)
  ELSE IF SentinelCalls(t) # <<>> THEN SentinelCalls(t)
  ELSE XMLCalls(t)

ParsedCalls(t) ==
  CASE protocolName = "markdown_block" -> MarkdownCalls(t)
    [] protocolName = "sentinel_json"  -> SentinelCalls(t)
    [] OTHER                           -> XMLCalls(t)

\* The callback that reports the outcome: one invalid call spoils all.
Outcome(t) ==
  IF ParsedCalls(t) = <<>> \/ \E call \in Range(ParsedCalls(t)) : ~CallOf[call].valid
  THEN Call("error")
  ELSE Call("tools")

-----------------------------------------------------------------------------

Init ==
  /\ pc = "build" /\ protocolName \in Formats \union {"none"}
  /\ eof = FALSE /\ cancelled = FALSE
  /\ pending = <<>> /\ calls = <<>> /\ shown = <<>>
  /\ DetectorInit

\* What every step of the engine starts from: the callbacks so far have returned.
At(label) == pc = label /\ pending = <<>>

\* json.Marshal or http.NewRequest fails, or the request is ready.
Build ==
  /\ At("build")
  /\ pc' \in {"connect", "returned"}
  /\ UNCHANGED <<protocolName, eof, cancelled, pending, delivered, detectorVars>>

\* client.Do fails (also because the client left), or the status is not 200.
ConnectFails ==
  /\ At("connect")
  /\ pc' = "returned"
  /\ pending' = <<Call("error"), Call("done")>>
  /\ UNCHANGED <<protocolName, eof, cancelled, delivered, detectorVars>>

Connected ==
  /\ At("connect")
  /\ pc' = "read"
  /\ UNCHANGED <<protocolName, eof, cancelled, pending, delivered, detectorVars>>

\* The last line came without a newline: the next read returns only io.EOF.
MoreLines == At("read") /\ ~eof

\* The read is tried again.
ReadError_RetryBug ==
  /\ MoreLines
  /\ UNCHANGED vars

\* A read fails with something other than io.EOF: the connection broke, or the
\* client left.
ReadError ==
  /\ MoreLines
  /\ pc' = "finalise"
  /\ pending' = <<Call("error")>>
  /\ UNCHANGED <<protocolName, eof, cancelled, delivered, detectorVars>>

EndOfStream ==
  /\ At("read")
  /\ pc' = "finalise"
  /\ UNCHANGED <<protocolName, eof, cancelled, pending, delivered, detectorVars>>

\* A line that is not "data:", is empty or [DONE], or is no JSON.
SkippedLine(last) ==
  /\ MoreLines
  /\ pc' = IF last THEN "finalise" ELSE "read"
  /\ eof' = last
  /\ UNCHANGED <<protocolName, cancelled, pending, delivered, detectorVars>>

\* The line's delta_thinking, if it has one, comes before its content.
Thinking(t) == IF t THEN <<Call("thinking")>> ELSE <<>>

\* No soft tools: content is shown as it comes.
PlainChunk(delta, thinking, last) ==
  /\ MoreLines /\ ~hasFunctionCall
  /\ fed' = fed \o delta
  /\ pending' = Thinking(thinking) \o TextIfAny(delta)
  /\ pc' = IF last THEN "finalise" ELSE "read"
  /\ eof' = last
  /\ UNCHANGED <<protocolName, cancelled, delivered,
                 contentBuffer, state, thinkDepth, yielded, dropped>>

\* Soft tools, and no trigger so far.  When this chunk has it the loop goes on to
\* the next read, even after the last line.
DetectingChunk(delta, thinking, last) ==
  /\ MoreLines /\ hasFunctionCall /\ state = "detecting"
  /\ IF delta = <<>> THEN UNCHANGED detectorVars ELSE ProcessChunk(delta)
  /\ pending' = Thinking(thinking)
                  \o TextIfAny(SubSeq(yielded', Len(yielded) + 1, Len(yielded')))
  /\ pc' = IF last /\ state' = "detecting" THEN "finalise" ELSE "read"
  /\ eof' = last
  /\ UNCHANGED <<protocolName, cancelled, delivered>>

\* A complete turn is reported and the loop goes on.
ToolChunk_LoopBug(delta, thinking, last) ==
  /\ MoreLines /\ hasFunctionCall /\ state = "tool_parsing"
  /\ AppendToBuffer(delta)
  /\ pending' = Thinking(thinking) \o
       (IF HasCompleteToolTurn(contentBuffer') THEN <<Outcome(contentBuffer')>> ELSE <<>>)
  /\ pc' = "read"
  /\ eof' = last
  /\ UNCHANGED <<protocolName, cancelled, delivered>>

\* Soft tools, after the trigger: a complete tool turn ends the stream here, and
\* what the upstream still sends is not read.
ToolChunk(delta, thinking, last) ==
  /\ MoreLines /\ hasFunctionCall /\ state = "tool_parsing"
  /\ AppendToBuffer(delta)
  /\ IF HasCompleteToolTurn(contentBuffer')
     THEN /\ pending' = Thinking(thinking) \o <<Outcome(contentBuffer'), Call("done")>>
          /\ pc' = "returned"
     ELSE /\ pending' = Thinking(thinking)
          /\ pc' = "read"
  /\ eof' = last
  /\ UNCHANGED <<protocolName, cancelled, delivered>>

\* Tool text without an end marker is dropped in silence.
Finalise_DropBug ==
  /\ At("finalise")
  /\ pc' = "returned"
  /\ pending' =
       (IF ~hasFunctionCall THEN <<>>
        ELSE IF state = "detecting" THEN TextIfAny(contentBuffer)
        ELSE IF HasCompleteToolTurn(contentBuffer) THEN <<Outcome(contentBuffer)>>
        ELSE <<>>)
       \o <<Call("done")>>
  /\ UNCHANGED <<protocolName, eof, cancelled, delivered, detectorVars>>

\* The tail held back is not shown.
Finalise_Bug ==
  /\ At("finalise")
  /\ pc' = "returned"
  /\ pending' =
       (IF hasFunctionCall /\ state = "tool_parsing" THEN <<Outcome(contentBuffer)>> ELSE <<>>)
       \o <<Call("done")>>
  /\ UNCHANGED <<protocolName, eof, cancelled, delivered, detectorVars>>

\* After the loop: the tool text is parsed, or the tail still held back is shown.
Finalise ==
  /\ At("finalise")
  /\ pc' = "returned"
  /\ pending' =
       (IF ~hasFunctionCall THEN <<>>
        ELSE IF state = "tool_parsing" THEN <<Outcome(contentBuffer)>>
        ELSE TextIfAny(contentBuffer))
       \o <<Call("done")>>
  /\ UNCHANGED <<protocolName, eof, cancelled, delivered, detectorVars>>

\* A callback is made.
Deliver ==
  /\ pending # <<>>
  /\ LET c == Head(pending) IN
     /\ shown' = shown \o c.text
     /\ calls' = IF c.kind \in {"text", "thinking"} /\ calls # <<>> /\ Last(calls) = c.kind
                 THEN calls
                 ELSE Append(calls, c.kind)
  /\ pending' = Tail(pending)
  /\ UNCHANGED <<pc, protocolName, eof, cancelled, detectorVars>>

\* The client leaves.
Cancel ==
  /\ ~cancelled /\ cancelled' = TRUE
  /\ UNCHANGED <<pc, protocolName, eof, pending, delivered, detectorVars>>

Returned == pc = "returned" /\ pending = <<>>

\* Bound: what the parsers tell apart is text like any other outside the tool text, and
\* is not sent there.
Sendable(text) ==
  \A i \in DOMAIN text :
    text[i] \notin Plain =>
      hasFunctionCall /\ \E j \in 0..(i - 1 - Len(Trigger)) : HasPrefix(Rest(text, j), Trigger)

\* The contents of a data line: MaxFed bounds the text of a turn, and a turn has at
\* most one run of thinking.
Line ==
  \E delta \in {<<>>} \union UNION {[1..n -> Sent] : n \in 1..MaxChunk},
     thinking, last \in BOOLEAN :
    /\ Len(fed) + Len(delta) <= MaxFed /\ Sendable(fed \o delta)
    /\ thinking => "thinking" \notin Range(calls)
    /\ \/ PlainChunk(delta, thinking, last)
       \/ DetectingChunk(delta, thinking, last)
       \/ ToolChunk(delta, thinking, last)

Next ==
  \/ Build \/ ConnectFails \/ Connected
  \/ ReadError \/ EndOfStream \/ Line \/ \E last \in BOOLEAN : SkippedLine(last)
  \/ Finalise \/ Deliver \/ Cancel

\* The engine runs, and connecting ends (the client's dial and header timeouts).
\* Nothing makes an upstream speak or end.  Once the client has left, what bufio
\* still holds is finite and then a read fails.  A callback writes to the client: it ends
\* at once, with an error, when the client has left.  A client that stays and stops
\* reading blocks it, for the server has no write timeout (main.go).
Fairness ==
  /\ WF_vars(Build) /\ WF_vars(ConnectFails \/ Connected)
  /\ WF_vars(Finalise) /\ WF_vars(cancelled /\ Deliver)
  /\ WF_vars(eof /\ EndOfStream)
  /\ SF_vars(cancelled /\ ReadError)

Spec == Init /\ [][Next]_vars /\ Fairness

-----------------------------------------------------------------------------
(* Properties *)

TypeOK ==
  /\ pc \in {"build", "connect", "read", "finalise", "returned"}
  /\ protocolName \in Formats \union {"none"}
  /\ eof \in BOOLEAN /\ cancelled \in BOOLEAN
  /\ \A c \in Range(pending) :
       c.kind \in {"text", "thinking", "error", "tools", "done"} /\ c.text \in Seq(Char)
  /\ Range(calls) \subseteq {"text", "thinking", "error", "tools", "done"}
  /\ shown \in Seq(Char)
  /\ DetectorTypeOK

\* Where the turn is for the emitter: what the callbacks made so far amount to.
Phase ==
  IF calls = <<>> THEN IF Returned THEN "aborted" ELSE "idle"
  ELSE CASE Last(calls) = "done"  -> "closed"
         [] Last(calls) = "tools" -> "tools"
         [] OTHER -> "open"

Protocol == INSTANCE CallbackProtocol WITH phase <- Phase

\* The engine calls its callbacks in the order the emitters are written for: text,
\* thinking and errors, then at most one batch of tool calls, then OnDone.
KeepsCallbackProtocol == Protocol!PhaseSpec

\* Where the tool text of the turn so far begins, if it has one.
Triggers == IF hasFunctionCall THEN TriggersIn(fed) ELSE {}

\* The text shown is the upstream's text up to the first trigger outside thinking,
\* complete when the turn ends: however the text was cut, whether the stream ended or
\* broke, no text is lost, no tail held back is forgotten, no tool text is shown.
TextIntact ==
  /\ TypeOK
  /\ IsPrefix(shown, fed)
  /\ Returned =>
       shown = IF Triggers = {} THEN fed ELSE SubSeq(fed, 1, Min(Triggers))

\* A turn with a trigger reports the outcome of its tool text, right before OnDone, on
\* both ways out (a complete turn, the end of the stream); a turn without one reports no
\* tool calls, and ends with OnDone, too, if it called back at all.  The outcome is that
\* of what was read: a fence in a value ends a Markdown turn before the message is over.
ToolTurnReported ==
  Returned =>
    IF Triggers = {}
    THEN "tools" \notin Range(calls) /\ (calls = <<>> \/ Last(calls) = "done")
    ELSE LET start == Min(Triggers)
             skip  == CHOOSE n \in ToolTriggerOffset(Rest(fed, start)) : TRUE
             kind  == Outcome(Rest(fed, start + skip)).kind
         IN  IsSuffix(<<kind, "done">>, calls)

\* The client goes on reading, so that each write to it ends.
ClientReads == WF_vars(Deliver)

\* Once the client has left the engine returns, whatever the upstream does; and once the
\* upstream has closed the stream it returns if the client goes on reading.
TurnEnds ==
  /\ cancelled ~> Returned
  /\ ClientReads => (eof ~> Returned)

=============================================================================
