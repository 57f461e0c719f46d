----------------------------- MODULE NativeStream -----------------------------
(***************************************************************************)
(* streamResponsesUpstream and streamAnthropicUpstream                     *)
(* (same_protocol_tools.go): the engines that read a stream of an upstream *)
(* which speaks the client's own protocol, and turn its server-sent events *)
(* into the callbacks of CallbackProtocol.                                 *)
(*                                                                         *)
(* A Responses event is a data line of its own; an Anthropic one is made   *)
(* up of lines up to a blank one.  The upstream is free: any lines in any  *)
(* order, and the stream ends or breaks after any of them or within one.   *)
(* A line stands for what the code tells apart in it.  A step makes at     *)
(* most one callback.                                                      *)
(*                                                                         *)
(* Definitions ending in _Bug are the plausible slips the properties are   *)
(* tested against; nothing here uses them.                                 *)
(***************************************************************************)
EXTENDS Naturals, Sequences, FiniteSets, FiniteSetsExt, SequencesExt

CONSTANT MaxLines   \* bounds the lines of a stream

ASSUME LinesAssumption == MaxLines \in Nat

VARIABLES
  pc,                \* where the engine is
  upstreamProtocol,  \* "responses" or "anthropic"
  eventName,         \* of the event being read (anthropic)
  dataLines,         \* its data lines, each with the number of its line
  calls,             \* callbacks made: kind, and the line the delta begins in
  read               \* history: the lines read

vars == <<pc, upstreamProtocol, eventName, dataLines, calls, read>>

\* The payload of a data line is a delta of text or thinking, one that is empty, an
\* error, half a delta of text that goes on in the next data line, or no JSON at all
\* (which is what is left of a line that is cut).
Payload == {"text", "thinking", "empty", "error", "head", "tail", "cut"}

Names == {"content_block_delta", "error", "ping"}

Line == [type : {"data"}, is : Payload] \union [type : {"event"}, is : Names]
          \union [type : {"blank"}, is : {""}]

Call(kind, at) == [kind |-> kind, at |-> at]

Data(payload, at) == [is |-> payload, at |-> at]

-----------------------------------------------------------------------------
(* What an event says                                                      *)

\* json.Unmarshal of the data lines, joined: what they are, and where they begin.
Unmarshal(data) ==
  LET whole == Head(data).is IN
  CASE Len(data) = 1 /\ whole \notin {"head", "tail", "cut"} -> whole
    [] Len(data) = 2 /\ whole = "head" /\ data[2].is = "tail" -> "text"
    [] OTHER -> "no JSON"

\* The callback of a data line of a Responses stream.
ResponsesCall(payload) ==
  IF payload \in {"text", "thinking", "error"} THEN payload ELSE "none"

\* The callback of an Anthropic event: an error is one by its name.
AnthropicCall(name, data) ==
  IF data = <<>> \/ Unmarshal(data) = "no JSON" THEN "none"
  ELSE IF name = "error" THEN "error"
  ELSE IF name = "content_block_delta" /\ Unmarshal(data) \in {"text", "thinking"}
       THEN Unmarshal(data)
       ELSE "none"

-----------------------------------------------------------------------------

Init ==
  /\ pc = "build" /\ upstreamProtocol \in {"responses", "anthropic"}
  /\ eventName = "" /\ dataLines = <<>>
  /\ calls = <<>> /\ read = <<>>

\* json.Marshal or http.NewRequest fails, or the request is ready.
Build ==
  /\ pc = "build"
  /\ pc' \in {"connect", "returned"}
  /\ UNCHANGED <<upstreamProtocol, eventName, dataLines, calls, read>>

Connected ==
  /\ pc = "connect"
  /\ pc' = "read"
  /\ UNCHANGED <<upstreamProtocol, eventName, dataLines, calls, read>>

\* client.Do fails, or the status is not 200.
ConnectFails ==
  /\ pc = "connect"
  /\ calls' = Append(calls, Call("error", 0))
  /\ pc' = "done"
  /\ UNCHANGED <<upstreamProtocol, eventName, dataLines, read>>

Make(kind, at) == calls' = IF kind = "none" THEN calls ELSE Append(calls, Call(kind, at))

\* Where the loop goes after a line: ReadString may return it together with io.EOF
\* or with an error.
Then == {"read", "flush", "broken"}

ReadLine(line, next) ==
  /\ pc = "read" /\ Len(read) < MaxLines
  /\ pc' = next
  /\ read' = Append(read, line)
  /\ UNCHANGED upstreamProtocol

ResponsesLine(line, next) ==
  /\ upstreamProtocol = "responses"
  /\ ReadLine(line, next)
  /\ Make(IF line.type = "data" THEN ResponsesCall(line.is) ELSE "none", Len(read'))
  /\ UNCHANGED <<eventName, dataLines>>

\* processEvent: an event without data says nothing.
ProcessEvent ==
  /\ dataLines' = <<>>
  /\ IF dataLines = <<>> THEN UNCHANGED calls
     ELSE Make(AnthropicCall(eventName, dataLines), Head(dataLines).at)

\* The name outlives its event.
AnthropicLine_Bug(line, next) ==
  /\ upstreamProtocol = "anthropic"
  /\ ReadLine(line, next)
  /\ \/ line.type = "blank" /\ ProcessEvent /\ UNCHANGED eventName
     \/ line.type = "event" /\ eventName' = line.is /\ UNCHANGED <<dataLines, calls>>
     \/ /\ line.type = "data"
        /\ dataLines' = Append(dataLines, Data(line.is, Len(read')))
        /\ UNCHANGED <<eventName, calls>>

AnthropicLine(line, next) ==
  /\ upstreamProtocol = "anthropic"
  /\ ReadLine(line, next)
  /\ \/ line.type = "blank" /\ ProcessEvent /\ eventName' = ""
     \/ line.type = "event" /\ eventName' = line.is /\ UNCHANGED <<dataLines, calls>>
     \/ /\ line.type = "data"
        /\ dataLines' = Append(dataLines, Data(line.is, Len(read')))
        /\ UNCHANGED <<eventName, calls>>

\* A read returns nothing but io.EOF or an error.
NoLine(next) ==
  /\ pc = "read" /\ next # "read"
  /\ pc' = next
  /\ UNCHANGED <<upstreamProtocol, eventName, dataLines, calls, read>>

\* The turn is closed at once.
Broken_Bug ==
  /\ pc = "broken"
  /\ calls' = Append(calls, Call("done", 0))
  /\ pc' = "flush"
  /\ UNCHANGED <<upstreamProtocol, eventName, dataLines, read>>

\* The read failed: OnError, before the event that is still open.
Broken ==
  /\ pc = "broken"
  /\ calls' = Append(calls, Call("error", 0))
  /\ pc' = "flush"
  /\ UNCHANGED <<upstreamProtocol, eventName, dataLines, read>>

\* An event that is open when the stream ends is processed like one that is complete.
Flush ==
  /\ pc = "flush"
  /\ IF upstreamProtocol = "anthropic" THEN ProcessEvent ELSE UNCHANGED <<dataLines, calls>>
  /\ pc' = "done"
  /\ UNCHANGED <<upstreamProtocol, eventName, read>>

Done ==
  /\ pc = "done"
  /\ calls' = Append(calls, Call("done", 0))
  /\ pc' = "returned"
  /\ UNCHANGED <<upstreamProtocol, eventName, dataLines, read>>

Next ==
  \/ Build \/ Connected \/ ConnectFails
  \/ \E line \in Line, next \in Then : ResponsesLine(line, next) \/ AnthropicLine(line, next)
  \/ \E next \in Then : NoLine(next)
  \/ Broken \/ Flush \/ Done

Spec == Init /\ [][Next]_vars

-----------------------------------------------------------------------------
(* Properties *)

TypeOK ==
  /\ pc \in {"build", "connect", "read", "broken", "flush", "done", "returned"}
  /\ upstreamProtocol \in {"responses", "anthropic"}
  /\ eventName \in Names \union {""}
  /\ dataLines \in Seq([is : Payload, at : 1..MaxLines])
  /\ calls \in Seq([kind : {"text", "thinking", "error", "done"}, at : 0..MaxLines])
  /\ read \in Seq(Line) /\ Len(read) <= MaxLines

\* Where the turn is for the emitter.
Phase ==
  IF calls = <<>> THEN IF pc = "returned" THEN "aborted" ELSE "idle"
  ELSE IF Last(calls).kind = "done" THEN "closed" ELSE "open"

Protocol == INSTANCE CallbackProtocol WITH phase <- Phase

\* Both engines call back in the order the emitters are written for; a stream that
\* breaks within an event may have text after the error, but nothing after OnDone.
KeepsCallbackProtocol == Protocol!PhaseSpec

\* Where the event that line n belongs to begins: after the last blank line before it.
First(n) ==
  LET blanks == {i \in 1..(n - 1) : read[i].type = "blank"}
  IN  IF blanks = {} THEN 1 ELSE Max(blanks) + 1

\* The numbers of the lines of a type in the event, up to line n.
Of(n, type) == {i \in First(n)..n : read[i].type = type}

InOrder(lines) ==
  [k \in 1..Cardinality(lines) |->
     CHOOSE i \in lines : Cardinality({j \in lines : j < i}) = k - 1]

\* What the event that ends with line n says, by its last name and all its data.
EventSays(n) ==
  LET names == Of(n, "event")
      data  == InOrder(Of(n, "data"))
  IN  AnthropicCall(IF names = {} THEN "" ELSE read[Max(names)].is,
                    [k \in DOMAIN data |-> Data(read[data[k]].is, data[k])])

\* The calls for the events that end with one of some lines.
SaidUpTo(ends) ==
  {Call(EventSays(n), Min(Of(n, "data"))) : n \in {m \in ends : EventSays(m) # "none"}}

\* What a whole stream says.
Said ==
  IF upstreamProtocol = "responses"
  THEN {Call(read[n].is, n) : n \in {m \in DOMAIN read :
          read[m].type = "data" /\ read[m].is \in {"text", "thinking", "error"}}}
  ELSE SaidUpTo({n \in DOMAIN read : read[n].type = "blank" \/ n = Len(read)})

\* When the engine returns, every delta and error of the stream has been handed on
\* exactly once and in order, whether its lines came in one piece or several, and
\* wherever the stream ended or broke; nothing else but the engine's own error was.
EverythingHandedOn ==
  LET handed == {i \in DOMAIN calls : calls[i].at # 0} IN
  /\ TypeOK
  /\ \A i, j \in handed : i < j => calls[i].at < calls[j].at
  /\ pc = "returned" => {calls[i] : i \in handed} = Said

=============================================================================
