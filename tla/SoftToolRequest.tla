--------------------------- MODULE SoftToolRequest ---------------------------
(***************************************************************************)
(* SoftToolRetry over the tool texts of ToolText: which calls the client   *)
(* of a request that is not streamed may be given.                         *)
(***************************************************************************)
EXTENDS SoftToolRetry, ToolText

IsList(list) == list \in Seq(Range(list))

\* ParsedToolCall, of protocol/types.go
AreCalls(calls) ==
  /\ IsList(calls)
  /\ \A i \in DOMAIN calls : calls[i] = [name |-> calls[i].name, args |-> calls[i].args]

\* Parsers read lists of calls, and the calls that SoftToolRetry speaks of are those that
\* ToolText finds.
ASSUME TextAssumption ==
  \A text \in ToolTexts :
    /\ AreCalls(text.calls) /\ text.written \in Nat
    /\ AreCalls(MarkdownCalls(text))
    /\ \A s \in SoftTool : CallsIn(text, s) = ParseSoftToolCalls(text, s)

ASSUME ToolsAssumption == \A name \in DOMAIN Tools : IsList(CandidateTypes(Tools[name]))

\* What the request allows: tools that were advertised, with all they require, and the
\* choice of the client.
Allowed(calls) ==
  /\ softTool.choice.word # "none"
  /\ softTool.choice.name # "" =>
       Len(calls) = 1 /\ calls[1].name = softTool.choice.name
  /\ \A i \in DOMAIN calls :
       /\ calls[i].name \in DOMAIN Tools
       /\ Required(Tools[calls[i].name]) \subseteq DOMAIN calls[i].args

-----------------------------------------------------------------------------
(* Properties *)

\* Whatever the model wrote, in whichever attempt, the calls a client is given are of
\* tools it advertised, have all that these require, and keep to its tool_choice.  They
\* are the calls that were read, each with the arguments that were read, and if the message
\* was cut off, they were whole; that last is not so of markdown, in which a fence within a
\* value is taken for the end of the block.
OnlyAllowedCalls ==
  \A i \in DOMAIN answer.payload :
    answer.payload[i] \notin {Plain} \union ToolTexts =>
      LET calls == answer.payload[i].calls
          read  == Parse(last[i], softTool.protocol)
      IN  /\ softTool # NoSoftTool /\ Allowed(calls) /\ Len(calls) = Len(read)
          /\ \A j \in DOMAIN calls :
               calls[j].name = read[j].name /\ DOMAIN calls[j].args = DOMAIN read[j].args
          /\ \/ last[i].closed \/ last[i].format = "markdown_block"
             \/ Len(calls) <= last[i].written

=============================================================================
