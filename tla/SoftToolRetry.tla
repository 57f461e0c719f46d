---------------------------- MODULE SoftToolRetry ----------------------------
(***************************************************************************)
(* A request that is not streamed: the loop that asks the upstream, turns  *)
(* the tool text in its response into tool calls, and asks again when the  *)
(* tool text is bad.  The code has it five times: proxyJSON                *)
(* (upstream_proxy.go), handleResponsesViaNative, handleResponsesViaChat   *)
(* (openai_handlers.go), handleAnthropicViaNative, handleAnthropicViaChat  *)
(* (protocol_handlers.go).  They differ in the transform, and in softTool: *)
(* where it can be nil, a native upstream's response is passed on raw.     *)
(*                                                                         *)
(* A response is a list of parts (choices, output items or content         *)
(* blocks).  A part is Plain if it has no trigger in it, or a tool text, of *)
(* which CallsIn says what calls it gives under the settings of the        *)
(* request; in an answer, also the calls made from the response of some    *)
(* attempt (with whatever text preceded them).  The via-chat handlers      *)
(* convert the answer to the client's protocol; that is left out.          *)
(*                                                                         *)
(* Definitions ending in _Bug are the plausible slips the properties are   *)
(* tested against; nothing here uses them.                                 *)
(***************************************************************************)
EXTENDS Integers, Sequences, SequencesExt

CONSTANTS
  Setting,    \* values of soft_tool_retry_attempts, of the features and of an upstream
  SoftTool,   \* what a request may say of soft tools: protocol, choice
  ToolTexts,  \* texts with a trigger
  Response,   \* what the upstream may send
  CallsIn(_, _)  \* the calls parseSoftToolCalls finds, <<>> if none or not valid

Plain == [plain |-> TRUE]   \* no trigger

ASSUME SettingAssumption ==
  /\ Setting \subseteq Int
  /\ Plain \notin ToolTexts /\ Response \subseteq Seq({Plain} \union ToolTexts)
  /\ \A text \in ToolTexts : "attempt" \notin DOMAIN text  \* none is made by Made

VARIABLES
  pc,
  shape,      \* "choices" for chat completions, "items" for the other two
  softTool,   \* NoSoftTool if tool calls are not soft
  maxRetries,
  attempt,
  payload,    \* the response of this attempt
  found,      \* the calls found in it, <<>> if none or not valid
  store,      \* the calls put in the tool call store
  answer,     \* status and payload
  last        \* history: this response, as the upstream sent it

retryVars == <<pc, shape, softTool, maxRetries, attempt, payload, found, store, answer, last>>

NoSoftTool == [none |-> TRUE]

\* Calls made from the response of attempt n.
Made(n, calls) == [attempt |-> n, calls |-> calls]

NoAnswer == [status |-> 0, payload |-> <<>>]

EffectiveSoftToolRetryAttempts(feature, upstream) ==
  LET maxAttempts == IF upstream > 0 THEN upstream ELSE feature
  IN  CASE maxAttempts < 0 -> 0
        [] maxAttempts > 5 -> 5
        [] OTHER -> maxAttempts

\* The part a transform decides by, 0 if there is none: the first choice, or the
\* first item with a trigger.
Decisive(parts) ==
  LET triggered == SelectInSeq(parts, LAMBDA part : part # Plain)
  IN  IF shape = "choices" /\ triggered > 1 THEN 0 ELSE triggered

CallsOf(parts) ==
  IF Decisive(parts) = 0 \/ softTool = NoSoftTool THEN <<>>
  ELSE CallsIn(parts[Decisive(parts)], softTool)

TransformFailed == softTool # NoSoftTool /\ Decisive(payload) # 0 /\ found = <<>>

-----------------------------------------------------------------------------

RetryInit ==
  /\ pc = "request" /\ shape \in {"choices", "items"} /\ softTool \in SoftTool \union {NoSoftTool}
  /\ shape = "choices" \/ softTool # NoSoftTool
  /\ \E feature, upstream \in Setting :
       maxRetries = EffectiveSoftToolRetryAttempts(feature, upstream)
  /\ attempt = 0 /\ payload = <<>> /\ found = <<>> /\ store = {}
  /\ answer = NoAnswer /\ last = <<>>

\* doJSONRequest fails (also by its timeout or because the client left), the upstream
\* answers with an error, or with no JSON.  A status of 4xx or 5xx is mapped.
Failed ==
  /\ pc = "request"
  /\ \E status \in {400, 500} : answer' = [status |-> status, payload |-> <<>>]
  /\ pc' = "answered"
  /\ UNCHANGED <<shape, softTool, maxRetries, attempt, payload, found, store, last>>

\* parseSoftToolCalls has no effect but its result, which is taken up by the steps below.
Respond(parts) ==
  /\ pc = "request"
  /\ payload' = parts /\ last' = parts /\ found' = CallsOf(parts)
  /\ pc' = "transform"
  /\ UNCHANGED <<shape, softTool, maxRetries, attempt, store, answer>>

\* The bad tool text is cut out of the last response.
GiveUp_Bug ==
  /\ pc = "transform"
  /\ TransformFailed /\ attempt = maxRetries
  /\ pc' = "answer"
  /\ payload' = [payload EXCEPT ![Decisive(payload)] = Plain]
  /\ UNCHANGED <<shape, softTool, maxRetries, attempt, found, store, answer, last>>

\* A failed transform has rewritten nothing: with no retry left the response is the
\* answer as the upstream sent it.
GiveUp ==
  /\ pc = "transform"
  /\ TransformFailed /\ attempt = maxRetries
  /\ pc' = "answer"
  /\ UNCHANGED <<shape, softTool, maxRetries, attempt, payload, found, store, answer, last>>

\* The attempts are not counted.
Retry_CountBug ==
  /\ pc = "transform"
  /\ TransformFailed /\ attempt < maxRetries
  /\ pc' = "request" /\ payload' = <<>> /\ found' = <<>> /\ last' = <<>>
  /\ UNCHANGED <<shape, softTool, maxRetries, attempt, store, answer>>

\* The calls are put in the store before they are validated.
Retry_StoreBug ==
  /\ pc = "transform"
  /\ TransformFailed /\ attempt < maxRetries
  /\ store' = store \union {Made(attempt, <<>>)}
  /\ attempt' = attempt + 1
  /\ pc' = "request" /\ payload' = <<>> /\ found' = <<>> /\ last' = <<>>
  /\ UNCHANGED <<shape, softTool, maxRetries, answer>>

Retry ==
  /\ pc = "transform"
  /\ TransformFailed /\ attempt < maxRetries
  /\ attempt' = attempt + 1
  /\ pc' = "request" /\ payload' = <<>> /\ found' = <<>> /\ last' = <<>>
  /\ UNCHANGED <<shape, softTool, maxRetries, store, answer>>

NothingToDo ==
  /\ pc = "transform"
  /\ softTool = NoSoftTool \/ Decisive(payload) = 0
  /\ pc' = "answer"
  /\ UNCHANGED <<shape, softTool, maxRetries, attempt, payload, found, store, answer, last>>

\* toolCallsFromValidatedTools puts the calls in the store; only the decisive part is
\* rewritten.
Transform ==
  /\ pc = "transform"
  /\ softTool # NoSoftTool /\ Decisive(payload) # 0 /\ ~TransformFailed
  /\ store' = store \union {Made(attempt, found)}
  /\ payload' = [payload EXCEPT ![Decisive(payload)] = Made(attempt, found)]
  /\ pc' = "answer"
  /\ UNCHANGED <<shape, softTool, maxRetries, attempt, found, answer, last>>

Answer ==
  /\ pc = "answer"
  /\ answer' = [status |-> 200, payload |-> payload]
  /\ pc' = "answered"
  /\ UNCHANGED <<shape, softTool, maxRetries, attempt, payload, found, store, last>>

\* The proxy's own steps, and the end of an attempt that is not answered.
Progress == Failed \/ GiveUp \/ Retry \/ NothingToDo \/ Transform \/ Answer

RetryNext == Progress \/ \E parts \in Response : Respond(parts)

\* The upstream need not respond: doJSONRequest sets a timeout for each attempt.
RetrySpec == RetryInit /\ [][RetryNext]_retryVars /\ WF_retryVars(Progress)

-----------------------------------------------------------------------------
(* Properties *)

Part ==
  {Plain} \union ToolTexts
    \union {Made(n, CallsIn(text, s)) : n \in 0..5, text \in ToolTexts, s \in SoftTool}

RetryTypeOK ==
  /\ pc \in {"request", "transform", "answer", "answered"}
  /\ shape \in {"choices", "items"} /\ softTool \in SoftTool \union {NoSoftTool}
  /\ maxRetries \in 0..5 /\ attempt \in 0..maxRetries
  /\ payload \in Seq(Part) /\ found \in {CallsOf(parts) : parts \in Response \union {<<>>}}
  /\ store \subseteq Part
  /\ answer.status \in {0, 200, 400, 500} /\ answer.payload \in Seq(Part)
  /\ last \in Response \union {<<>>}

\* The calls a client is given are exactly those put in the store, where the result
\* that comes back is looked up: an attempt that is thrown away leaves none behind.
StoreMatchesAnswer ==
  pc = "answered" => store = Range(answer.payload) \ ({Plain} \union ToolTexts)

\* The answer is the response of the last attempt, with at most one part rewritten:
\* the parts before and after keep what the upstream sent, and when the retries are
\* used up the bad tool text is passed on as it came.
AnswerIsLastResponse ==
  answer.status = 200 =>
    /\ Len(answer.payload) = Len(last)
    /\ \A i \in DOMAIN answer.payload :
         \/ answer.payload[i] = last[i]
         \/ i = Decisive(last) /\ answer.payload[i] = Made(attempt, CallsOf(last))

\* Every request is answered: an upstream that never gives good tool text is not asked
\* for ever.
Answered == <>(pc = "answered")

=============================================================================
