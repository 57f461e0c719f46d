---------------------------- MODULE Conversation ----------------------------
(***************************************************************************)
(* A conversation of several turns through the proxy, with soft tools.     *)
(* The client keeps the history and sends all of it each turn; the proxy   *)
(* keeps nothing but the names of the calls it made.  It turns calls and   *)
(* results in the history into text, adds the prompt that tells the model  *)
(* how to write calls, and converts between protocols.                     *)
(*                                                                         *)
(* A path is the client's protocol and the upstream's.  A message of the   *)
(* history has the type of a Responses item ("untyped" if the client left  *)
(* it out; always "message" for the other protocols), a role, and parts:   *)
(*   "text", "call", "result", "empty" (a result with no content)          *)
(* and in a request also "prompt", "call_text" and "result_text".  A part  *)
(* has a number, the call's for its result.  Each part stands for one      *)
(* piece of content; how pieces are joined into one string is left out,    *)
(* and so are images, and a Responses input that is a bare string.         *)
(*                                                                         *)
(* A turn is prepared the same way whether or not it is streamed.          *)
(*                                                                         *)
(* Definitions ending in _Bug are the plausible slips the properties are   *)
(* tested against; nothing here uses them.                                 *)
(***************************************************************************)
EXTENDS Integers, FiniteSets, SequencesExt

CONSTANTS
  Path,      \* of "chat", "responses", "responses_chat", "anthropic", "anthropic_chat"
  Setting,   \* the settings of a turn as they were written: functionCalling,
             \* convertDeveloper, and upstream and features, each with target and role
             \* of the prompt, "" if not set
  MaxTurns,  \* bound on the turns
  MaxCalls   \* bound on the calls of the conversation

ASSUME SettingAssumption == \A s \in Setting : s.functionCalling \in BOOLEAN

ASSUME PathAssumption ==
  Path \subseteq {"chat", "responses", "responses_chat", "anthropic", "anthropic_chat"}

ASSUME BoundAssumption == MaxTurns \in Nat /\ MaxCalls \in Nat

VARIABLES
  pc,
  path,
  system,   \* instructions or system of the client, a list of parts
  history,
  pending,  \* calls of the last answer
  turns,
  known,    \* calls the store knows
  request,  \* what the upstream was sent
  madeWith  \* the settings it was made with, None if there is no request

vars == <<pc, path, system, history, pending, turns, known, request, madeWith>>

Part(kind, n) == [kind |-> kind, n |-> n]
Prompt == Part("prompt", 0)
Message(type, role, parts) == [type |-> type, role |-> role, parts |-> parts]
Sent(soft, instructions, messages) ==
  [soft |-> soft, system |-> instructions, messages |-> messages]
Nothing == Sent(FALSE, <<>>, <<>>)
Refused == [refused |-> TRUE]
None    == [none |-> TRUE]

Results == {"result", "empty"}
Said    == {"text", "call"} \union Results
Written == {"call_text", "result_text"}

IsCall(part)   == part.kind = "call"
IsResult(part) == part.kind \in Results

Each(list, F(_)) == [i \in DOMAIN list |-> F(list[i])]
Only(parts, kinds) ==
  FlattenSeq(Each(parts, LAMBDA part : IF part.kind \in kinds THEN <<part>> ELSE <<>>))
PartsOf(messages) == FlattenSeq(Each(messages, LAMBDA message : message.parts))
CallsOf(messages) == Only(PartsOf(messages), {"call"})

Memory == INSTANCE ToolMemory WITH ID <- Nat, puts <- CallsOf(history)

-----------------------------------------------------------------------------
(* Where the prompt goes *)

FirstNonEmpty(a, b) == IF a # "" THEN a ELSE b
IsConversationRole(role) == role \in {"user", "assistant"}
InjectAt(target, role) == [target |-> target, role |-> role]

\* Applied by Validate to the target of the features, and to that of an upstream if it is
\* set: the settings in force never have none.
NormalizePromptInjectionTarget(target) == FirstNonEmpty(target, "auto")

ResolvePromptInjection(protocol, s) ==
  LET target  == FirstNonEmpty(s.upstream.target,
                               NormalizePromptInjectionTarget(s.features.target))
      role    == FirstNonEmpty(s.upstream.role, s.features.role)
      message == target = "message" \/ (target = "" /\ IsConversationRole(role))
  IN  IF target = "last_user_message" THEN InjectAt(target, "user")
      ELSE IF protocol = "responses" /\ message
      THEN InjectAt("message", IF IsConversationRole(role) THEN role ELSE "developer")
      ELSE IF protocol = "anthropic" /\ message /\ IsConversationRole(role)
      THEN InjectAt("message", role)
      ELSE IF protocol = "chat" THEN InjectAt("message", FirstNonEmpty(role, "system"))
      ELSE InjectAt("system", "")

PromptMessage(role) == Message("message", role, <<Prompt>>)

\* The prompt in front of the message at index, or in one of its own.
IntoLatest(messages, index) ==
  IF index \in DOMAIN messages
  THEN [messages EXCEPT ![index].parts = <<Prompt>> \o @]
  ELSE Append(messages, PromptMessage("user"))

LastUserMessageIndex(messages) ==
  SelectLastInSeq(messages, LAMBDA message : message.role = "user")

-----------------------------------------------------------------------------
(* Calls and results as text *)

\* FormatToolResultForAI looks the call up in the store.
ResultText(result) == [kind |-> "result_text", n |-> result.n, named |-> result.n \in known]
CallText(call) == Part("call_text", call.n)

Formatted(part) ==
  CASE IsResult(part) -> ResultText(part)
    [] IsCall(part)   -> CallText(part)
    [] OTHER          -> part

\* A message of a tool, if it has content, is one of the user, in the place it had.
Preprocess(message, s) ==
  CASE message.role = "tool" ->
         IF message.parts[1].kind = "empty" THEN <<>>
         ELSE <<Message("message", "user", Each(message.parts, Formatted))>>
    [] message.role = "assistant" ->
         <<[message EXCEPT !.parts = Each(@, Formatted)]>>
    [] message.role = "developer" /\ s.convertDeveloper ->
         <<[message EXCEPT !.role = "system"]>>
    [] OTHER -> <<message>>

PreprocessMessages(messages, s) ==
  FlattenSeq(Each(messages, LAMBDA message : Preprocess(message, s)))

-----------------------------------------------------------------------------
(* The request to the upstream *)

\* The index is that of the messages before they were processed.
PrepareChat(messages, s) ==
  LET processed == PreprocessMessages(messages, s)
      injection == ResolvePromptInjection("chat", s)
      injected  == IF injection.target = "last_user_message"
                   THEN IntoLatest(processed, LastUserMessageIndex(messages))
                   ELSE <<PromptMessage(injection.role)>> \o processed
      soft      == s.functionCalling
  IN  Sent(soft, <<>>, IF soft THEN injected ELSE processed)

PreprocessInput(items) ==
  Each(items, LAMBDA item :
                IF item.type = "function_call_output"
                THEN Message("message", "user", Each(item.parts, ResultText)) ELSE item)

InjectInput(items, s) ==
  LET injection == ResolvePromptInjection("responses", s)
  IN  CASE injection.target = "last_user_message" ->
             IntoLatest(items, SelectLastInSeq(items, LAMBDA item :
                                 item.type = "message" /\ item.role = "user"))
        [] injection.target = "message" -> <<PromptMessage(injection.role)>> \o items
        [] OTHER -> items

PromptedSystem(protocol, s) ==
  IF ResolvePromptInjection(protocol, s).target = "system" THEN <<Prompt>> \o system ELSE system

\* The results are turned into messages before the prompt is placed.
PrepareResponses_Bug(s) ==
  IF s.functionCalling
  THEN Sent(TRUE, PromptedSystem("responses", s), InjectInput(PreprocessInput(history), s))
  ELSE Sent(FALSE, system, history)

\* Without soft tools the request goes on as it is.
PrepareResponses(s) ==
  IF s.functionCalling
  THEN Sent(TRUE, PromptedSystem("responses", s), PreprocessInput(InjectInput(history, s)))
  ELSE Sent(FALSE, system, history)

\* The calls of a message are written as one text, after all else.
PreprocessBlocks(message) ==
  [message EXCEPT !.parts =
     Each(Only(@, Said \ {"call"}) \o Only(@, {"call"}), Formatted)]

PrepareAnthropic(s) ==
  LET injection == ResolvePromptInjection("anthropic", s)
      processed == Each(history, PreprocessBlocks)
      messages  == CASE injection.target = "last_user_message" ->
                          IntoLatest(processed, LastUserMessageIndex(history))
                     [] injection.target = "message" ->
                          <<PromptMessage(injection.role)>> \o processed
                     [] OTHER -> processed
  IN  IF s.functionCalling
      THEN Sent(TRUE, PromptedSystem("anthropic", s), messages)
      ELSE Sent(FALSE, system, history)

SystemMessage == IF system = <<>> THEN <<>> ELSE <<Message("message", "system", system)>>

ResponsesInputToMessages ==
  SystemMessage \o
    Each(history, LAMBDA item :
           Message("message", IF item.type = "function_call_output" THEN "tool" ELSE item.role,
                   item.parts))

\* Text that comes with results is taken for part of them.
AnthropicMessageToChat_Bug(message) ==
  LET texts   == Only(message.parts, {"text"})
      results == Only(message.parts, Results)
  IN  IF message.role = "user"
      THEN Each(results, LAMBDA result : Message("message", "tool", <<result>>))
             \o (IF results = <<>> THEN <<Message("message", "user", texts)>> ELSE <<>>)
      ELSE <<Message("message", "assistant", texts \o Only(message.parts, {"call"}))>>

\* A message each for the results, then one for what text there is.
AnthropicMessageToChat(message) ==
  LET texts   == Only(message.parts, {"text"})
      results == Only(message.parts, Results)
  IN  IF message.role = "user"
      THEN Each(results, LAMBDA result : Message("message", "tool", <<result>>))
             \o (IF texts # <<>> \/ results = <<>>
                 THEN <<Message("message", "user", texts)>> ELSE <<>>)
      ELSE <<Message("message", "assistant", texts \o Only(message.parts, {"call"}))>>

AnthropicMessagesToChat == SystemMessage \o FlattenSeq(Each(history, AnthropicMessageToChat))

\* Calls in the input are not supported on the way to chat completions.
Unsupported == path = "responses_chat" /\ \E i \in DOMAIN history : history[i].type = "function_call"

Prepare(s) ==
  IF Unsupported THEN Refused ELSE
  CASE path = "chat"           -> PrepareChat(history, s)
    [] path = "responses_chat" -> PrepareChat(ResponsesInputToMessages, s)
    [] path = "anthropic_chat" -> PrepareChat(AnthropicMessagesToChat, s)
    [] path = "responses"      -> PrepareResponses(s)
    [] path = "anthropic"      -> PrepareAnthropic(s)

-----------------------------------------------------------------------------
(* The client *)

ViaResponses == path \in {"responses", "responses_chat"}
ViaAnthropic == path \in {"anthropic", "anthropic_chat"}
ToChat       == path \in {"chat", "responses_chat", "anthropic_chat"}

\* Numbers of parts that are new.
Fresh(i) == Len(system) + Len(PartsOf(history)) + i

Init ==
  /\ pc = "client" /\ path \in Path
  /\ system \in IF path = "chat" THEN {<<>>} ELSE {<<>>, <<Part("text", 1)>>}
  /\ history \in {<<>>} \union
       {<<Message("message", role, <<Part("text", Len(system) + 1)>>)>> :
          role \in CASE path = "chat" -> {"system", "developer"} [] ViaResponses -> {"developer"}
                    [] OTHER -> {}}
  /\ pending = {} /\ turns = 0 /\ known = {} /\ request = Nothing /\ madeWith = None

\* What a client says of some of the calls it was given, and what else it says: one
\* message for all of it in the Anthropic protocol, in either order, or one for each.
Turns(results, texts, type) ==
  IF ViaAnthropic
  THEN {<<Message("message", "user", parts)>> : parts \in {results \o texts, texts \o results}}
  ELSE {Each(results, LAMBDA result :
               IF path = "chat" THEN Message("message", "tool", <<result>>)
               ELSE Message("function_call_output", "", <<result>>))
          \o Each(texts, LAMBDA text : Message(type, "user", <<text>>))}

Ask ==
  /\ pc = "client" /\ turns < MaxTurns
  /\ \E calls \in SUBSET pending : \E order \in SetToSeqs(calls) :
     \E kind \in [calls -> {"result", "empty"}] :
     \E texts \in {<<>>, <<Part("text", Fresh(1))>>} :
     \E type \in IF ViaResponses THEN {"message", "untyped"} ELSE {"message"} :
     \E turn \in Turns(Each(order, LAMBDA n : Part(kind[n], n)), texts, type) :
       /\ calls # {} \/ texts # <<>>
       /\ history' = history \o turn
  /\ pending' = {} /\ turns' = turns + 1
  /\ pc' = "proxy"
  /\ UNCHANGED <<path, system, known, request, madeWith>>

\* Other conversations go on, and time passes; what is forgotten once the request is
\* made does not matter to it.
Forget ==
  /\ pc = "proxy"
  /\ UNCHANGED <<pc, path, system, history, pending, turns, request, madeWith>>
  /\ Memory!Forget

\* The settings are those in force at this turn.
Send ==
  /\ pc = "proxy"
  /\ \E s \in Setting : request' = Prepare(s) /\ madeWith' = s
  /\ pc' = IF request' = Refused THEN "refused" ELSE "upstream"
  /\ UNCHANGED <<path, system, history, pending, turns, known>>

\* The answer as it reaches the client, which appends it to the history: one message, or
\* an item for each part.  The upstream's own text may go on after the calls, but for
\* chat completions, where they end the message.
Answers(before, calls, after) ==
  LET parts == before \o calls \o after
  IN  IF ViaResponses
      THEN Each(parts, LAMBDA part :
                  IF IsCall(part) THEN Message("function_call", "", <<part>>)
                  ELSE Message("message", "assistant", <<part>>))
      ELSE <<Message("message", "assistant", parts)>>

Reply ==
  /\ pc = "upstream" /\ turns < MaxTurns
  /\ \E n \in 0..(IF request.soft THEN MaxCalls - Len(CallsOf(history)) ELSE 0) :
     \E before \in {<<>>, <<Part("text", Fresh(1))>>} :
     \E after \in {<<>>} \union (IF ToChat \/ n = 0 THEN {} ELSE {<<Part("text", Fresh(n + 2))>>}) :
       LET calls == [i \in 1..n |-> Part("call", Fresh(i + 1))]
       IN  /\ before # <<>> \/ n > 0
           /\ before = <<>> \/ after = <<>>  \* bound: one text
           /\ history' = history \o Answers(before, calls, after)
           /\ pending' = {calls[i].n : i \in 1..n}
           /\ IF n = 0 THEN UNCHANGED known ELSE Memory!Remember(pending')
  /\ request' = Nothing /\ madeWith' = None
  /\ pc' = "client"
  /\ UNCHANGED <<path, system, turns>>

Next == Ask \/ Forget \/ Send \/ Reply

Spec == Init /\ [][Next]_vars

-----------------------------------------------------------------------------
(* Properties *)

TypeOK ==
  /\ pc \in {"client", "proxy", "upstream", "refused"} /\ path \in Path
  /\ turns \in 0..MaxTurns
  /\ pending \subseteq {part.n : part \in Range(CallsOf(history))}
  /\ known \subseteq {part.n : part \in Range(CallsOf(history))}
  /\ request = Refused <=> pc = "refused"
  /\ request = Nothing <=> pc \in {"client", "proxy"}
  /\ madeWith \in Setting \union {None}

Speaker(message) ==
  CASE message.role \in {"system", "developer"} -> "system"
    [] message.role = "assistant" \/ message.type = "function_call" -> "assistant"
    [] OTHER -> "user"

\* The parts of these kinds, each with the place of its message and who says it.
Block(at, by, parts) == Each(parts, LAMBDA part : [at |-> at, by |-> by, part |-> part])
Spoken(instructions, messages, kinds) ==
  Block(0, "system", Only(instructions, kinds))
    \o FlattenSeq([i \in DOMAIN messages |->
                    Block(i, Speaker(messages[i]), Only(messages[i].parts, kinds))])

\* What the upstream should read for a part: with soft tools, and always over chat
\* completions, it knows of calls and results only as text.
Rendering(part) ==
  IF (~request.soft /\ ~ToChat) \/ (IsCall(part) /\ path = "responses") THEN part
  ELSE Formatted(part)

\* All that was said reaches the upstream at every turn, once, in order, said by whoever
\* said it, and a result with the name of its call unless the store has forgotten it.
\* Within a message, results may come before text and text before calls.  Over chat
\* completions, a result with no content is left out; a call in a Responses history stays
\* an item, though the upstream is told of no tools.
HistoryReaches ==
  /\ TypeOK
  /\ pc = "upstream" =>
      LET said == Spoken(system, history, IF ToChat THEN Said \ {"empty"} ELSE Said)
          read == Spoken(request.system, request.messages, Said \union Written)
          Carries(i, j) == read[j].part = Rendering(said[i].part) /\ read[j].by = said[i].by
      IN  /\ Len(read) = Len(said)
          /\ \A i \in DOMAIN said : \E j \in DOMAIN read :
               /\ Carries(i, j)
               /\ \A k \in 1..(i - 1) :
                    said[k].at < said[i].at \/ said[k].part.kind = said[i].part.kind =>
                      \E l \in 1..(j - 1) : Carries(k, l)

\* What a user last said, but for results that are messages of a tool.
UserMessages ==
  {i \in DOMAIN history :
     history[i].role = "user" /\ (ToChat => Only(history[i].parts, {"text"}) # <<>>)}

\* Where the code goes wrong by an empty result that is dropped, which moves all that
\* follows one place up, and by an item without a type.
Misplaced ==
  \/ ToChat /\ \E part \in Range(PartsOf(history)) : part.kind = "empty"
  \/ path = "responses" /\ UserMessages # {} /\ history[Max(UserMessages)].type = "untyped"

\* With soft tools, and only then, the upstream is given the prompt, once, where the
\* settings want it: those of the upstream before those of the features, whatever the
\* history has been through.  In front of the last thing the user said, which in the
\* Anthropic protocol may be a result; or else in front of the system text or of all
\* messages.  With the role of a user or an assistant and no target, the documentation says
\* in front of all messages and the code takes the system text: either will do.
PromptPlaced ==
  pc = "upstream" =>
    LET read   == Spoken(request.system, request.messages, Said \union Written \union {"prompt"})
        places == {i \in DOMAIN read : read[i].part = Prompt}
        target == FirstNonEmpty(madeWith.upstream.target, madeWith.features.target)
        role   == FirstNonEmpty(madeWith.upstream.role, madeWith.features.role)
        last   == history[Max(UserMessages)]
        first  == IF ToChat THEN Only(last.parts, {"text"})[1] ELSE last.parts[1]
    IN  /\ request.soft = madeWith.functionCalling
        /\ Cardinality(places) = IF request.soft THEN 1 ELSE 0
        /\ \A i \in places :
             IF target = "last_user_message"
             THEN IF UserMessages = {} THEN i = Len(read) /\ read[i].by = "user"
                  ELSE Misplaced \/ /\ i < Len(read)
                                    /\ read[i + 1] = [read[i] EXCEPT !.part = Rendering(first)]
                                    /\ read[i].by = "user"
             ELSE IF ToChat \/ (target = "message" /\ (path = "anthropic" => IsConversationRole(role)))
             THEN /\ read[i].at = 1 /\ (i > 1 => read[i - 1].at = 0)
                  /\ IsConversationRole(role) => read[i].by = role
                  /\ role \in {"", "system", "developer"} => read[i].by = "system"
             ELSE \/ i = 1 /\ read[i].at = 0
                  \/ /\ target = "" /\ IsConversationRole(role) /\ read[i].by = role
                     /\ read[i].at = 1 /\ (i > 1 => read[i - 1].at = 0)

=============================================================================
