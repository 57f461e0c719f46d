---------------------------- MODULE MarkdownBlock ----------------------------
(***************************************************************************)
(* The third format of ToolText: a block of lines, each of which names a   *)
(* call or gives it an argument.  Values inside others are lines with a    *)
(* path (renderMarkdownArgumentLines, message.go), and put together again  *)
(* line by line (parser.go).                                               *)
(***************************************************************************)
EXTENDS ToolText

CONSTANTS
  KeyOrder   \* the keys, in the order of sort.Strings

-----------------------------------------------------------------------------
(* Markdown: a block is a sequence of lines, each a call or an argument *)

CallLine(name) == [name |-> name]
ArgumentLine(path, append, json, text) ==
  [path |-> path, append |-> append, json |-> json, text |-> text]

SortedKeys(f) == SelectSeq(KeyOrder, LAMBDA key : key \in DOMAIN f)

IsScalar(value) == ~Is(value, "object") /\ ~Is(value, "array")

RECURSIVE RenderArgument(_, _)
RenderArgument(path, value) ==
  CASE Is(value, "object") /\ value.object # <<>> ->
         LET keys == SortedKeys(value.object)
         IN  FlattenSeq([i \in DOMAIN keys |->
                           RenderArgument(path \o keys[i], value.object[keys[i]])])
    [] Is(value, "array") /\ \A i \in DOMAIN value.array : IsScalar(value.array[i]) ->
         [i \in DOMAIN value.array |-> ArgumentLine(path, TRUE, FALSE, TextOf(value.array[i]))]
    [] OTHER -> <<ArgumentLine(path, FALSE, ~IsScalar(value), TextOf(value))>>

FormatMarkdown(call) ==
  <<CallLine(call.name)>> \o
    (IF call.args = <<>> THEN <<>> ELSE RenderArgument(<<>>, Object(call.args)))

\* What the model has written of a message, as far as it came.
WrittenLines(message) ==
  LET calls == message.calls
  IN  FlattenSeq([i \in 1..message.written |-> FormatMarkdown(calls[i])])
        \o (IF message.more = 0 THEN <<>>
            ELSE SubSeq(FormatMarkdown(calls[message.written + 1]), 1, message.more))

\* The first line that is a fence ends the block, whatever comes after it, and if there is
\* none there is no block: a text that was cut off is read if a value holds a fence.
FencePayload(lines, closed) ==
  LET i == SelectInSeq(lines, LAMBDA line : "text" \in DOMAIN line /\ line.text.holds = "fence")
  IN  IF i = 0 THEN IF closed THEN lines ELSE <<>>
      ELSE Append(SubSeq(lines, 1, i - 1),
                  [lines[i] EXCEPT !.text = [Cut(@) EXCEPT !.form = "plain"]])

\* RemoveThinkBlocks, then tokenizeMarkdownMBControlTokens, which finds a header
\* anywhere, not only where a line starts.
Tokens(lines) ==
  FlattenSeq([i \in DOMAIN lines |->
    IF "name" \in DOMAIN lines[i] THEN <<lines[i]>> ELSE
    CASE lines[i].text.holds = "think"  -> <<[lines[i] EXCEPT !.text = Cut(@)]>>
      [] lines[i].text.holds = "header" -> <<[lines[i] EXCEPT !.text = Cut(@)], CallLine("stray")>>
      [] OTHER                          -> <<lines[i]>>])

MarkdownValue(line) ==
  LET text == IF line.text.form = "ended" THEN Trim(line.text) ELSE line.text
  IN  IF line.json \/ text.form # "lines" THEN CoerceJSON(text) ELSE String(text)

\* Without tools to go by, or properties, every key is recognised.
IsRecognizedKey(path, properties) == properties = {} \/ <<path[1]>> \in properties

\* assignMarkdownArgument: None for a key that leads through something not an object.
RECURSIVE AssignArgument(_, _, _, _)
AssignArgument(object, path, append, value) ==
  LET key      == <<path[1]>>
      existing == IF key \in DOMAIN object THEN object[key] ELSE None
      assigned ==
        IF Len(path) > 1
        THEN CASE Is(existing, "none")   -> AssignArgument(<<>>, Tail(path), append, value)
               [] Is(existing, "object") ->
                    AssignArgument(existing.object, Tail(path), append, value)
               [] OTHER -> None
        ELSE CASE Is(existing, "none")  -> IF append THEN Array(<<value>>) ELSE value
               [] Is(existing, "array") -> Array(Append(existing.array, value))
               [] OTHER -> IF append THEN None ELSE Array(<<existing, value>>)
  IN  IF Is(assigned, "none") THEN None ELSE Object(key :> assigned @@ object)

AllowedArgs(name) ==
  IF name \in DOMAIN Tools THEN DOMAIN PropertiesOf(Tools[name]) ELSE {}

\* What the tokens so far give: the calls, or an error, which is for good.
ParseToken(result, token) ==
  LET Argument(call) ==
        LET args == AssignArgument(call.args, token.path, token.append, MarkdownValue(token))
        IN  IF IsRecognizedKey(token.path, AllowedArgs(call.name)) /\ ~Is(args, "none")
            THEN Array(Append(Front(result.array), [call EXCEPT !.args = args.object]))
            ELSE None
  IN  IF Is(result, "none") THEN None
      ELSE IF "name" \in DOMAIN token
      THEN Array(Append(result.array, [name |-> token.name, args |-> <<>>]))
      ELSE IF result.array = <<>> THEN None ELSE Argument(Last(result.array))

ParseMarkdown(lines) ==
  LET result == FoldLeft(LAMBDA so_far, token : ParseToken(so_far, token),
                         Array(<<>>), Tokens(lines))
  IN  IF Is(result, "none") THEN <<>> ELSE result.array

\* What is read of calls as FormatMarkdown writes them; MarkdownCalls of ToolText.
ReadMarkdown(message) == ParseMarkdown(FencePayload(WrittenLines(message), message.closed))

=============================================================================
