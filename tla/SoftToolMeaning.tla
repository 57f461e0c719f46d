--------------------------- MODULE SoftToolMeaning ---------------------------
(***************************************************************************)
(* Whether the calls of a SoftToolRequest are given to the client as the   *)
(* model meant them, with the markdown parser of MarkdownBlock.            *)
(*                                                                         *)
(* The reference is the call the model means.  Conforms says when it       *)
(* agrees with the schema of its tool, by JSON Schema and not by the code; *)
(* Survives says what a format can carry, each conjunct a loss the         *)
(* formatter or the parser has.                                            *)
(***************************************************************************)
EXTENDS SoftToolRequest, MarkdownBlock

HasType(value, type) ==
  CASE type = "integer" -> /\ Is(value, "number") /\ value.number % 2 = 0
                           /\ value.number \in 2 * MinToolInt64..2 * MaxToolInt64
    [] OTHER            -> Is(value, type)

RECURSIVE Conforms(_, _)
Conforms(value, schema) ==
  /\ LET types == CandidateTypes(schema)
     IN  types = <<>> \/ \E i \in DOMAIN types : HasType(value, types[i])
  /\ Is(value, "object") =>
       \A key \in DOMAIN value.object : Conforms(value.object[key], ChildSchema(schema, key))
  /\ Is(value, "array") =>
       \A i \in DOMAIN value.array : Conforms(value.array[i], ItemSchema(schema))

\* A string that reads as JSON comes back as a string only if it is one number or
\* Boolean, written the usual way, and the schema asks for a string and nothing that
\* it also is.
ReadsAsText(text, schema) ==
  \/ Is(text.reads, "none")
  \/ LET types == Range(CandidateTypes(schema))
     IN  /\ Canonical(text) /\ (Is(text.reads, "number") \/ Is(text.reads, "boolean"))
         /\ "string" \in types /\ \A type \in types : ~HasType(text.reads, type)
         /\ "integer" \in types => text.reads # Number(2 * (MaxToolInt64 + 1))

\* XML: blanks at the ends go, entities are unescaped twice, null is nothing.
SurvivesXML(value, schema) ==
  /\ ~Is(value, "null")
  /\ Is(value, "string") =>
       /\ value.string.form \in {"plain", "lines"} /\ value.string.holds # "entity"
       /\ ReadsAsText(value.string, schema)

\* Markdown: an empty list is not written, nor is null; a fence ends the block, a
\* header starts a call, thinking is taken out, a last newline goes; a dotted name is
\* a path.  Several lines are never read as JSON.
RECURSIVE SurvivesMarkdown(_, _)
SurvivesMarkdown(value, schema) ==
  CASE Is(value, "null")   -> FALSE
    [] Is(value, "string") ->
         /\ value.string.form # "ended"
         /\ value.string.holds \notin {"fence", "header", "think"}
         /\ value.string.form = "lines" \/ ReadsAsText(value.string, schema)
    [] Is(value, "object") ->
         \A key \in DOMAIN value.object :
           Len(key) = 1 /\ SurvivesMarkdown(value.object[key], ChildSchema(schema, key))
    [] Is(value, "array")  ->
         /\ value.array # <<>>
         /\ \/ \E i \in DOMAIN value.array : ~IsScalar(value.array[i])
            \/ \A i \in DOMAIN value.array : SurvivesMarkdown(value.array[i], ItemSchema(schema))
    [] OTHER -> TRUE

Survives(format, call, schema) ==
  CASE format = "xml" -> \A key \in DOMAIN call.args :
                           SurvivesXML(call.args[key], ChildSchema(schema, key))
    [] format = "markdown_block" -> SurvivesMarkdown(Object(call.args), schema)
    [] OTHER -> TRUE

\* The calls of a message that is whole, in a format the request reads, all of them
\* allowed and as their schemas say, with nothing the format would lose.
Clear(message) ==
  /\ message.closed /\ message.calls # <<>>
  /\ softTool.protocol \in {message.format, "markdown_block"}
  /\ Allowed(message.calls)
  /\ \A i \in DOMAIN message.calls :
       LET call   == message.calls[i]
           schema == Tools[call.name]
           known  == DOMAIN PropertiesOf(schema)
       IN  /\ Conforms(Object(call.args), schema) /\ Survives(message.format, call, schema)
           /\ message.format = "markdown_block" => known = {} \/ DOMAIN call.args \subseteq known

-----------------------------------------------------------------------------
(* Properties *)

\* Calls the model wrote clearly are given to the client as the model meant them, to
\* the type of every argument: formatting, parsing, coercion by JSON and coercion by
\* schema undo each other (and no such answer is taken for bad and asked for again).
CallsAsMeant ==
  answer.status = 200 /\ softTool # NoSoftTool /\ Decisive(last) # 0 =>
    LET message == last[Decisive(last)]
    IN  Clear(message) => answer.payload[Decisive(last)] = Made(attempt, message.calls)

=============================================================================
