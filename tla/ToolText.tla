------------------------------ MODULE ToolText ------------------------------
(***************************************************************************)
(* Tool calls as text.  A call is written in one of three formats          *)
(* (FormatAssistantToolCallsForAI shows the model how, message.go), read   *)
(* back by the parser of the protocol in use (parser.go), fitted to the    *)
(* schemas of the tools (tool_schema_normalizer.go) and admitted or not    *)
(* (validateParsedToolCalls, soft_tools.go).                               *)
(*                                                                         *)
(* A JSON value is a record with one field, named for its type.  Numbers   *)
(* are counted in halves, so 2 is the number one and an odd count is not   *)
(* an integer.  A string is a text, known by                               *)
(*   word   what distinguishes it, "json" for what json.Marshal writes     *)
(*   reads  the JSON value it parses as, None if it is not JSON            *)
(*   form   "plain"; "padded" with blanks; "ended" by a newline; "lines"   *)
(*   holds  "fence" a line of its own that is a fence; "header" the word   *)
(*          mbcall: before a name; "think" a whole think block; "entity"   *)
(*          an HTML entity; "cut" or "" for none of these                  *)
(* The key of an argument is a sequence of atoms, several if it is dotted. *)
(*                                                                         *)
(* Left out: text written so badly that jsonrepair or the regular          *)
(* expressions after xml.Unmarshal are needed, keys ending in [] or @json, *)
(* arguments that are not an object, and headers within arrays of objects. *)
(*                                                                         *)
(* Definitions ending in _Bug are the plausible slips the properties are   *)
(* tested against; nothing here uses them.                                 *)
(***************************************************************************)
EXTENDS Integers, Sequences, SequencesExt, TLC

\* Values have values inside them.  What becomes of those is a parameter, so that there is
\* no recursion here, and what does not depend on them can be proved.
CONSTANTS
  Tools,                \* the tools of the request: name to schema
  MarkdownCalls(_),     \* what is read of a message in markdown, see MarkdownBlock
  NormalizeInner(_, _)  \* NormalizeValue, of a value in an object or an array

None       == [none |-> TRUE]
Null       == [null |-> TRUE]
Number(n)  == [number |-> n]
Boolean(b) == [boolean |-> b]
String(t)  == [string |-> t]
Object(f)  == [object |-> f]
Array(s)   == [array |-> s]
Is(value, type) == type \in DOMAIN value

Text(word, reads, form, holds) ==
  [word |-> word, reads |-> reads, form |-> form, holds |-> holds]
EmptyText == Text("", None, "plain", "")

\* stringifyValue: null is written as nothing.
TextOf(value) ==
  CASE Is(value, "string") -> value.string
    [] Is(value, "null")   -> EmptyText
    [] OTHER               -> Text("json", value, "plain", "")

CoerceJSON(text) == IF Is(text.reads, "none") THEN String(text) ELSE text.reads

\* What is left of a text in which one thing was found, and taken out.
Cut(text) == [text EXCEPT !.holds = "cut"]

Trim(text) == IF text.form = "lines" THEN text ELSE [text EXCEPT !.form = "plain"]

-----------------------------------------------------------------------------
(* XML *)

FormatXML(call) ==
  [name |-> call.name, params |-> [key \in DOMAIN call.args |-> TextOf(call.args[key])]]

\* The entities are decoded by the XML decoder, and what comes out is unescaped again.
ExtractXMLText(text) ==
  IF text.holds = "entity" THEN Cut(Trim(text)) ELSE Trim(text)

ParseInvokeXML(invoke) ==
  [name |-> invoke.name,
   args |-> [key \in DOMAIN invoke.params |-> CoerceJSON(ExtractXMLText(invoke.params[key]))]]

-----------------------------------------------------------------------------
(* A message: calls in a format, whole, or cut off after n of the calls and so *)
(* many lines of the next                                                      *)

Whole(format, calls) ==
  [format |-> format, calls |-> calls, written |-> Len(calls), more |-> 0, closed |-> TRUE]
CutOff(format, calls, n, more) ==
  [format |-> format, calls |-> calls, written |-> n, more |-> more, closed |-> FALSE]

\* Each parser reads its own format; the one for markdown reads all three, and checks
\* keys against the tools.  XML needs no closing tag: the invokes that are whole are
\* calls.  Markdown needs a fence, but may find one within a value.
Parse(message, protocol) ==
  CASE message.format = "xml" /\ protocol \in {"xml", "markdown_block"} ->
         [i \in 1..message.written |-> ParseInvokeXML(FormatXML(message.calls[i]))]
    [] message.format = "sentinel_json" /\ protocol \in {"sentinel_json", "markdown_block"} ->
         IF message.closed THEN message.calls ELSE <<>>
    [] message.format = "markdown_block" /\ protocol = "markdown_block" ->
         MarkdownCalls(message)
    [] OTHER -> <<>>

-----------------------------------------------------------------------------
(* Normalization.  A schema is a record of those of type, properties,         *)
(* additionalProperties, items and required that it has; NoSchema has none.   *)
(* Normalizing for a type gives None where the code gives false.              *)

NoSchema == <<>>

\* int64, of three bits.  The upper bound of the code's check is float64(maxToolInt64),
\* which is rounded up to the first number out of range.
MinToolInt64 == -4
MaxToolInt64 == 3

\* Converting that number gives the least or the greatest integer, as the build has it.
Overflow == [overflow |-> TRUE]

PropertiesOf(schema) ==
  IF "properties" \in DOMAIN schema THEN schema.properties ELSE <<>>

\* schemaCandidateTypes
CandidateTypes(schema) ==
  IF "type" \in DOMAIN schema THEN schema.type
  ELSE IF "properties" \in DOMAIN schema THEN <<"object">>
  ELSE IF "items" \in DOMAIN schema THEN <<"array">>
  ELSE <<>>

ItemSchema(schema) == IF "items" \in DOMAIN schema THEN schema.items ELSE NoSchema
ChildSchema(schema, key) ==
  IF key \in DOMAIN PropertiesOf(schema) /\ PropertiesOf(schema)[key] # NoSchema
  THEN PropertiesOf(schema)[key]
  ELSE IF "additionalProperties" \in DOMAIN schema THEN schema.additionalProperties
  ELSE NoSchema

Canonical(text) == text.word = "json"

IntegerOf(n) ==
  CASE n % 2 = 1 \/ n < 2 * MinToolInt64 \/ n > 2 * (MaxToolInt64 + 1) -> None
    [] n = 2 * (MaxToolInt64 + 1) -> Overflow
    [] OTHER -> Number(n)

\* Digits are parsed as an integer, other numbers as a float.
ParseIntegerString(text) ==
  CASE ~Is(text.reads, "number") -> None
    [] Canonical(text) /\ text.reads.number > 2 * MaxToolInt64 -> None
    [] OTHER -> IntegerOf(text.reads.number)

NormalizeString(value, coerce) ==
  CASE Is(value, "string") -> value
    [] coerce /\ (Is(value, "number") \/ Is(value, "boolean")) -> String(TextOf(value))
    [] OTHER -> None

NormalizeInteger(value, coerce) ==
  CASE Is(value, "number") -> IntegerOf(value.number)
    [] coerce /\ Is(value, "string") -> ParseIntegerString(value.string)
    [] OTHER -> None

NormalizeNumber(value, coerce) ==
  CASE Is(value, "number") -> value
    [] coerce /\ Is(value, "string") /\ Is(value.string.reads, "number") -> value.string.reads
    [] OTHER -> None

\* strconv.ParseBool takes 1 and 0 as well.
NormalizeBoolean(value, coerce) ==
  CASE Is(value, "boolean") -> value
    [] coerce /\ Is(value, "string") /\ Is(value.string.reads, "boolean") -> value.string.reads
    [] coerce /\ Is(value, "string") /\ Canonical(value.string)
         /\ value.string.reads \in {Number(0), Number(2)} -> Boolean(value.string.reads = Number(2))
    [] OTHER -> None

NormalizeNull(value, coerce) ==
  CASE Is(value, "null") -> Null
    [] coerce /\ Is(value, "string") /\ Is(value.string.reads, "null") -> Null
    [] OTHER -> None

\* For an object or an array, ok is shadowed where a string was decoded, so that the
\* decoded value is dropped: no string becomes one.
NormalizeForType(value, type, schema, coerce) ==
  CASE type = "string"  -> NormalizeString(value, coerce)
    [] type = "integer" -> NormalizeInteger(value, coerce)
    [] type = "number"  -> NormalizeNumber(value, coerce)
    [] type = "boolean" -> NormalizeBoolean(value, coerce)
    [] type = "null"    -> NormalizeNull(value, coerce)
    [] type = "object" /\ Is(value, "object") ->
         Object([key \in DOMAIN value.object |->
                   NormalizeInner(value.object[key], ChildSchema(schema, key))])
    [] type = "array" /\ Is(value, "array") ->
         Array([i \in DOMAIN value.array |-> NormalizeInner(value.array[i], ItemSchema(schema))])
    [] OTHER -> None

\* A type that needs coercion is taken before one that fits.
FirstFit_Bug(value, schema) ==
  LET types == CandidateTypes(schema)
      fits  == [i \in DOMAIN types |-> NormalizeForType(value, types[i], schema, TRUE)]
      first == SelectInSeq(fits, LAMBDA fit : ~Is(fit, "none"))
  IN  IF first = 0 THEN None ELSE fits[first]

\* normalizeToolValueWithSchema: every type is tried as it is, then every one with
\* coercion.
FirstFit(value, schema) ==
  LET types == CandidateTypes(schema)
      fits  == [i \in 1..(2 * Len(types)) |->
                  IF i <= Len(types) THEN NormalizeForType(value, types[i], schema, FALSE)
                  ELSE NormalizeForType(value, types[i - Len(types)], schema, TRUE)]
      first == SelectInSeq(fits, LAMBDA fit : ~Is(fit, "none"))
  IN  IF first = 0 THEN None ELSE fits[first]

NormalizeValue(value, schema) ==
  LET fit == FirstFit(value, schema)
  IN  IF CandidateTypes(schema) = <<>> \/ Is(fit, "none") THEN value ELSE fit

\* normalizeToolArgsBySchema
NormalizeArgs(args, schema) ==
  LET normalized == NormalizeValue(Object(args), schema)
  IN  IF Is(normalized, "object") THEN normalized.object ELSE args

-----------------------------------------------------------------------------
(* Validation.  A request has a protocol and a choice: a word, and a name if one *)
(* tool is asked for, "" if not.                                                 *)

Required(schema) == IF "required" \in DOMAIN schema THEN schema.required ELSE {}

\* The choice is satisfied by the first call.
ValidCalls_Bug(calls, softTool) ==
  LET Normalized(call) ==
        [call EXCEPT !.args = NormalizeArgs(call.args, Tools[call.name])]
  IN  IF /\ softTool.choice.word # "none"
         /\ \A i \in DOMAIN calls :
              /\ calls[i].name \in DOMAIN Tools
              /\ Required(Tools[calls[i].name]) \subseteq DOMAIN Normalized(calls[i]).args
         /\ \/ softTool.choice.name = ""
            \/ calls # <<>> /\ calls[1].name = softTool.choice.name
      THEN [i \in DOMAIN calls |-> Normalized(calls[i])]
      ELSE <<>>

\* The arguments are fitted to the schema of the tool first, and one call that is not
\* valid spoils all of them.
ValidCalls(calls, softTool) ==
  LET Normalized(call) ==
        [call EXCEPT !.args = NormalizeArgs(call.args, Tools[call.name])]
  IN  IF /\ softTool.choice.word # "none"
         /\ \A i \in DOMAIN calls :
              /\ calls[i].name \in DOMAIN Tools
              /\ Required(Tools[calls[i].name]) \subseteq DOMAIN Normalized(calls[i]).args
         /\ \/ softTool.choice.name = ""
            \/ Len(calls) = 1 /\ calls[1].name = softTool.choice.name
      THEN [i \in DOMAIN calls |-> Normalized(calls[i])]
      ELSE <<>>

\* parseSoftToolCalls: the calls, none if there are none or they are not valid.
ParseSoftToolCalls(message, softTool) ==
  ValidCalls(Parse(message, softTool.protocol), softTool)

=============================================================================
