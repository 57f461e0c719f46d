-------------------------- MODULE MCSoftToolRequest --------------------------
(* Model checking of SoftToolRequest and SoftToolMeaning. *)
EXTENDS SoftToolMeaning

\* Zero, and one beyond each end of what is used as it is: no retry, or five.
Settings == {-1, 0, 6}

key(a) == <<a>>
Keys == <<key("any"), key("flag"), key("list"), key("maybe"), key("n"),
          key("o"), <<"o", "x">>, key("q"), key("ratio"), key("rows"), key("u"), key("x")>>

Type(t) == [type |-> t]
Find ==
  [type |-> <<"object">>, required |-> {key("q")},
   properties |->
        key("q") :> Type(<<"string">>)             @@ key("n") :> Type(<<"integer">>)
     @@ key("u") :> Type(<<"string", "integer">>)  @@ key("flag") :> Type(<<"boolean">>)
     @@ key("maybe") :> Type(<<"string", "null">>)
     @@ key("any") :> NoSchema                     @@ key("ratio") :> Type(<<"number">>)
     @@ key("o") :> [properties |-> key("x") :> Type(<<"string">>)]
     @@ key("list") :> [items |-> Type(<<"string">>)]
     @@ key("rows") :> [type |-> <<"array">>, items |-> [additionalProperties |-> Type(<<"integer">>),
                                                        type |-> <<"object">>]]]
TheTools == "find" :> Find @@ "ping" :> NoSchema

Choice(word, name) == [word |-> word, name |-> name]
\* The choice is made with the parser that reads every format.
SoftTools ==
  [protocol : {"xml", "sentinel_json", "markdown_block"}, choice : {Choice("auto", "")}]
    \union [protocol : {"markdown_block"}, choice : {Choice("none", ""), Choice("named", "find")}]

Word == Text("word", None, "plain", "")
Strings ==
  {Word, EmptyText,
   Text("word", None, "padded", ""), Text("word", None, "ended", ""),
   Text("word", None, "lines", ""), Text("word", None, "lines", "fence"),
   Text("word", None, "plain", "header"), Text("word", None, "plain", "think"),
   Text("word", None, "plain", "entity"), Text("word", Object(<<>>), "lines", ""),
   Text("1.0", Number(2), "plain", ""), Text("4.0", Number(8), "plain", ""),
   Text("quoted", String(Text("json", Number(2), "plain", "")), "plain", "")}
  \union {TextOf(value) : value \in {Number(2), Number(8), Number(1), Boolean(TRUE),
                                     Array(<<>>), Object(<<>>)}}
  \union {Text("null", Null, "plain", "")}

Scalars == {String(text) : text \in Strings}
             \union {Number(2), Number(1), Number(8), Boolean(FALSE), Null}
Compounds == {Object(<<>>), Object(key("x") :> Number(2)), Object(key("x") :> String(Word)),
              Array(<<>>), Array(<<Number(2)>>), Array(<<String(Word), String(TextOf(Number(2)))>>),
              Array(<<Object(key("x") :> Number(2))>>), Array(<<Array(<<>>)>>)}

\* What reads as JSON, or is JSON.
Readings == {v \in Scalars : Is(v, "string") => ~Is(v.string.reads, "none")} \union {String(Word)}

WithQ(args) == args @@ key("q") :> String(Word)
Call(args) == [name |-> "find", args |-> args]

OneArgument ==
  {key("q") :> v : v \in Scalars \union Compounds}
    \union {WithQ(key(k) :> v) : k \in {"n", "u", "maybe", "any"}, v \in Readings}
    \union {WithQ(key(k) :> v) : k \in {"o", "list", "rows", "any"}, v \in Compounds}
Odd == {<<>>, key("n") :> Number(2), WithQ(<<"o", "x">> :> Number(2)),
        WithQ(<<"o", "x">> :> Number(2) @@ key("o") :> Number(1)),
        WithQ(key("x") :> Number(2)),
        WithQ(key("o") :> Object(key("x") :> String(Word)) @@ key("list") :> Array(<<Number(2), Number(1)>>))}
Fenced == Call(key("q") :> String(Text("word", None, "lines", "fence")))
\* An argument in which a fence is found, before one that is required and one that is not.
FencedThenMore == {Call(key(k) :> String(Text("word", None, "lines", "fence")) @@ rest) :
                     <<k, rest>> \in {<<"n", key("q") :> String(Word)>>, <<"q", key("u") :> Number(2)>>}}
Ping == [name |-> "ping", args |-> <<>>]
Coerced ==
  {<<Call(WithQ(key(k) :> v))>> :
     k \in {"n", "flag", "maybe", "ratio"}, v \in {Number(2), Number(8), String(TextOf(Number(2))), Null}}
Several ==
  {<<Call(args)>> : args \in Odd}
    \union {<<Ping>>, <<[Ping EXCEPT !.args = <<"o", "x">> :> Number(2)]>>,
            <<[name |-> "unknown", args |-> <<>>]>>, <<>>,
            <<Ping, Call(WithQ(<<>>))>>, <<Call(WithQ(<<>>)), Ping>>,
            <<Fenced, Ping>>, <<Ping, Call(<<>>)>>}
Lists == {<<Call(args)>> : args \in OneArgument} \union Several

\* Sentinel JSON carries any value as it is: of one argument, only what is coerced.
Messages ==
  {Whole(format, calls) : format \in {"xml", "markdown_block"}, calls \in Lists}
    \union {Whole("sentinel_json", calls) : calls \in Coerced \union Several}
    \union {CutOff(format, <<Call(WithQ(<<>>)), Ping>>, n, 0) :
              format \in {"xml", "sentinel_json", "markdown_block"}, n \in 0..2}
    \union {CutOff("markdown_block", <<Ping, call, Ping>>, 1, lines) :
              call \in FencedThenMore, lines \in 0..3}
    \union {CutOff("markdown_block", <<Fenced, Ping>>, 1, lines) : lines \in 0..1}

\* One text, or a few of them with others around.
Few == {Plain, Whole("xml", <<Call(WithQ(<<>>))>>), Whole("markdown_block", <<Ping>>),
        CutOff("sentinel_json", <<Ping>>, 0, 0)}
Responses == BoundedSeq(Few, 2) \union {<<message>> : message \in Messages}

Texts == UNION {Range(response) : response \in Responses} \ {Plain}

=============================================================================
