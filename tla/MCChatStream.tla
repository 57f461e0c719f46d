----------------------------- MODULE MCChatStream -----------------------------
(* Model checking of ChatStream.  The detector is checked on its own; here  *)
(* a trigger of two characters is enough to have tails that are held back.  *)
EXTENDS ChatStream

OpenTag   == <<"open">>
CloseTag  == <<"close">>
Signal    == <<"trig", "ger">>
NoFence   == {}

PlainChars == {"trig", "ger"}
CallChars ==
  LET Call_(f, v) == [format |-> f, valid |-> v] IN
  [invoke    |-> Call_("xml", TRUE),            badInvoke |-> Call_("xml", FALSE),
   json      |-> Call_("sentinel_json", TRUE),
   mbcall    |-> Call_("markdown_block", TRUE), badMbcall |-> Call_("markdown_block", FALSE)]
Chars ==
  PlainChars \union DOMAIN CallChars
    \union {"open", "close", "endTag", "mbtoolcalls", "fence"}

=============================================================================
