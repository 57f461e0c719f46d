------------------------------ MODULE MCDetector ------------------------------
(* Model checking of StreamingFunctionCallDetector.  The real tags and the  *)
(* real trigger start with "<" and share nothing after it; a fence repeats  *)
(* one character.  Two-character stand-ins keep both facts.                 *)
EXTENDS StreamingFunctionCallDetector

Chars    == {"<", "o", "c", "T", "f"}
OpenTag  == <<"<", "o">>
CloseTag == <<"<", "c">>
Signal   == <<"<", "T">>
OneFence == {<<"f", "f">>}

=============================================================================
