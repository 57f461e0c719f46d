--------------------------- MODULE MCConversation ---------------------------
(* Model checking of Conversation. *)
EXTENDS Conversation

Paths == {"chat", "responses", "responses_chat", "anthropic", "anthropic_chat"}

With(target, role) == [target |-> target, role |-> role]
Choice(on, convert, upstream, features) ==
  [functionCalling |-> on, convertDeveloper |-> convert, upstream |-> upstream, features |-> features]

\* Every target and every role, alone and together, from the one or the other, and both.
Wanted == {With("auto", ""), With("message", ""), With("", "user")}
Settings ==
  {Choice(TRUE, FALSE, With("", ""), wanted) : wanted \in Wanted}
    \union {Choice(TRUE, TRUE, With("system", ""), With("last_user_message", "assistant")),
            Choice(TRUE, TRUE, With("last_user_message", ""), With("message", "assistant")),
            Choice(TRUE, FALSE, With("message", "user"), With("system", "assistant")),
            Choice(FALSE, FALSE, With("", ""), With("last_user_message", ""))}

=============================================================================
