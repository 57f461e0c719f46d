------------------------------ MODULE ChatEvents ------------------------------
(***************************************************************************)
(* proxyStream (upstream_proxy.go) and emitPreparedToolCalls               *)
(* (soft_tools.go): the emitter that renders a turn as chunks of a chat    *)
(* completion.  It keeps nothing from callback to callback; "view" is the  *)
(* message a client has assembled from the chunks so far.                  *)
(*                                                                         *)
(* Definitions ending in _Bug are the plausible slips the properties are   *)
(* tested against; nothing here uses them.                                 *)
(***************************************************************************)
EXTENDS Integers, Sequences

CONSTANT Chunk   \* pieces of text or thinking an upstream can send

VARIABLES
  phase,   \* of CallbackProtocol
  view     \* the message the client has assembled

Callbacks == INSTANCE CallbackProtocol

Message ==
  [content : Seq(Chunk), reasoning_content : Seq(Chunk), tool_calls : Nat,
   finish_reason : {"none", "tool_calls"}, error : BOOLEAN, done : BOOLEAN]

-----------------------------------------------------------------------------

Init ==
  /\ Callbacks!PhaseInit
  /\ view = [content |-> <<>>, reasoning_content |-> <<>>, tool_calls |-> 0,
             finish_reason |-> "none", error |-> FALSE, done |-> FALSE]

OnThinking(delta) ==
  /\ Callbacks!CallThinking
  /\ view' = [view EXCEPT !.reasoning_content = Append(@, delta)]

OnText(delta) ==
  /\ Callbacks!CallText
  /\ view' = [view EXCEPT !.content = Append(@, delta)]

\* The chunk with the calls is the last one: none has the reason.
OnToolCalls_Bug(n) ==
  /\ Callbacks!CallToolCalls
  /\ view' = [view EXCEPT !.tool_calls = @ + n]

\* A chunk with all calls, then one with the reason.
OnToolCalls(n) ==
  /\ Callbacks!CallToolCalls
  /\ view' = [view EXCEPT !.tool_calls = @ + n, !.finish_reason = "tool_calls"]

OnError ==
  /\ Callbacks!CallError
  /\ view' = [view EXCEPT !.error = TRUE]

\* [DONE]: a turn without tool calls ends without a finish_reason.
OnDone ==
  /\ Callbacks!CallDone
  /\ view' = [view EXCEPT !.done = TRUE]

NoCalls ==
  /\ Callbacks!Abort
  /\ UNCHANGED view

TypeOK == Callbacks!PhaseTypeOK /\ view \in Message

=============================================================================
