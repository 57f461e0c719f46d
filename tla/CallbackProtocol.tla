-------------------------- MODULE CallbackProtocol --------------------------
(***************************************************************************)
(* What a streaming engine promises the emitter that renders its turn: the *)
(* order in which the functions of a chatStreamCallbacks value are called. *)
(* The engines are streamChatCompletion (stream_helpers.go),               *)
(* streamResponsesUpstream and streamAnthropicUpstream                     *)
(* (same_protocol_tools.go); the emitters are proxyStream                  *)
(* (upstream_proxy.go), streamResponsesWithCallbacks and                   *)
(* streamAnthropicWithCallbacks (protocol_handlers.go).                    *)
(*                                                                         *)
(* A turn is any number of text, thinking and error calls, then at most    *)
(* one batch of tool calls, then exactly one OnDone, and nothing after it. *)
(* An engine that cannot even build its request calls nothing at all.      *)
(***************************************************************************)

VARIABLE
  phase     \* where the turn is: see Phases

Phases == {"idle", "open", "tools", "closed", "aborted"}

PhaseTypeOK == phase \in Phases

PhaseInit == phase = "idle"

CallText ==
  /\ phase \in {"idle", "open"}
  /\ phase' = "open"

CallThinking ==
  /\ phase \in {"idle", "open"}
  /\ phase' = "open"

CallError ==
  /\ phase \in {"idle", "open"}
  /\ phase' = "open"

CallToolCalls ==
  /\ phase \in {"idle", "open"}
  /\ phase' = "tools"

CallDone ==
  /\ phase \in {"idle", "open", "tools"}
  /\ phase' = "closed"

\* json.Marshal or http.NewRequest failed: the engine returns without a call.
Abort ==
  /\ phase = "idle"
  /\ phase' = "aborted"

PhaseNext ==
  CallText \/ CallThinking \/ CallError \/ CallToolCalls \/ CallDone \/ Abort

PhaseSpec == PhaseInit /\ [][PhaseNext]_phase

=============================================================================
