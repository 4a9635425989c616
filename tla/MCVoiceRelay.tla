---------------------------- MODULE MCVoiceRelay ----------------------------
(***************************************************************************)
(* Three tool calls and a limit of two per response: rounds of one and two *)
(* calls, a round after a round, outputs in any order, and a response that *)
(* is cut for looping, before or after the provider has finished it.       *)
(***************************************************************************)
EXTENDS VoiceRelay

CONSTANTS c1, c2, c3

MCCalls == {c1, c2, c3}
=============================================================================
