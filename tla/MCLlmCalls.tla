---------------------------- MODULE MCLlmCalls ----------------------------
(* Three articles for two places at the API, so that one waits for the     *)
(* others, and two delays, so that a pause can grow and should not shrink. *)
EXTENDS LlmCalls
=============================================================================
