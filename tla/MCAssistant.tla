----------------------------- MODULE MCAssistant -----------------------------
(* TLC instance of Assistant alone, for the run on what the panel promises.  *)
EXTENDS Assistant
Spec == AssistantSpec
=============================================================================
