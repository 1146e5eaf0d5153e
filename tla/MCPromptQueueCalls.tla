-------------------------- MODULE MCPromptQueueCalls --------------------------
(* Small instances of PromptQueueCalls: reorders move a prompt to the front,  *)
(* which is what takes the current prompt away from a waiting one.            *)
EXTENDS PromptQueueCalls

MCNewPositions == {1}
==============================================================================
