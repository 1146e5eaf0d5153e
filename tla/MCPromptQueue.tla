---------------------------- MODULE MCPromptQueue ----------------------------
(* Small instances of PromptQueue: positions in front of, between and behind  *)
(* the ones add-at-end hands out, and reorder targets beyond both ends.       *)
EXTENDS PromptQueue

MCAddPositions == {0, 2}
MCNewPositions == {-1, 1, 2, 9}
==============================================================================
