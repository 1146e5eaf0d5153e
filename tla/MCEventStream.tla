----------------------------- MODULE MCEventStream ------------------------------
(* With the views a panel polls beside the stream, checked as assumptions. *)
EXTENDS EventStream, RunViewsChecks
================================================================================
