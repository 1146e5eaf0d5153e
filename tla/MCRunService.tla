------------------------------ MODULE MCRunService ------------------------------
(* Two runs in the one workspace "ws". *)
EXTENDS RunService

MCWorkspace == [r \in Runs |-> "ws"]
================================================================================
