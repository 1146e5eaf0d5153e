------------------------------ MODULE MCReconcile ------------------------------
(* One run, in a workspace or without one. *)
EXTENDS Reconcile

MCWorkspace == [r \in Runs |-> "ws"]
MCNoWorkspace == [r \in Runs |-> NoWorkspace]
================================================================================
