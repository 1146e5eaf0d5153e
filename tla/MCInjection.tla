------------------------------ MODULE MCInjection -------------------------------
EXTENDS Injection, TLC

MCRequests ==
    {[confirmed |-> TRUE,  allowed |-> FALSE, restore |-> TRUE],
     [confirmed |-> FALSE, allowed |-> TRUE,  restore |-> TRUE],
     [confirmed |-> FALSE, allowed |-> FALSE, restore |-> FALSE]}

MCSymmetry == Permutations(Queue)
================================================================================
