------------------------------ MODULE MCWorktrees -------------------------------
EXTENDS Worktrees, RunInputsChecks

MCSymmetry == Permutations(Name) \cup Permutations(Branch) \cup Permutations(Project)
                \cup Permutations(Creator)
================================================================================
