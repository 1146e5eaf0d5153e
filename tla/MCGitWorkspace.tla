----------------------------- MODULE MCGitWorkspace -----------------------------
EXTENDS GitWorkspace
================================================================================
