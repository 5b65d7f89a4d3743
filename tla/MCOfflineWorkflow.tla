--------------------------- MODULE MCOfflineWorkflow ---------------------------
(* One discover, a command that resumes its workspace, and an export;       *)
(* commands and proposals are interchangeable.                              *)
EXTENDS OfflineWorkflow, TLC

MCSymmetry == Permutations(Commands) \cup Permutations(Contents)
=============================================================================
