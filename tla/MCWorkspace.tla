---------------------------- MODULE MCWorkspace ----------------------------
(* Instances of the workspace for TLC.                                     *)
EXTENDS Workspace, TLC

CONSTANTS o1, o2, r1, r2

MCObjectives == {o1, o2}
MCRequests == {r1, r2}
MCSymmetry == Permutations(MCObjectives) \cup Permutations(MCRequests)
=============================================================================
