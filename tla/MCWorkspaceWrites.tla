------------------------- MODULE MCWorkspaceWrites -------------------------
(***************************************************************************)
(* WorkspaceWrites for TLC.  Inputs are only compared with each other, so  *)
(* behaviours that differ in their names are the same.                     *)
(***************************************************************************)
EXTENDS WorkspaceWrites, TLC

InputSymmetry == Permutations(Inputs)
=============================================================================
