-------------------------- MODULE MCAchievementState --------------------------
(***************************************************************************)
(* AchievementState for TLC.  Checkpoints are only compared for equality,  *)
(* so their permutations are a symmetry of the hysteresis.                 *)
(***************************************************************************)
EXTENDS AchievementState, TLC

CheckpointSymmetry == Permutations(Checkpoints)

=============================================================================
