----------------------------- MODULE MCEnvironment -----------------------------
(***************************************************************************)
(* Environment for TLC: the mixtures of both impulse terms, and the robot. *)
(***************************************************************************)
EXTENDS Environment, Functions

PushMixtures ==
  [stratified |-> <<{-1, 0}, {0, 1}, {1, 2}>>, achievement |-> <<{-1, 0}, {-1, 0, 1}>>]

\* A robot with two legs, whose ankles differ in strength, and one arm.
JointOrder == <<"l_hip", "l_pitch", "l_roll", "r_hip", "r_pitch", "r_roll", "arm">>
LegChains ==
  [left |-> <<"l_hip", "l_pitch", "l_roll">>, right |-> <<"r_hip", "r_pitch", "r_roll">>]
Actuated == Range(JointOrder)
Limits == [j \in Actuated |-> IF j \in {"l_roll", "r_roll"} THEN 6 ELSE 60]
Gains == [j \in Actuated |-> IF j \in {"l_pitch", "l_roll"} THEN 2 ELSE 5]
=============================================================================
