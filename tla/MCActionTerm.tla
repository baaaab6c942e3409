------------------------------ MODULE MCActionTerm ------------------------------
(***************************************************************************)
(* ActionTerm for TLC: the sets its configuration takes values from.       *)
(***************************************************************************)
EXTENDS ActionTerm

\* Setters and getters in either order, none, one or two, one of them twice.
Names(a, b) == {<<>>, <<a>>, <<b, a>>, <<a, a, b>>}
ColumnChoices ==
  [scalarIn : Names("s", "t"), vectorIn : Names("v", "w"),
   scalarOut : {<<>>, <<"p", "p", "q">>}, vectorOut : {<<"c">>, <<"c", "c", "d">>}]

\* Torques at, between and beyond the randomized limits.
TorqueChoices == {-103, -97, 0, 60, 97, 103}

SmallOnsets == {0, 1}
SmallNominals == {0, 3}
SmallRaws == {-2, 0, 1}
SmallPulls == {-2, 1}
SmallResiduals == {-8, 0, 8}
=============================================================================
