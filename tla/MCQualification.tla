---------------------------- MODULE MCQualification ----------------------------
(***************************************************************************)
(* Qualification for TLC: the command lines of a qualification, with the   *)
(* samples that tell the gates apart.                                      *)
(***************************************************************************)
EXTENDS Qualification

Sample(base, policy, change) ==
  [worker |-> FALSE, unsafe |-> FALSE, duty |-> FALSE, early |-> FALSE,
   base |-> base, policy |-> policy, change |-> change]
Good == Sample(TRUE, FALSE, -2)
ManySamples ==
  {Good, Sample(TRUE, TRUE, 0), [Sample(TRUE, TRUE, -2) EXCEPT !.worker = TRUE],
   [Good EXCEPT !.duty = TRUE], [Good EXCEPT !.early = TRUE, !.policy = TRUE],
   Sample(FALSE, TRUE, None), Sample(TRUE, FALSE, -1)}
FewSamples ==
  {Good, Sample(TRUE, FALSE, -1), Sample(TRUE, FALSE, None), [Good EXCEPT !.worker = TRUE]}
WithoutImpulse == <<"nominal", "current_kick", "robust">>

Campaign(checkpoints, scenarios, seeds, envs, samples) ==
  [checkpoints |-> checkpoints, scenarios |-> scenarios, seeds |-> seeds, envs |-> envs,
   samples |-> samples]

\* One checkpoint with every gate, on a single cluster and over two seeds; two checkpoints.
SmallCampaigns ==
  {Campaign(<<1>>, <<"nominal", "finite_impulse", "robust">>, <<42>>, {0, 1}, ManySamples),
   Campaign(<<1>>, WithoutImpulse, <<42>>, {0}, ManySamples),
   Campaign(<<1>>, WithoutImpulse, <<42, 43>>, {0}, ManySamples),
   Campaign(<<1, 2>>, <<"finite_impulse">>, <<42, 43>>, {0}, FewSamples)}

TermOrder == <<"a", "b">>
=============================================================================
