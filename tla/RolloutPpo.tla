------------------------------ MODULE RolloutPpo ------------------------------
(***************************************************************************)
(* rl/rollout_adaptive_ppo.py on every rank of a training: the mask that   *)
(* goes beside each transition of a rollout, the advantages it selects,    *)
(* and the learning rate that is adapted once per rollout from the KL over *)
(* all of it.  One environment per rank; a rate is a power of 1.5 given by *)
(* its exponent, a KL is in quarters of desired_kl.                        *)
(***************************************************************************)
EXTENDS Integers, Sequences, FiniteSetsExt

CONSTANTS Ranks, Length,  \* processes of the training and transitions of a rollout
          Start, Fast,    \* exponents of the first rate and of the bound 1e-2; 1e-5 has 0
          Masked,         \* whether a mask source is set
          Kls             \* the values of a rank's KL tried

\* What is assumed of the constants.
PpoAssumption ==
  /\ Ranks \in Nat \ {0} /\ Length \in Nat \ {0}
  /\ Fast \in Nat /\ Start \in 0..Fast /\ Masked \in BOOLEAN /\ Kls \subseteq Nat

VARIABLES
  pc,          \* per rank: "rollout", "returns", "update", "reduce" or "adapt"
  cursor,      \* storage.step
  maskSteps,   \* _actor_mask_steps
  masks,       \* _actor_update_masks
  authority,   \* history: the authority the transitions in the storage were executed with
  selected,    \* transitions with an advantage
  kl,          \* schedule_kl of the last update
  rate, used   \* learning_rate, and the one of the optimizer's groups

vars == <<pc, cursor, maskSteps, masks, authority, selected, kl, rate, used>>

Rank == 0..Ranks - 1

Init ==
  /\ pc = [r \in Rank |-> "rollout"] /\ cursor = [r \in Rank |-> 0]
  /\ maskSteps = [r \in Rank |-> 0] /\ masks = [r \in Rank |-> [i \in 1..Length |-> 0]]
  /\ authority = [r \in Rank |-> <<>>] /\ selected = [r \in Rank |-> {}]
  /\ kl = [r \in Rank |-> 0]
  /\ rate = [r \in Rank |-> Start] /\ used = [r \in Rank |-> Start]
-----------------------------------------------------------------------------
\* Mutant: a step without authority leaves the entry of the rollout before.
Recorded_Skips(r, gate) == IF gate > 0 THEN [masks[r] EXCEPT ![maskSteps[r] + 1] = 1] ELSE masks[r]

\* record_actor_update_mask.
Recorded(r, gate) == [masks[r] EXCEPT ![maskSteps[r] + 1] = IF gate > 0 THEN 1 ELSE 0]

\* process_env_step: the mask is read after the environment's step and before the
\* transition is added; cursors that differ raise.
ProcessEnvStep(r) ==
  /\ pc[r] = "rollout" /\ cursor[r] < Length
  /\ Masked => cursor[r] = maskSteps[r]
  /\ \E gate \in 0..2 :
       /\ authority' = [authority EXCEPT ![r] = Append(@, gate)]
       /\ IF Masked THEN /\ masks' = [masks EXCEPT ![r] = Recorded(r, gate)]
                         /\ maskSteps' = [maskSteps EXCEPT ![r] = @ + 1]
          ELSE UNCHANGED <<masks, maskSteps>>
  /\ cursor' = [cursor EXCEPT ![r] = @ + 1]
  /\ pc' = [pc EXCEPT ![r] = IF cursor'[r] = Length THEN "returns" ELSE @]
  /\ UNCHANGED <<selected, kl, rate, used>>

\* _require_complete_actor_masks.
Complete(r) == Masked => maskSteps[r] = Length /\ cursor[r] = Length

\* compute_returns: the advantages of the other transitions are zero.
ComputeReturns(r) ==
  /\ pc[r] = "returns" /\ Complete(r)
  /\ selected' = [selected EXCEPT ![r] = {i \in 1..Length : Masked => masks[r][i] = 1}]
  /\ pc' = [pc EXCEPT ![r] = "update"]
  /\ UNCHANGED <<cursor, maskSteps, masks, authority, kl, rate, used>>

\* next_learning_rate: max and min keep it within the bounds.
NextRate(exponent, mean) ==
  IF mean > 8 THEN Max({0, exponent - 1})
  ELSE IF 0 < mean /\ mean < 2 THEN Min({Fast, exponent + 1}) ELSE exponent

\* Only while the base class optimizes; finally restores the schedule.
ScheduleOfEpochs == "fixed"

\* What the epochs of rsl_rl do: an adaptive schedule steps the rate with every batch; the
\* storage is cleared at their end.
Optimized(r, batch) ==
  IF ScheduleOfEpochs = "adaptive" THEN NextRate(rate[r], batch) ELSE rate[r]

\* update up to the all_reduce of _full_rollout_kl.
Update(r) ==
  /\ pc[r] = "update" /\ Complete(r) /\ pc' = [pc EXCEPT ![r] = "reduce"]
  /\ \E batch \in Kls, rollout \in Kls :
       /\ rate' = [rate EXCEPT ![r] = Optimized(r, batch)]
       /\ kl' = [kl EXCEPT ![r] = rollout]
  /\ used' = [used EXCEPT ![r] = rate'[r]]
  /\ cursor' = [cursor EXCEPT ![r] = 0] /\ authority' = [authority EXCEPT ![r] = <<>>]
  /\ selected' = [selected EXCEPT ![r] = {}]
  /\ UNCHANGED <<maskSteps, masks>>

MeanKl == MapThenSumSet(LAMBDA q : kl[q], Rank) \div Ranks

\* all_reduce waits for every rank.
AllReduce ==
  /\ \A r \in Rank : pc[r] = "reduce" /\ kl' = [q \in Rank |-> MeanKl]
  /\ pc' = [q \in Rank |-> "adapt"]
  /\ UNCHANGED <<cursor, maskSteps, masks, authority, selected, rate, used>>

\* _adapt_learning_rate: rank 0 decides and broadcasts.
Adapted == [r \in Rank |-> NextRate(rate[0], kl[0])]

\* The rate of the next rollout, and the end of update.
AdaptLearningRate ==
  /\ \A r \in Rank : pc[r] = "adapt" /\ pc' = [q \in Rank |-> "rollout"]
  /\ rate' = Adapted /\ used' = rate'
  /\ maskSteps' = [r \in Rank |-> 0]
  /\ UNCHANGED <<cursor, masks, authority, selected, kl>>

Next ==
  \/ \E r \in Rank : ProcessEnvStep(r) \/ ComputeReturns(r) \/ Update(r)
  \/ AllReduce \/ AdaptLearningRate

Spec == Init /\ [][Next]_vars
-----------------------------------------------------------------------------
TypeOK ==
  /\ pc \in [Rank -> {"rollout", "returns", "update", "reduce", "adapt"}]
  /\ cursor \in [Rank -> 0..Length] /\ maskSteps \in [Rank -> 0..Length]
  /\ masks \in [Rank -> [1..Length -> 0..1]] /\ \A r \in Rank : Len(authority[r]) = cursor[r]
  /\ selected \in [Rank -> SUBSET (1..Length)]
  /\ rate \in [Rank -> 0..Fast] /\ used \in [Rank -> 0..Fast]

\* "using stale mask entries": the actor learns from exactly those transitions of this
\* rollout that were executed with authority.
ActorLearnsFromItsActions ==
  Masked => \A r \in Rank : pc[r] = "update" =>
    selected[r] = {i \in 1..Length : authority[r][i] > 0}

\* Every rank optimizes every rollout with one rate, and with the one it reports.
RanksAgree ==
  \A q, r \in Rank : used[r] = rate[r] /\ (pc[q] # "adapt" => rate[q] = rate[r])

\* "measure the rollout, then schedule once": the rate changes only between two rollouts,
\* by one step.
ScheduledOnce ==
  [][\A r \in Rank : rate'[r] # rate[r] =>
       /\ pc[r] = "adapt" /\ pc'[r] = "rollout" /\ rate'[r] - rate[r] \in {-1, 1}]_vars
=============================================================================
