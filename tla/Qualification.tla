----------------------------- MODULE Qualification -----------------------------
(***************************************************************************)
(* The evaluations of a trained policy: the paired episodes of one         *)
(* environment, the fixed cohort of a comparison and the verdicts over     *)
(* checkpoints, scenarios and seeds, with the parameters of each.  The     *)
(* parts share no state, so a behaviour moves one of them and leaves the   *)
(* others in their initial state.                                          *)
(***************************************************************************)
EXTENDS Integers, Sequences, FiniteSets

CONSTANTS
  Scenario, PairsPerEnv, FirstPush, PushInterval, RecoveryWindow, EpisodeCap, Durations,
  NumEnvs, Skips, ComparisonCap, Deadline, Terms,
  Campaigns, None

VARIABLES
  suite,
  duration, arm, pair, counts, active, others, pLength, pSince, pWrench, pRemaining, pSteps,
  pLast, pEpisodes, pPc, pWorn, pSeen,
  skip, cLength, sums, frames, skipSums, counter, cEpisodes, cSteps, cleanup, closed, failed,
  cPc, report,
  campaign, at, result, summaries, verdicts, selected, vPc

pairVars ==
  <<duration, arm, pair, counts, active, others, pLength, pSince, pWrench, pRemaining,
    pSteps, pLast, pEpisodes, pPc, pWorn, pSeen>>
cohortVars ==
  <<skip, cLength, sums, frames, skipSums, counter, cEpisodes, cSteps, cleanup, closed,
    failed, cPc, report>>
verdictVars == <<campaign, at, result, summaries, verdicts, selected, vPc>>

Pairs == INSTANCE PairedEvaluation WITH
  Episodes <- PairsPerEnv, First <- FirstPush, Interval <- PushInterval,
  Recovery <- RecoveryWindow, MaxLength <- EpisodeCap,
  length <- pLength, since <- pSince, wrench <- pWrench, remaining <- pRemaining,
  steps <- pSteps, last <- pLast, episodes <- pEpisodes, pc <- pPc, worn <- pWorn,
  seen <- pSeen
Cohort == INSTANCE FixedCohort WITH
  Cap <- ComparisonCap, MaxSteps <- Deadline,
  length <- cLength, episodes <- cEpisodes, steps <- cSteps, pc <- cPc
Verdict == INSTANCE PromotionVerdict WITH pc <- vPc

ASSUME SuiteAssumption ==
  /\ Pairs!EvaluationAssumption /\ Cohort!CohortAssumption /\ Verdict!VerdictAssumption

QualificationInit ==
  /\ suite \in {"pairs", "cohort", "verdict"}
  /\ Pairs!Init /\ Cohort!Init /\ Verdict!Init
  /\ suite # "pairs" =>
       /\ arm = "baseline" /\ others
       /\ duration = [d \in DOMAIN duration |-> CHOOSE t \in Durations : TRUE]
  /\ suite # "cohort" => skip = CHOOSE s \in Skips : TRUE
  /\ suite # "verdict" => campaign = CHOOSE c \in Campaigns : TRUE

QualificationNext ==
  \/ suite = "pairs" /\ Pairs!Next /\ UNCHANGED <<suite, cohortVars, verdictVars>>
  \/ suite = "cohort" /\ Cohort!Next /\ UNCHANGED <<suite, pairVars, verdictVars>>
  \/ suite = "verdict" /\ Verdict!Next /\ UNCHANGED <<suite, pairVars, cohortVars>>

qualificationVars == <<suite, pairVars, cohortVars, verdictVars>>

QualificationSpec == QualificationInit /\ [][QualificationNext]_qualificationVars
-----------------------------------------------------------------------------
\* Both arms of a pair live through the same pushes, every pair ends up with both, and
\* every step and every fall of an episode is booked once.
PairsAreComparable ==
  /\ Pairs!TypeOK /\ Pairs!PairsAreComplete /\ Pairs!SameSchedule
  /\ Pairs!StrataPartitionEpisodes /\ Pairs!CauseIsBookedOnce /\ Pairs!WrenchIsThePairs

\* The comparison takes as many episodes of every environment, whatever their lengths, with
\* exactly their own rewards and frames, and closes what it opened.
CohortIsFair ==
  /\ Cohort!TypeOK /\ Cohort!FirstKOfEveryEnv /\ Cohort!SurvivorsAreWaitedFor
  /\ Cohort!RewardsAreTheWindows /\ Cohort!HistoryIsOneFramePerStep
  /\ Cohort!ControllersCloseFirst

\* A checkpoint is eligible and selected on resolved evidence only: of scenarios that lost
\* no worker, of independent clusters, with a recovery that was measured.
SelectionIsEarned ==
  /\ Verdict!TypeOK /\ Verdict!EligibleIsEarned /\ Verdict!ClustersAreSeedEnvironments
  /\ Verdict!InvalidRecoveryIsNotRead /\ Verdict!RatioIsOverValidScenarios
  /\ Verdict!SelectedIsTheBest

\* docs/evaluation.md#invalidated_scenarios: no gate reads a scenario whose arm lost a
\* worker (violated).
InvalidScenariosAreNotRead == Verdict!InvalidScenariosAreNotRead
=============================================================================
