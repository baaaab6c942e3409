------------------------------ MODULE TrainingRun ------------------------------
(***************************************************************************)
(* What surrounds and drives a training run: the trainer and the monitors  *)
(* that watch it (TrainingWatchdog), the qualification report, the         *)
(* rollouts of PPO on every rank and the resumes from checkpoints, with    *)
(* the parameters of each.  The parts share no state, so a behaviour moves *)
(* one of them and leaves the others in their initial state.               *)
(***************************************************************************)
EXTENDS TrainingWatchdog

CONSTANTS
  Snapshots, BaselineSamples, HazardMargin, RecoveryMargin, MaxWrites,  \* QualificationWatch
  Ranks, Length, FirstRate, FastestRate, Masked, Kls,                   \* RolloutPpo
  Joints, LastStep, Switch, MaxEdits, EditableKeys                      \* ResumeContract

VARIABLES
  part,
  file, qPc, seen, token, samples, baseline, streak, attachedAt, counted,
  pPc, cursor, maskSteps, masks, authority, chosen, kl, rate, used,
  code, config, files, runtime, edits, running, counter, stage, checkpoint, outcome

reportVars == <<file, qPc, seen, token, samples, baseline, streak, attachedAt, counted>>
ppoVars == <<pPc, cursor, maskSteps, masks, authority, chosen, kl, rate, used>>
resumeVars ==
  <<code, config, files, runtime, edits, running, counter, stage, checkpoint, outcome>>

Reports == INSTANCE QualificationWatch WITH pc <- qPc
Ppo == INSTANCE RolloutPpo WITH
  Start <- FirstRate, Fast <- FastestRate, pc <- pPc, selected <- chosen
Resume == INSTANCE ResumeContract

ASSUME PartsAssumption ==
  /\ Reports!QualificationAssumption /\ Ppo!PpoAssumption /\ Resume!ResumeAssumption

RunInit ==
  /\ part \in {"watchdog", "reports", "ppo", "resume"}
  /\ Init /\ Reports!Init /\ Ppo!Init /\ Resume!Init
  /\ part # "resume" => checkpoint = <<>>

RunNext ==
  \/ part = "watchdog" /\ Next /\ UNCHANGED <<part, reportVars, ppoVars, resumeVars>>
  \/ part = "reports" /\ Reports!Next /\ UNCHANGED <<part, vars, ppoVars, resumeVars>>
  \/ part = "ppo" /\ Ppo!Next /\ UNCHANGED <<part, vars, reportVars, resumeVars>>
  \/ part = "resume" /\ Resume!Next /\ UNCHANGED <<part, vars, reportVars, ppoVars>>

runVars == <<part, vars, reportVars, ppoVars, resumeVars>>

RunSpec == RunInit /\ [][RunNext]_runVars
-----------------------------------------------------------------------------
\* The regression streak is that of the newest reports, none of them from before the
\* monitor attached, and an improvement is none.
ReportsAreEvidence ==
  /\ Reports!TypeOK /\ Reports!OnlyFreshReports /\ Reports!StreakIsTheTail
  /\ Reports!ImprovementIsHealthy

\* The actor learns from exactly the transitions of this rollout that had authority, and
\* all ranks optimize with one rate, which is adapted once between two rollouts.
RolloutIsItsOwn ==
  /\ [](Ppo!TypeOK /\ Ppo!ActorLearnsFromItsActions /\ Ppo!RanksAgree)
  /\ Ppo!ScheduledOnce

\* A load is refused exactly when the controller changed or something its checkpoint
\* recorded did: the actor's interface, and for a full resume the packages and every
\* other parameter as well.  Moved modules, unused impulse defaults and new fields count
\* for nothing, and an accepted resume takes the curriculum up where it was.
ResumesKeepTheContract ==
  /\ Resume!TypeOK /\ Resume!RefusalsAreEarned /\ Resume!FullResumesCompareEverything
  /\ Resume!ActorLoadsCompareTheInterface /\ Resume!ResumeAlignsTheCurriculum
=============================================================================
