------------------------------ MODULE Environment ------------------------------
(***************************************************************************)
(* What an environment is built from and disturbed by: the kicks and the   *)
(* interval pushes that set a velocity (VelocityKicks), the impulses under *)
(* the ladder or the achievement stages, and the configuration of the      *)
(* tasks, with the parameters of each.  The parts share no state, so a     *)
(* behaviour moves one of them and leaves the others in their initial      *)
(* state.                                                                  *)
(***************************************************************************)
EXTENDS VelocityKicks, Sequences

CONSTANTS
  Mixtures, PushWarmup, Low, High, ShortPush, LongPush,
  LadderAdvance, LadderRegress,               \* ImpulseSchedule, with the same episode cap
  Joints, Legs, UpperBody, Limit, Stiffness   \* TaskConfiguration

VARIABLES
  part,
  iKind, iLength, iSince, next, wrench, remaining, lastLevel, level, rung, iSmoothed,
  enabled, iPc, worn, cohort, evidence, pushes,
  options, tPc, scales, residual, heap, groups, corruption, lag, events, rewards,
  curriculum, commands

impulseVars ==
  <<iKind, iLength, iSince, next, wrench, remaining, lastLevel, level, rung, iSmoothed,
    enabled, iPc, worn, cohort, evidence, pushes>>
taskVars ==
  <<options, tPc, scales, residual, heap, groups, corruption, lag, events, rewards,
    curriculum, commands>>

Impulse == INSTANCE ImpulseSchedule WITH
  Warmup <- PushWarmup, Advance <- LadderAdvance, Regress <- LadderRegress,
  kind <- iKind, length <- iLength, since <- iSince, smoothed <- iSmoothed, pc <- iPc
Task == INSTANCE TaskConfiguration WITH pc <- tPc

ASSUME PartsAssumption == Impulse!ScheduleAssumption /\ Task!ConfigurationAssumption

EnvironmentInit ==
  /\ part \in {"kicks", "impulses", "task"}
  /\ Init /\ Impulse!Init /\ Task!Init
  /\ part # "kicks" => kind = "once"
  /\ part # "impulses" => iKind = "stratified"
  /\ part # "task" => options = CHOOSE o \in Task!Options : TRUE

EnvironmentNext ==
  \/ part = "kicks" /\ Next /\ UNCHANGED <<part, impulseVars, taskVars>>
  \/ part = "impulses" /\ Impulse!Next /\ UNCHANGED <<part, vars, taskVars>>
  \/ part = "task" /\ Task!Next /\ UNCHANGED <<part, vars, impulseVars>>

environmentVars == <<part, vars, impulseVars, taskVars>>

EnvironmentSpec == EnvironmentInit /\ [][EnvironmentNext]_environmentVars
-----------------------------------------------------------------------------
\* The wrench in force is a push of this episode, of the level drawn at its reset, whatever
\* mixture is in force by now.  Every push that is due under the ladder happens, acts for
\* exactly its duration unless a reset cuts it short, keeps its distance to the last one and
\* ends with its episode; the ladder moves on episodes finished under the rung it leaves.
ImpulsesAreDelivered ==
  /\ [](/\ Impulse!TypeOK /\ Impulse!WrenchIsThisEpisodes
        /\ Impulse!AgeIsThisEpisodes /\ Impulse!PushIsTheCohorts)
  /\ Impulse!DeliveredImpulse /\ Impulse!SpacedPushes /\ Impulse!LadderNeedsEvidence
  /\ [][iKind = "stratified" => Impulse!DuePushIsMade]_impulseVars

\* docs/difficulty.md: existing episodes keep their sampled level when a report arrives, so
\* that a due environment is pushed under the achievement stages as well (violated).
DuePushesHappen == [][iKind = "achievement" => Impulse!DuePushIsMade]_impulseVars

\* Whatever is asked for and edited afterwards: one scale for every actuator and within the
\* hardware, a critic that sees the truth, references that resolve, and a comparison or a
\* profile without a randomization it is not about.
TaskIsConsistent ==
  /\ Task!TypeOK /\ Task!ScalesPartitionTheActuators /\ Task!AuthorityIsWithinTheHardware
  /\ Task!CriticSeesTheTruth /\ Task!ReferencesResolve /\ Task!NominalIsNominal
  /\ Task!OneComponentRemains
=============================================================================
