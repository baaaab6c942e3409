--------------------------- MODULE AchievementState ---------------------------
(***************************************************************************)
(* The hysteresis of the achievement curriculum: AchievementState and      *)
(* apply_qualification, over every sequence of held-out reports.           *)
(*                                                                         *)
(* A report is held-out evidence for or against the active stage.  The     *)
(* second passing report in a row promotes the curriculum by one stage,    *)
(* the third failing one in a row demotes it, and the same evidence must   *)
(* never count twice.  AchievementCurriculum puts this state between a     *)
(* trainer and a qualifier that exchange files.                            *)
(***************************************************************************)
EXTENDS Integers, Sequences

CONSTANTS
  LastStage,            \* len(ACHIEVEMENT_STAGES) - 1
  RequiredPasses,       \* REQUIRED_PASS_REPORTS
  RequiredRegressions,  \* REQUIRED_REGRESSIONS
  Checkpoints,          \* the training checkpoints a report can be about
  SeedSets,             \* the sets of at least MINIMUM_QUALIFICATION_SEEDS seeds
  Weights,              \* contents a checkpoint may have had when measured
  MaxReports,           \* bound on the reports written
  None                  \* Python's None

ASSUME StagesAssumption ==
  /\ LastStage \in Nat
  /\ RequiredPasses \in Nat \ {0}
  /\ RequiredRegressions \in Nat \ {0}
  /\ MaxReports \in Nat

Stages == 0 .. LastStage

\* What a report says.  The weights stand for everything in it that was
\* measured on the checkpoint's contents, so that the hash of a report's bytes
\* is modelled by the report itself.
Evidence ==
  [stage : Stages, checkpoint : Checkpoints, seeds : SeedSets,
   weights : Weights, eligible : BOOLEAN]

\* evidence.token: formatting and metrics do not make a new identity.
Identity(e) == <<e.stage, e.checkpoint, e.seeds>>

\* A checkpoint where the trainer saved it, or its copy preserved for a stage.
ModelPath(checkpoint) == [stage |-> None, checkpoint |-> checkpoint]
QualifiedPath(stage, checkpoint) == [stage |-> stage, checkpoint |-> checkpoint]
Paths == [stage : Stages \cup {None}, checkpoint : Checkpoints]

ASSUME NoneAssumption == None \notin Paths \cup Evidence

\* The fields that steer the curriculum.  An element of processed is the report
\* whose token the code keeps; last_report_checkpoint and last_report_iteration
\* only repeat what it says.
AchievementStates ==
  [current : Stages,
   highest : -1 .. LastStage,
   passes : Nat,
   regressions : Nat,
   mastered : BOOLEAN,
   processed : Seq(Evidence),
   qualified : [Stages -> Paths \cup {None}],
   lastReport : Evidence \cup {None},
   lastGood : Paths \cup {None}]

InitialState ==
  [current |-> 0, highest |-> -1, passes |-> 0, regressions |-> 0,
   mastered |-> FALSE, processed |-> <<>>,
   qualified |-> [s \in Stages |-> None],
   lastReport |-> None, lastGood |-> None]

-----------------------------------------------------------------------------
(***************************************************************************)
(* apply_qualification.                                                    *)
(***************************************************************************)

\* Mutant: only the newest report is recognised.
IsDuplicate_NewestOnly(s, e) ==
  s.processed # <<>> /\ Identity(s.processed[Len(s.processed)]) = Identity(e)

IsDuplicate(s, e) ==
  \E i \in 1 .. Len(s.processed) : Identity(s.processed[i]) = Identity(e)

\* The keyword arguments every replacement has in common.
Recorded(s, e) ==
  [s EXCEPT !.processed = Append(@, e), !.lastReport = e]

\* The report completes a streak of passes, and the stage is qualified.
Qualifies(s, e) == e.eligible /\ s.passes + 1 >= RequiredPasses

\* The report completes a streak of failures.
Demotes(s, e) == ~e.eligible /\ s.regressions + 1 >= RequiredRegressions

WithStreaks(s, passes, regressions) ==
  [s EXCEPT !.passes = passes, !.regressions = regressions]

\* Mutant: the streak of passes goes on at the new level.
AtLevel_KeepsStreak(s, current, highest, mastered, good) ==
  [s EXCEPT
     !.current = current,
     !.highest = highest,
     !.regressions = 0,
     !.mastered = mastered,
     !.lastGood = good]

\* A new level starts without a streak.
AtLevel(s, current, highest, mastered, good) ==
  [s EXCEPT
     !.current = current,
     !.highest = highest,
     !.passes = 0,
     !.regressions = 0,
     !.mastered = mastered,
     !.lastGood = good]

PassPending(s, e) == WithStreaks(Recorded(s, e), s.passes + 1, 0)

RegressionPending(s, e) == WithStreaks(Recorded(s, e), 0, s.regressions + 1)

NextStage(stage) == IF stage = LastStage THEN LastStage ELSE stage + 1

Advanced(s, e) ==
  LET path == ModelPath(e.checkpoint) IN
  AtLevel([Recorded(s, e) EXCEPT !.qualified[s.current] = path],
          NextStage(s.current), s.current, s.current = LastStage, path)

PreviousStage(stage) == IF stage = 0 THEN 0 ELSE stage - 1

\* The stage demoted to is qualified if it was and the curriculum is not at
\* its first stage, which loses even its own qualification.
Demoted(s, e) ==
  LET target == PreviousStage(s.current)
      highest == IF s.current = 0 THEN -1
                 ELSE IF s.highest < target THEN s.highest ELSE target
  IN  AtLevel(Recorded(s, e), target, highest, FALSE,
              IF highest >= target THEN s.qualified[target] ELSE None)

\* The new state, for evidence about the active stage; a duplicate changes
\* nothing.
ApplyQualification(s, e) ==
  CASE IsDuplicate(s, e) -> s
    [] ~IsDuplicate(s, e) /\ Qualifies(s, e) -> Advanced(s, e)
    [] ~IsDuplicate(s, e) /\ Demotes(s, e) -> Demoted(s, e)
    [] ~IsDuplicate(s, e) /\ e.eligible /\ ~Qualifies(s, e) -> PassPending(s, e)
    [] ~IsDuplicate(s, e) /\ ~e.eligible /\ ~Demotes(s, e) -> RegressionPending(s, e)

-----------------------------------------------------------------------------
(***************************************************************************)
(* What is true of every state the reports can lead to.  These are         *)
(* predicates on one state, because the checkpoints hold such states too.  *)
(***************************************************************************)

\* The last `length` processed reports are about `stage` with this verdict.
StreakEndsAt(s, last, length, stage, verdict) ==
  /\ length <= last
  /\ \A i \in (last - length + 1) .. last :
       s.processed[i].stage = stage /\ s.processed[i].eligible = verdict

\* No stage/checkpoint/seeds identity is among the counted reports twice.
CountedOnce(s) ==
  \A i, j \in 1 .. Len(s.processed) :
    Identity(s.processed[i]) = Identity(s.processed[j]) => i = j

\* A streak is what the newest counted reports say of the active stage, it is
\* shorter than what completes it, and only one of the two is under way.
StreaksAreEarned(s) ==
  /\ s.passes < RequiredPasses /\ s.regressions < RequiredRegressions
  /\ s.passes = 0 \/ s.regressions = 0
  /\ StreakEndsAt(s, Len(s.processed), s.passes, s.current, TRUE)
  /\ StreakEndsAt(s, Len(s.processed), s.regressions, s.current, FALSE)

\* Every stage that counts as passed was passed by RequiredPasses counted
\* reports in a row, and its checkpoint is the one the last of them is about.
StageIsEarned(s, stage) ==
  \E last \in 1 .. Len(s.processed) :
    /\ StreakEndsAt(s, last, RequiredPasses, stage, TRUE)
    /\ s.qualified[stage] # None
    /\ s.qualified[stage].checkpoint = s.processed[last].checkpoint

\* The active stage is the one after the highest passed or that one itself,
\* the last good checkpoint is that of the highest passed stage, and mastery
\* is having passed the last one.
LevelsAgree(s) ==
  /\ s.highest \in {s.current - 1, s.current}
  /\ s.mastered <=> s.highest = LastStage
  /\ s.lastGood = IF s.highest = -1 THEN None ELSE s.qualified[s.highest]

IsEarned(s) ==
  /\ CountedOnce(s)
  /\ StreaksAreEarned(s)
  /\ LevelsAgree(s)
  /\ \A stage \in 0 .. s.highest : StageIsEarned(s, stage)

-----------------------------------------------------------------------------
VARIABLE state  \* bridge.state

HysteresisInit == state = InitialState

\* A report about another stage than the active one raises.
Qualification(e) ==
  /\ Len(state.processed) < MaxReports
  /\ e.stage = state.current
  /\ state' = ApplyQualification(state, e)

HysteresisNext == \E e \in Evidence : Qualification(e)

HysteresisSpec == HysteresisInit /\ [][HysteresisNext]_state

\* The state a checkpoint holds is well formed: what from_dict validates.
StateOK == state \in AchievementStates

\* No evidence counts twice.
EvidenceCountsOnce == CountedOnce(state)

\* A streak never outlives the verdicts and the stage it is made of.
StreaksFollowReports == StreaksAreEarned(state)

\* No stage is passed without its own run of passing reports, however the
\* curriculum went up and down before.
PromotionIsEarned ==
  \A stage \in 0 .. state.highest : StageIsEarned(state, stage)

\* Rollback leaves the stage, the highest stage passed, mastery and the last
\* good checkpoint in agreement.
RollbackIsConsistent == LevelsAgree(state)

\* Reports are judged on what they measured: none twice, and none for another stage.
EvidenceIsExact == EvidenceCountsOnce /\ StreaksFollowReports

\* Up and down, the levels rest on runs of passing reports.
LevelsAreEarned == PromotionIsEarned /\ RollbackIsConsistent
=============================================================================
