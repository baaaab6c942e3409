---------------------------- MODULE ImpulseSchedule ----------------------------
(***************************************************************************)
(* The finite-impulse disturbance of one environment (mdp/disturbances.py) *)
(* with the two things that move its mixture: the episode-length ladder    *)
(* (mdp/curricula.py) and the stage an achievement report selects.  A      *)
(* level is the magnitude band drawn at reset, Standing for none.  Times   *)
(* count policy steps.  A step is: the physics with the counters, then the *)
(* reset of a finished episode (curricula before events), then the event   *)
(* term.                                                                   *)
(***************************************************************************)
EXTENDS Integers, Sequences, FiniteSets, FiniteSetsExt

CONSTANTS Mixtures,                  \* per kind, and rung or stage: the levels with positive weight
          Warmup, Low, High,         \* warmup_s and interval_range_s
          ShortPush, LongPush,       \* duration_range_s
          MaxLength,                 \* the episode cap
          Advance, Regress           \* the ladder's fractions, as terminal lengths

Kinds == {"stratified", "achievement"}
Standing == -1
LevelsOf(k) == Standing..(Len(Mixtures[k]) - 1)

\* Both constructors reject a mixture of the wrong shape (a level that is no band); the
\* achievement one also a mixture that samples a future stage.
ValidMixtures ==
  \A k \in Kinds : \A r \in 1..Len(Mixtures[k]) :
    /\ Mixtures[k][r] # {} /\ Mixtures[k][r] \subseteq LevelsOf(k)
    /\ k = "achievement" => \A l \in Mixtures[k][r] : l < r

\* What is assumed of the constants.
ScheduleAssumption ==
  /\ \A k \in Kinds : Mixtures[k] \in Seq(SUBSET Int) /\ Len(Mixtures[k]) >= 2
  /\ ValidMixtures
  /\ {Warmup, Low, High, ShortPush, LongPush, MaxLength} \subseteq Nat \ {0}
  /\ ShortPush <= LongPush /\ LongPush < Low /\ Low <= High
  /\ {Advance, Regress} \subseteq Int /\ Regress < Advance

VARIABLES
  kind,                      \* the class of the term, as configured
  length,                    \* episode_length_buf
  since,                     \* common_step_counter - last_push_step, saturated
  next, wrench, remaining,   \* next_push_step, force/torque, remaining
  lastLevel,                 \* the band of last_push_vel
  level,                     \* sampled_band, sampled_stage
  rung,                      \* the mixture in force: ladder stage, current_stage
  smoothed,                  \* the ladder's smoothed length, {} for NaN
  enabled, pc,
  worn, cohort, evidence, pushes   \* for the properties

term == <<next, wrench, remaining, lastLevel, enabled>>
vars == <<kind, length, since, term, level, rung, smoothed, pc, worn, cohort, evidence, pushes>>

Levels == LevelsOf(kind)
Rungs == 1..Len(Mixtures[kind])

None == [level |-> Standing, duration |-> 0]
Never == MaxLength + 1         \* every older push reads as never

Zeros == wrench' = None /\ remaining' = 0

Init ==
  /\ kind \in Kinds
  /\ length = 0 /\ since = Never /\ next = 0 /\ wrench = None /\ remaining = 0
  /\ lastLevel = Standing /\ level = Standing /\ rung = 1 /\ smoothed = {}
  /\ enabled = TRUE /\ pc = "reset"
  /\ worn = 0 /\ cohort = {Standing} /\ evidence = {} /\ pushes = 0
-----------------------------------------------------------------------------
Physics ==
  /\ pc = "step" /\ length < MaxLength
  /\ length' = length + 1 /\ since' = Min({since + 1, Never})
  /\ worn' = IF wrench = None THEN 0 ELSE worn + 1
  /\ pc' \in {"reset"} \cup (IF length' < MaxLength THEN {"event"} ELSE {})
  /\ UNCHANGED <<kind, term, level, rung, smoothed, cohort, evidence, pushes>>

\* The ladder sees the terminal length before the buffer is cleared.
Smooth(sample) ==
  IF smoothed = {} THEN {sample}
  ELSE LET old == CHOOSE s \in smoothed : TRUE
       IN  Min({old, sample})..Max({old, sample})

StepLadder(value) ==
  LET target == IF value >= Advance /\ rung < Len(Mixtures[kind]) THEN rung + 1
                ELSE IF value < Regress /\ rung > 1 THEN rung - 1 ELSE rung
  IN  /\ rung' = target
      /\ smoothed' = IF target = rung THEN {value} ELSE {}
      /\ evidence' = IF target = rung THEN evidence \cup {length} ELSE {}

Ladder == IF kind = "stratified" THEN \E value \in Smooth(length) : StepLadder(value)
          ELSE UNCHANGED <<rung, smoothed, evidence>>

FirstPush == Warmup..(Warmup + Max({1, High - Low}))

ClearRecord == since' = Never /\ lastLevel' = Standing

DrawLevel == cohort' = Mixtures[kind][rung'] /\ level' \in cohort'

Reset ==
  /\ pc = "reset" /\ pc' = "event"
  /\ Ladder
  /\ Zeros /\ ClearRecord /\ next' \in FirstPush
  /\ DrawLevel
  /\ length' = 0 /\ worn' = 0 /\ pushes' = 0
  /\ UNCHANGED <<kind, enabled>>

\* Mutant: the wrench is removed a step late.
Expired_Late == remaining = 0 /\ wrench # None

Expired == remaining = 1

Due == enabled /\ length >= next /\ level # Standing

\* The stratified term walks every band, the achievement term the stages up to the current
\* one only.
BandRouted == level \in Levels \ {Standing}
StageRouted == level < rung
Routed == IF kind = "stratified" THEN BandRouted ELSE StageRouted

Trigger ==
  \E duration \in ShortPush..LongPush :
    /\ wrench' = [level |-> level, duration |-> duration] /\ remaining' = duration
    /\ lastLevel' = level /\ since' = 0 /\ worn' = 0 /\ pushes' = pushes + 1

Expire ==
  /\ IF Expired THEN Zeros ELSE wrench' = wrench /\ remaining' = Max({remaining - 1, 0})
  /\ UNCHANGED <<lastLevel, since, pushes, worn>>

Event ==
  /\ pc = "event" /\ pc' = "step"
  /\ IF Due /\ Routed THEN Trigger ELSE Expire
  /\ next' \in IF Due THEN (length + Low)..(length + High) ELSE {next}
  /\ UNCHANGED <<kind, length, level, rung, smoothed, enabled, cohort, evidence>>

\* AchievementCurriculumBridge at an iteration boundary: one stage up or down, or the
\* stage of a restored checkpoint.
SetStage ==
  /\ kind = "achievement" /\ pc = "step"
  /\ rung' \in Rungs
  /\ UNCHANGED <<kind, length, since, term, level, smoothed, pc, worn, cohort, evidence, pushes>>

\* Calibration suppresses the schedule of selected environments.
Disable ==
  /\ pc = "step" /\ enabled' = FALSE
  /\ UNCHANGED <<kind, length, since, next, wrench, remaining, lastLevel, level, rung, smoothed,
                 pc, worn, cohort, evidence, pushes>>

Next == Physics \/ Reset \/ Event \/ SetStage \/ Disable
\* The training loop keeps stepping its environments.
Spec == Init /\ [][Next]_vars /\ WF_vars(Physics \/ Reset \/ Event)
-----------------------------------------------------------------------------
\* age_since_push: a push of an earlier episode, or of none, is never.
Age == IF since >= length THEN Never ELSE since

TypeOK ==
  /\ kind \in Kinds /\ length \in 0..MaxLength /\ since \in 0..Never
  /\ next \in 0..(MaxLength + Warmup + High) /\ remaining \in 0..LongPush
  /\ wrench \in [level : Levels, duration : 0..LongPush]
  /\ {level, lastLevel} \subseteq Levels /\ rung \in Rungs
  /\ smoothed \subseteq 0..MaxLength /\ Cardinality(smoothed) <= 1
  /\ enabled \in BOOLEAN /\ pc \in {"step", "reset", "event"}

\* docs/difficulty.md: the time integral of the force is the requested velocity change,
\* so a wrench that no reset cuts short acts for exactly its duration.
DeliveredImpulse ==
  [][wrench # None /\ wrench' = None /\ pc = "event" => worn = wrench.duration]_vars

\* A wrench was started in the running episode, and what remains of it is what it has not
\* acted yet (remaining against the physics, across expiry and reset).
WrenchIsThisEpisodes ==
  /\ wrench = None <=> remaining = 0
  /\ wrench # None =>
       pushes > 0 /\ remaining + worn = wrench.duration + (IF pc = "step" THEN 0 ELSE 1)

\* No push during the warmup, and consecutive ones are an interval apart (or more, where a
\* rollback of the stage let a due one pass).
SpacedPushes ==
  [][pushes' > pushes =>
       /\ length >= Warmup
       /\ pushes > 0 => since >= Low /\ (kind = "stratified" => since <= High)]_vars

\* A push has the magnitude drawn at the last reset from the mixture of that moment,
\* whatever mixture is in force now; the standing cohort is never pushed.
PushIsTheCohorts ==
  wrench # None => wrench.level = level /\ level \in cohort \ {Standing}

\* What the recovery terms read as the age and velocity of the last push belongs to the
\* running episode (age_since_push masks the global step counter by the episode length).
AgeIsThisEpisodes ==
  length > 0 => /\ Age # Never <=> pushes > 0
                /\ lastLevel = IF pushes > 0 THEN level ELSE Standing

\* The ladder moves on episodes finished under the rung it leaves
\* (docs/difficulty.md: the old rung's survival is not evidence about the new one).
LadderNeedsEvidence ==
  [][pc = "reset" => LET seen == evidence \cup {length}
                     IN  /\ rung' > rung => \E s \in seen : s >= Advance
                         /\ rung' < rung => \E s \in seen : s < Regress]_vars

\* docs/difficulty.md: existing episodes keep their sampled level when a report arrives,
\* so a due environment of a pushed cohort is pushed.
DuePushIsMade == pc = "event" /\ Due => pushes' = pushes + 1
=============================================================================
