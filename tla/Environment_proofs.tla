-------------------------- MODULE Environment_proofs --------------------------
(***************************************************************************)
(* The disturbances of an environment and the configuration of its tasks,  *)
(* for any warmup, episode cap, interval, mixture and robot; and, behind   *)
(* them, the evaluations of a trained policy in one (Qualification), for   *)
(* any schedule, cohort and campaign.                                      *)
(***************************************************************************)
EXTENDS Environment, Qualification, RuntimeLemmas, SequenceTheorems

-----------------------------------------------------------------------------
(* The velocity kicks. *)

USE KickAssumption

KickTypes ==
  /\ kind \in {"once", "interval"}
  /\ length \in 0..MaxLength /\ since \in 0..Never /\ scale \in 0..Top
  /\ pc \in {"step", "reset", "event"}
  /\ kicks \in Nat /\ kickedAt \in Nat /\ survivors \in {0, 1}

\* The record tells a push of this episode from one of an earlier episode although no
\* reset clears it: a push of this episode is younger than the episode, because none falls
\* on its first step; any other is at least as old.
KickRecord ==
  /\ kicks > 0 => /\ kickedAt >= Warmup /\ kickedAt <= length
                  /\ since = length - kickedAt
  /\ kicks = 0 => since >= length

\* While nothing survived, every smoothed sample is zero.
KickSurvival ==
  survivors = 0 => smoothed \subseteq {0} /\ scale <= Start

KickInv == KickTypes /\ KickRecord /\ OneKickPerEpisode /\ KickSurvival

LEMMA MinOfTwo ==
  ASSUME NEW a \in Int, NEW b \in Int
  PROVE  /\ Min({a, b}) \in {a, b} /\ Min({a, b}) <= a /\ Min({a, b}) <= b
<1>1. \E x \in {a, b} : \A y \in {a, b} : x <= y
  OBVIOUS
<1> QED BY <1>1 DEF Min

LEMMA MaxOfTwo ==
  ASSUME NEW a \in Int, NEW b \in Int
  PROVE  /\ Max({a, b}) \in {a, b} /\ Max({a, b}) >= a /\ Max({a, b}) >= b
<1>1. \E x \in {a, b} : \A y \in {a, b} : x >= y
  OBVIOUS
<1> QED BY <1>1 DEF Max

LEMMA KickPhysics == ASSUME KickInv, Physics PROVE KickInv'
<1> USE DEF KickInv, KickTypes
<1>1. /\ length' = length + 1 /\ length' \in 0..MaxLength
      /\ since' \in 0..Never
      /\ since' = since + 1 \/ (since' = Never /\ since + 1 >= Never)
  <2>1. since + 1 \in Int /\ Never \in Int
    BY DEF Never
  <2>2. /\ Min({since + 1, Never}) \in {since + 1, Never}
        /\ Min({since + 1, Never}) <= since + 1 /\ Min({since + 1, Never}) <= Never
    BY <2>1, MinOfTwo
  <2> QED BY <2>2 DEF Physics, Never
<1>2. /\ UNCHANGED <<kind, scale, smoothed, kicks, kickedAt, survivors>>
      /\ pc' \in {"reset", "event"} /\ pc = "step"
  BY DEF Physics
<1>3. KickTypes'
  BY <1>1, <1>2 DEF Never
<1>4. KickRecord'
  BY <1>1, <1>2 DEF KickRecord, Never
<1>5. OneKickPerEpisode' /\ KickSurvival'
  BY <1>2 DEF OneKickPerEpisode, KickSurvival
<1> QED BY <1>3, <1>4, <1>5

\* Without a survivor every sample is zero, and zero never raises the scale.
LEMMA KickReset == ASSUME KickInv, Reset PROVE KickInv'
<1> USE DEF KickInv, KickTypes
<1>1. PICK value \in Smooth(Sample) : smoothed' = {value} /\ scale' = Rescaled(value)
  BY DEF Reset
<1>2. /\ length' = 0 /\ kicks' = 0 /\ kickedAt' = 0 /\ pc' = "event"
      /\ UNCHANGED <<kind, since>>
  BY DEF Reset
<1>3. /\ survivors' \in {0, 1}
      /\ survivors' = 0 => survivors = 0 /\ length # MaxLength
  <2> DEFINE more == survivors + (IF length = MaxLength THEN 1 ELSE 0)
  <2>1. survivors' = Min({more, 1})
    BY DEF Reset
  <2>2. more \in {0, 1, 2} /\ (more = 0 => survivors = 0 /\ length # MaxLength)
    OBVIOUS
  <2> HIDE DEF more
  <2>3. more \in Int /\ 1 \in Int
    BY <2>2
  <2>4. Min({more, 1}) \in {more, 1} /\ Min({more, 1}) <= 1
    BY <2>3, MinOfTwo
  <2> QED BY <2>1, <2>2, <2>4
<1>4. /\ Rescaled(value) \in 0..Top
      /\ Rescaled(value) > scale => value > Advance
  <2>0. 0 \in Int /\ Top \in Int /\ scale + 1 \in Int /\ scale - 1 \in Int
    OBVIOUS
  <2>1. Min({Top, scale + 1}) \in {Top, scale + 1} /\ Min({Top, scale + 1}) <= Top
    BY <2>0, MinOfTwo
  <2>2. Max({0, scale - 1}) \in {0, scale - 1} /\ Max({0, scale - 1}) >= 0
    BY <2>0, MaxOfTwo
  <2>3. CASE value > Advance
    BY <2>1, <2>3 DEF Rescaled
  <2>4. CASE ~(value > Advance) /\ value < Regress
    BY <2>2, <2>4 DEF Rescaled
  <2>5. CASE ~(value > Advance) /\ ~(value < Regress)
    BY <2>5 DEF Rescaled
  <2> QED BY <2>3, <2>4, <2>5
<1>5. survivors' = 0 => value = 0
  <2> SUFFICES ASSUME survivors' = 0 PROVE value = 0
    OBVIOUS
  <2>1. Sample = 0 /\ smoothed \subseteq {0}
    BY <1>3 DEF Sample, KickSurvival
  <2>2. CASE smoothed = {}
    BY <2>1, <2>2 DEF Smooth
  <2>3. CASE smoothed # {}
    <3>1. (CHOOSE s \in smoothed : TRUE) = 0
      BY <2>1, <2>3
    <3>2. Min({0, 0}) \in {0, 0} /\ Max({0, 0}) \in {0, 0}
      <4>1. 0 \in Int
        OBVIOUS
      <4> QED BY <4>1, MinOfTwo, MaxOfTwo
    <3>3. Smooth(Sample) = 0..0
      BY <2>1, <2>3, <3>1, <3>2 DEF Smooth
    <3> QED BY <3>3
  <2> QED BY <2>2, <2>3
<1>6. KickTypes' /\ KickRecord'
  BY <1>1, <1>2, <1>3, <1>4 DEF KickRecord
<1>7. OneKickPerEpisode'
  BY <1>2 DEF OneKickPerEpisode
<1>8. KickSurvival'
  <2>1. survivors' = 0 => smoothed' = {0}
    BY <1>1, <1>5
  <2>2. survivors' = 0 => scale' <= scale
    BY <1>1, <1>4, <1>5
  <2> QED BY <1>1, <1>3, <1>4, <2>1, <2>2 DEF KickSurvival
<1> QED BY <1>6, <1>7, <1>8

LEMMA KickEvent == ASSUME KickInv, Event PROVE KickInv'
<1> USE DEF KickInv, KickTypes
<1>1. /\ pc = "event" /\ pc' = "step"
      /\ UNCHANGED <<kind, length, scale, smoothed, survivors>>
  BY DEF Event
<1>2. PICK called \in IF kind = "once" THEN {TRUE} ELSE BOOLEAN :
        IF PushNow(called) /\ ~(kind = "once" /\ Kicked) THEN Kick
        ELSE UNCHANGED <<since, kicks, kickedAt>>
  BY DEF Event
<1>3. CASE PushNow(called) /\ ~(kind = "once" /\ Kicked)
  <2>1. length >= Warmup /\ since' = 0 /\ kicks' = kicks + 1 /\ kickedAt' = length
    BY <1>2, <1>3 DEF PushNow, Kick
  <2>2. kind = "once" => kicks = 0
    BY <1>3 DEF Kicked, KickRecord
  <2>3. KickTypes' /\ KickRecord'
    BY <1>1, <2>1 DEF KickRecord, Never
  <2> QED BY <1>1, <2>1, <2>2, <2>3 DEF OneKickPerEpisode, KickSurvival
<1>4. CASE ~(PushNow(called) /\ ~(kind = "once" /\ Kicked))
  <2>1. UNCHANGED <<since, kicks, kickedAt>>
    BY <1>2, <1>4
  <2>2. kind = "once" /\ length >= Warmup => Kicked
    BY <1>2, <1>4 DEF PushNow
  <2>3. kind = "once" /\ length >= Warmup => kicks = 1
    BY <2>2 DEF Kicked, KickRecord, OneKickPerEpisode
  <2> QED BY <1>1, <2>1, <2>3 DEF KickRecord, OneKickPerEpisode, KickSurvival, Never
<1> QED BY <1>3, <1>4

LEMMA KickStep ==
  /\ Init => KickInv
  /\ KickInv /\ [Next]_vars => KickInv'
<1>1. Init => KickInv
  BY DEF Init, KickInv, KickTypes, KickRecord, OneKickPerEpisode, KickSurvival, Never
<1>2. KickInv /\ [Next]_vars => KickInv'
  <2>1. CASE UNCHANGED vars
    BY <2>1 DEF vars, KickInv, KickTypes, KickRecord, OneKickPerEpisode, KickSurvival
  <2> QED BY <2>1, KickPhysics, KickReset, KickEvent DEF Next
<1> QED BY <1>1, <1>2

LEMMA KickConclusion == KickInv => KicksAreTheEpisodes
<1> SUFFICES ASSUME KickInv PROVE KicksAreTheEpisodes
  OBVIOUS
<1>1. AgeIsThisEpisodes
  BY DEF KickInv, KickTypes, KickRecord, AgeIsThisEpisodes, Age
<1>2. GrowthNeedsSurvival
  BY DEF KickInv, KickTypes, KickSurvival, GrowthNeedsSurvival
<1> QED BY <1>1, <1>2 DEF KickInv, KicksAreTheEpisodes

HIDE KickAssumption
-----------------------------------------------------------------------------
(* The impulses, for any mixtures, intervals and durations. *)

ImpulseAction ==
  Impulse!Physics \/ Impulse!Reset \/ Impulse!Event \/ Impulse!SetStage \/ Impulse!Disable

ImpulseTypes ==
  /\ iKind \in Impulse!Kinds /\ iLength \in 0..MaxLength /\ iSince \in 0..Impulse!Never
  /\ next \in 0..(MaxLength + PushWarmup + High) /\ remaining \in 0..LongPush
  /\ wrench \in [level : Impulse!Levels, duration : 0..LongPush]
  /\ level \in Impulse!Levels /\ lastLevel \in Impulse!Levels /\ rung \in Impulse!Rungs
  /\ enabled \in BOOLEAN /\ iPc \in {"step", "reset", "event"}
  /\ worn \in Nat /\ pushes \in Nat /\ evidence \subseteq Nat

\* An episode that is not the first has its first push after the warmup; the next one keeps
\* its distance to the last one that happened, and where pushes happen none is overdue.
Scheduled ==
  /\ next >= PushWarmup \/ (iPc = "reset" /\ iLength = 0 /\ level = -1)
  /\ pushes = 0 => iSince = Impulse!Never
  /\ pushes > 0 => /\ iSince < iLength /\ next - (iLength - iSince) >= Low
                   /\ iKind = "stratified" => next - (iLength - iSince) <= High
  /\ enabled /\ level # -1 =>
       IF iPc = "step" THEN iLength < next ELSE iLength <= next

LevelIsTheCohorts ==
  /\ level \in cohort
  /\ wrench # Impulse!None => wrench.level = level /\ level # -1
  /\ lastLevel = IF pushes > 0 THEN level ELSE -1

\* A smoothed length lies between two lengths of episodes of this rung.
Smoothed ==
  /\ iSmoothed = {} \/ \E v \in 0..MaxLength : iSmoothed = {v}
  /\ \A v \in iSmoothed : /\ \E s \in evidence : s >= v
                          /\ \E s \in evidence : s <= v

ImpulseInv ==
  /\ ImpulseTypes /\ Scheduled /\ LevelIsTheCohorts /\ Smoothed
  /\ Impulse!WrenchIsThisEpisodes

LEMMA ImpulseConstants ==
  /\ PushWarmup \in Nat \ {0} /\ Low \in Nat \ {0} /\ High \in Nat \ {0}
  /\ ShortPush \in Nat \ {0} /\ LongPush \in Nat \ {0} /\ MaxLength \in Nat \ {0}
  /\ ShortPush <= LongPush /\ LongPush < Low /\ Low <= High
  /\ LadderAdvance \in Int /\ LadderRegress \in Int
BY PartsAssumption DEF Impulse!ScheduleAssumption

LEMMA Distances ==
  ASSUME NEW a \in Int, NEW b \in Int, NEW c \in Int
  PROVE  /\ a >= b + c => a - b >= c
         /\ a <= b + c => a - b <= c
OBVIOUS

LEMMA MixtureLevels ==
  ASSUME NEW k \in Impulse!Kinds
  PROVE  /\ Len(Mixtures[k]) \in Nat /\ Len(Mixtures[k]) >= 2
         /\ \A r \in 1..Len(Mixtures[k]) : Mixtures[k][r] \subseteq Impulse!LevelsOf(k)
         /\ -1 \in Impulse!LevelsOf(k) /\ Impulse!LevelsOf(k) \subseteq Int
<1>1. Mixtures[k] \in Seq(SUBSET Int) /\ Len(Mixtures[k]) >= 2
  BY PartsAssumption DEF Impulse!ScheduleAssumption
<1>2. Len(Mixtures[k]) \in Nat
  BY <1>1
<1>3. \A r \in 1..Len(Mixtures[k]) : Mixtures[k][r] \subseteq Impulse!LevelsOf(k)
  BY PartsAssumption DEF Impulse!ScheduleAssumption, Impulse!ValidMixtures
<1> QED BY <1>1, <1>2, <1>3 DEF Impulse!LevelsOf, Impulse!Standing

LEMMA ImpulseMinMax ==
  ASSUME NEW a \in Int, NEW b \in Int
  PROVE  /\ Impulse!Min({a, b}) \in {a, b} /\ Impulse!Min({a, b}) <= a /\ Impulse!Min({a, b}) <= b
         /\ Impulse!Max({a, b}) \in {a, b} /\ Impulse!Max({a, b}) >= a /\ Impulse!Max({a, b}) >= b
<1>1. \E x \in {a, b} : \A y \in {a, b} : x <= y
  OBVIOUS
<1>2. \E x \in {a, b} : \A y \in {a, b} : x >= y
  OBVIOUS
<1> QED BY <1>1, <1>2 DEF Impulse!Min, Impulse!Max

LEMMA ImpulseInit == Impulse!Init => ImpulseInv
<1> SUFFICES ASSUME Impulse!Init PROVE ImpulseInv
  OBVIOUS
<1>1. /\ iKind \in Impulse!Kinds /\ iLength = 0 /\ iSince = Impulse!Never /\ next = 0
      /\ wrench = Impulse!None /\ remaining = 0 /\ lastLevel = -1 /\ level = -1 /\ rung = 1
      /\ iSmoothed = {} /\ enabled = TRUE /\ iPc = "reset" /\ worn = 0 /\ cohort = {-1}
      /\ evidence = {} /\ pushes = 0
  BY DEF Impulse!Init, Impulse!Standing
<1>2. -1 \in Impulse!Levels /\ 1 \in Impulse!Rungs
  BY <1>1, MixtureLevels DEF Impulse!Levels, Impulse!Rungs
<1>3. wrench \in [level : Impulse!Levels, duration : 0..LongPush]
  BY <1>1, <1>2, ImpulseConstants DEF Impulse!None, Impulse!Standing
<1>4. enabled \in BOOLEAN
  BY <1>1, Zenon
<1>5. ImpulseTypes
  BY <1>1, <1>2, <1>3, <1>4, ImpulseConstants DEF ImpulseTypes, Impulse!Never
<1>6. Scheduled
  BY <1>1, ImpulseConstants DEF Scheduled
<1>7. LevelIsTheCohorts /\ Smoothed /\ Impulse!WrenchIsThisEpisodes
  BY <1>1 DEF LevelIsTheCohorts, Smoothed, Impulse!WrenchIsThisEpisodes
<1> QED BY <1>5, <1>6, <1>7 DEF ImpulseInv

\* Time passes alike for the schedule, the age of the last push and the wrench.
LEMMA ImpulsePhysics == ASSUME ImpulseInv, Impulse!Physics PROVE ImpulseInv'
<1>0. /\ ImpulseTypes /\ Scheduled /\ LevelIsTheCohorts /\ Smoothed
      /\ Impulse!WrenchIsThisEpisodes
  BY DEF ImpulseInv
<1>1. /\ iPc = "step" /\ iLength < MaxLength /\ iLength' = iLength + 1
      /\ iPc' \in {"reset", "event"}
      /\ worn' = IF wrench = Impulse!None THEN 0 ELSE worn + 1
      /\ UNCHANGED <<iKind, next, wrench, remaining, lastLevel, enabled, level, rung, iSmoothed,
                     cohort, evidence, pushes>>
  BY DEF Impulse!Physics, Impulse!term
<1>2. /\ iSince' \in 0..Impulse!Never
      /\ iSince < MaxLength => iSince' = iSince + 1
      /\ iSince = Impulse!Never => iSince' = Impulse!Never
  <2>1. iSince + 1 \in Int /\ Impulse!Never \in Int /\ iSince \in 0..Impulse!Never
    BY <1>0, ImpulseConstants DEF ImpulseTypes, Impulse!Never
  <2>2. iSince' = Impulse!Min({iSince + 1, Impulse!Never})
    BY DEF Impulse!Physics
  <2>3. /\ iSince' \in {iSince + 1, Impulse!Never}
        /\ iSince' <= iSince + 1 /\ iSince' <= Impulse!Never
    BY <2>1, <2>2, ImpulseMinMax
  <2> QED BY <2>1, <2>3, ImpulseConstants DEF Impulse!Never
<1>3. ImpulseTypes'
  BY <1>0, <1>1, <1>2, ImpulseConstants DEF ImpulseTypes, Impulse!Levels, Impulse!Rungs
<1>4. Scheduled'
  <2>1. /\ iLength \in Int /\ iSince \in Int /\ next \in Int /\ iLength' = iLength + 1
        /\ iLength < MaxLength
    BY <1>0, <1>1, ImpulseConstants DEF ImpulseTypes
  <2>2. next' = next /\ pushes' = pushes /\ next' >= PushWarmup
    BY <1>0, <1>1 DEF Scheduled
  <2>3. pushes' = 0 => iSince' = Impulse!Never
    BY <1>0, <1>2, <2>2 DEF Scheduled
  <2>4. ASSUME pushes > 0
        PROVE  /\ iSince' < iLength' /\ next' - (iLength' - iSince') = next - (iLength - iSince)
    <3>1. iSince < iLength
      BY <1>0, <2>4 DEF Scheduled
    <3>2. iSince' = iSince + 1
      BY <1>2, <2>1, <3>1, ImpulseConstants
    <3> QED BY <2>1, <2>2, <3>1, <3>2
  <2>5. enabled /\ level # -1 => iLength' <= next'
    BY <1>0, <1>1, <2>1, <2>2 DEF Scheduled
  <2>6. pushes' > 0 => /\ iSince' < iLength' /\ next' - (iLength' - iSince') >= Low
                       /\ iKind' = "stratified" => next' - (iLength' - iSince') <= High
    BY <1>0, <1>1, <2>2, <2>4 DEF Scheduled
  <2> QED BY <1>1, <2>2, <2>3, <2>5, <2>6 DEF Scheduled
<1>5. LevelIsTheCohorts' /\ Smoothed'
  BY <1>0, <1>1 DEF LevelIsTheCohorts, Smoothed
<1>6. Impulse!WrenchIsThisEpisodes'
  BY <1>0, <1>1, ImpulseConstants DEF ImpulseTypes, Impulse!WrenchIsThisEpisodes, Impulse!None
<1> QED BY <1>3, <1>4, <1>5, <1>6 DEF ImpulseInv

\* The next smoothed length lies between the last one and the length just finished.
LEMMA SmoothIsBetween ==
  ASSUME ImpulseTypes, Smoothed, NEW value \in Impulse!Smooth(iLength)
  PROVE  /\ value \in 0..MaxLength
         /\ \E s \in evidence \cup {iLength} : s >= value
         /\ \E s \in evidence \cup {iLength} : s <= value
<1>1. iLength \in 0..MaxLength /\ evidence \subseteq Nat
  BY DEF ImpulseTypes
<1>2. CASE iSmoothed = {}
  <2>1. value = iLength
    BY <1>2 DEF Impulse!Smooth
  <2> QED BY <1>1, <2>1
<1>3. CASE iSmoothed # {}
  <2>1. PICK v \in 0..MaxLength : iSmoothed = {v}
    BY <1>3 DEF Smoothed
  <2>2. (CHOOSE s \in iSmoothed : TRUE) = v
    BY <2>1
  <2>3. value \in Impulse!Min({v, iLength})..Impulse!Max({v, iLength})
    BY <1>3, <2>2 DEF Impulse!Smooth
  <2>4. v \in Int /\ iLength \in Int
    BY <1>1
  <2>5. value >= Impulse!Min({v, iLength}) /\ value <= Impulse!Max({v, iLength}) /\ value \in Int
    BY <2>3, <2>4, ImpulseMinMax
  <2>6. (value >= v \/ value >= iLength) /\ (value <= v \/ value <= iLength)
    BY <2>4, <2>5, ImpulseMinMax
  <2>7. PICK low \in evidence, high \in evidence : high >= v /\ low <= v
    BY <2>1 DEF Smoothed
  <2>8. low \in Nat /\ high \in Nat
    BY <1>1, <2>7
  <2>9. (value >= low \/ value >= iLength) /\ (value <= high \/ value <= iLength)
    BY <2>4, <2>5, <2>6, <2>7, <2>8
  <2>10. value \in 0..MaxLength
    BY <1>1, <2>1, <2>5, <2>6, ImpulseConstants
  <2> QED BY <2>7, <2>9, <2>10
<1> QED BY <1>2, <1>3

LEMMA ImpulseReset ==
  ASSUME ImpulseInv, Impulse!Reset
  PROVE  /\ ImpulseInv'
         /\ rung' > rung => \E s \in evidence \cup {iLength} : s >= LadderAdvance
         /\ rung' < rung => \E s \in evidence \cup {iLength} : s < LadderRegress
<1>0. ImpulseTypes /\ Smoothed
  BY DEF ImpulseInv
<1>1. /\ iPc' = "event" /\ wrench' = Impulse!None /\ remaining' = 0
      /\ iSince' = Impulse!Never /\ lastLevel' = -1 /\ next' \in Impulse!FirstPush
      /\ iLength' = 0 /\ worn' = 0 /\ pushes' = 0 /\ iKind' = iKind /\ enabled' = enabled
      /\ cohort' = Mixtures[iKind][rung'] /\ level' \in cohort'
  BY DEF Impulse!Reset, Impulse!Zeros, Impulse!ClearRecord, Impulse!DrawLevel, Impulse!Standing
<1>2. next' \in PushWarmup..(PushWarmup + High)
  <2>1. 1 \in Int /\ High - Low \in Int
    BY ImpulseConstants
  <2>2. Impulse!Max({1, High - Low}) \in {1, High - Low}
    BY <2>1, ImpulseMinMax
  <2>3. next' \in PushWarmup..(PushWarmup + Impulse!Max({1, High - Low}))
    BY <1>1 DEF Impulse!FirstPush
  <2> QED BY <2>2, <2>3, ImpulseConstants
<1>3. /\ rung' \in Impulse!Rungs /\ Smoothed' /\ evidence' \subseteq Nat
      /\ rung' > rung => \E s \in evidence \cup {iLength} : s >= LadderAdvance
      /\ rung' < rung => \E s \in evidence \cup {iLength} : s < LadderRegress
  <2>1. CASE iKind # "stratified"
    <3>1. UNCHANGED <<rung, iSmoothed, evidence>>
      BY <2>1 DEF Impulse!Reset, Impulse!Ladder
    <3>2. rung \in Impulse!Rungs /\ Impulse!Rungs \subseteq Int /\ evidence \subseteq Nat
      BY <1>0 DEF ImpulseTypes, Impulse!Rungs
    <3> QED BY <1>0, <3>1, <3>2 DEF Smoothed
  <2>2. CASE iKind = "stratified"
    <3>1. PICK value \in Impulse!Smooth(iLength) : Impulse!StepLadder(value)
      BY <2>2 DEF Impulse!Reset, Impulse!Ladder
    <3>2. /\ value \in 0..MaxLength
          /\ \E s \in evidence \cup {iLength} : s >= value
          /\ \E s \in evidence \cup {iLength} : s <= value
      BY <1>0, SmoothIsBetween
    <3>3. /\ rung \in 1..Len(Mixtures[iKind]) /\ Len(Mixtures[iKind]) \in Nat
          /\ evidence \subseteq Nat /\ iLength \in Nat /\ iKind \in Impulse!Kinds
      BY <1>0, MixtureLevels DEF ImpulseTypes, Impulse!Rungs
    <3>4. /\ rung' = IF value >= LadderAdvance /\ rung < Len(Mixtures[iKind]) THEN rung + 1
                     ELSE IF value < LadderRegress /\ rung > 1 THEN rung - 1 ELSE rung
          /\ iSmoothed' = IF rung' = rung THEN {value} ELSE {}
          /\ evidence' = IF rung' = rung THEN evidence \cup {iLength} ELSE {}
      BY <3>1 DEF Impulse!StepLadder
    <3>5. /\ rung' \in Impulse!Rungs /\ evidence' \subseteq Nat
          /\ rung' > rung => value >= LadderAdvance
          /\ rung' < rung => value < LadderRegress
      BY <3>3, <3>4 DEF Impulse!Rungs
    <3>6. PICK high \in evidence \cup {iLength}, low \in evidence \cup {iLength} :
            high >= value /\ low <= value
      BY <3>2
    <3>7. /\ rung' > rung => high >= LadderAdvance
          /\ rung' < rung => low < LadderRegress
      BY <3>2, <3>3, <3>5, <3>6, ImpulseConstants
    <3>8. Smoothed'
      <4>1. CASE rung' = rung
        <5>1. iSmoothed' = {value} /\ evidence' = evidence \cup {iLength}
          BY <3>4, <4>1
        <5> QED BY <3>2, <5>1 DEF Smoothed
      <4>2. CASE rung' # rung
        BY <3>4, <4>2 DEF Smoothed
      <4> QED BY <4>1, <4>2
    <3> QED BY <3>5, <3>6, <3>7, <3>8
  <2> QED BY <2>1, <2>2
<1>4. /\ level' \in Impulse!LevelsOf(iKind) /\ -1 \in Impulse!LevelsOf(iKind)
  <2>1. iKind \in Impulse!Kinds /\ rung' \in 1..Len(Mixtures[iKind])
    BY <1>0, <1>1, <1>3 DEF ImpulseTypes, Impulse!Rungs
  <2> QED BY <1>1, <2>1, MixtureLevels
<1>5. ImpulseTypes'
  <2>1. Impulse!Levels' = Impulse!LevelsOf(iKind) /\ Impulse!Rungs' = Impulse!Rungs
    BY <1>1 DEF Impulse!Levels, Impulse!Rungs
  <2>2. wrench' \in [level : Impulse!LevelsOf(iKind), duration : 0..LongPush]
    BY <1>1, <1>4, ImpulseConstants DEF Impulse!None, Impulse!Standing
  <2>3. next' \in 0..(MaxLength + PushWarmup + High)
    BY <1>2, ImpulseConstants
  <2>4. iSince' \in 0..Impulse!Never /\ iLength' \in 0..MaxLength /\ remaining' \in 0..LongPush
    BY <1>1, ImpulseConstants DEF Impulse!Never
  <2> QED BY <1>0, <1>1, <1>3, <1>4, <2>1, <2>2, <2>3, <2>4 DEF ImpulseTypes
<1>6. Scheduled'
  BY <1>1, <1>2, ImpulseConstants DEF Scheduled
<1>7. LevelIsTheCohorts' /\ Impulse!WrenchIsThisEpisodes'
  BY <1>1 DEF LevelIsTheCohorts, Impulse!WrenchIsThisEpisodes, Impulse!None
<1> QED BY <1>3, <1>5, <1>6, <1>7 DEF ImpulseInv

\* A push that happens is due, so that the last one is as far away as was drawn for it.
LEMMA ImpulseTrigger ==
  ASSUME ImpulseInv, Impulse!Event, Impulse!Due, Impulse!Routed
  PROVE  /\ ImpulseInv' /\ pushes' = pushes + 1 /\ wrench' # Impulse!None
         /\ iLength >= PushWarmup
         /\ pushes > 0 => iSince >= Low /\ (iKind = "stratified" => iSince <= High)
<1>0. ImpulseTypes /\ Scheduled /\ LevelIsTheCohorts /\ Smoothed
  BY DEF ImpulseInv
<1>1. /\ iPc = "event" /\ iPc' = "step" /\ next' \in (iLength + Low)..(iLength + High)
      /\ UNCHANGED <<iKind, iLength, level, rung, iSmoothed, enabled, cohort, evidence>>
  BY DEF Impulse!Event
<1>2. PICK lasts \in ShortPush..LongPush :
        /\ wrench' = [level |-> level, duration |-> lasts] /\ remaining' = lasts
        /\ lastLevel' = level /\ iSince' = 0 /\ worn' = 0 /\ pushes' = pushes + 1
  BY DEF Impulse!Event, Impulse!Trigger
<1>3. enabled /\ iLength >= next /\ level # -1
  BY DEF Impulse!Due, Impulse!Standing
<1>4. /\ iLength \in Nat /\ iSince \in Nat /\ next \in Nat /\ pushes \in Nat /\ lasts \in Nat
      /\ lasts > 0 /\ lasts <= LongPush /\ iLength <= MaxLength
  BY <1>0, <1>2, ImpulseConstants DEF ImpulseTypes, Impulse!Never
<1>5. iLength = next /\ next >= PushWarmup
  BY <1>0, <1>1, <1>3, <1>4 DEF Scheduled
<1>6. pushes > 0 => iSince >= Low /\ (iKind = "stratified" => iSince <= High)
  BY <1>0, <1>4, <1>5, ImpulseConstants DEF Scheduled
<1>7. wrench' # Impulse!None
  BY <1>2, <1>4 DEF Impulse!None
<1>8. ImpulseTypes'
  <2>1. next' \in 0..(MaxLength + PushWarmup + High) /\ iSince' \in 0..Impulse!Never
        /\ remaining' \in 0..LongPush
    BY <1>1, <1>2, <1>4, ImpulseConstants DEF Impulse!Never
  <2>2. wrench' \in [level : Impulse!Levels, duration : 0..LongPush]
    BY <1>0, <1>2, <1>4, ImpulseConstants DEF ImpulseTypes
  <2> QED BY <1>0, <1>1, <1>2, <2>1, <2>2 DEF ImpulseTypes, Impulse!Levels, Impulse!Rungs
<1>9. Scheduled'
  <2>1. next' \in Int /\ next' >= iLength + Low /\ next' <= iLength + High
    BY <1>1, <1>4, ImpulseConstants
  <2>2. iSince' < iLength' /\ next' - (iLength' - iSince') = next' - iLength /\ pushes' # 0
    BY <1>1, <1>2, <1>4, <1>5, <2>1, ImpulseConstants
  <2>3. next' - iLength >= Low /\ next' - iLength <= High /\ iLength' < next' /\ next' >= PushWarmup
    <3>1. iLength' = iLength
      BY <1>1
    <3>2. Low \in Nat \ {0} /\ High \in Nat /\ PushWarmup \in Nat
      BY ImpulseConstants
    <3>3. iLength \in Int /\ next \in Int /\ iLength = next /\ next >= PushWarmup
      BY <1>4, <1>5
    <3>4. next' - iLength >= Low /\ next' - iLength <= High
      <4>1. next' \in Int /\ Low \in Int /\ High \in Int
        BY <2>1, <3>2
      <4> QED BY <2>1, <3>3, <4>1, Distances
    <3>5. iLength < next' /\ next' >= PushWarmup
      BY <2>1, <3>2, <3>3
    <3> QED BY <3>1, <3>4, <3>5
  <2> QED BY <1>1, <2>2, <2>3 DEF Scheduled
<1>10. LevelIsTheCohorts' /\ Smoothed'
  BY <1>0, <1>1, <1>2, <1>3, <1>4 DEF LevelIsTheCohorts, Smoothed
<1>11. Impulse!WrenchIsThisEpisodes'
  BY <1>1, <1>2, <1>4, <1>7 DEF Impulse!WrenchIsThisEpisodes, Impulse!None
<1> QED BY <1>2, <1>5, <1>6, <1>7, <1>8, <1>9, <1>10, <1>11 DEF ImpulseInv

\* A wrench ends with the last of the steps it was asked for.
LEMMA ImpulseExpire ==
  ASSUME ImpulseInv, Impulse!Event, ~(Impulse!Due /\ Impulse!Routed)
  PROVE  /\ ImpulseInv' /\ pushes' = pushes
         /\ (wrench # Impulse!None /\ wrench' = Impulse!None => worn = wrench.duration)
<1>0. /\ ImpulseTypes /\ Scheduled /\ LevelIsTheCohorts /\ Smoothed
      /\ Impulse!WrenchIsThisEpisodes
  BY DEF ImpulseInv
<1>1. /\ iPc = "event" /\ iPc' = "step"
      /\ next' \in IF Impulse!Due THEN (iLength + Low)..(iLength + High) ELSE {next}
      /\ UNCHANGED <<iKind, iLength, level, rung, iSmoothed, enabled, cohort, evidence>>
  BY DEF Impulse!Event
<1>2. /\ UNCHANGED <<lastLevel, iSince, pushes, worn>>
      /\ IF remaining = 1 THEN wrench' = Impulse!None /\ remaining' = 0
         ELSE wrench' = wrench /\ remaining' = Impulse!Max({remaining - 1, 0})
  BY DEF Impulse!Event, Impulse!Expire, Impulse!Expired, Impulse!Zeros
<1>3. /\ iLength \in Nat /\ iSince \in Nat /\ next \in Nat /\ pushes \in Nat
      /\ remaining \in 0..LongPush /\ iLength <= MaxLength /\ worn \in Nat
      /\ iKind \in {"stratified", "achievement"}
  BY <1>0, ImpulseConstants DEF ImpulseTypes, Impulse!Never, Impulse!Kinds
<1>4. remaining' = IF remaining = 0 THEN 0 ELSE remaining - 1
  <2>1. remaining - 1 \in Int /\ 0 \in Int
    BY <1>3, ImpulseConstants
  <2>2. /\ Impulse!Max({remaining - 1, 0}) \in {remaining - 1, 0}
        /\ Impulse!Max({remaining - 1, 0}) >= remaining - 1 /\ Impulse!Max({remaining - 1, 0}) >= 0
    BY <2>1, ImpulseMinMax
  <2> QED BY <1>2, <1>3, <2>2, ImpulseConstants
<1>5. ImpulseTypes'
  <2>1. next' \in 0..(MaxLength + PushWarmup + High) /\ remaining' \in 0..LongPush
    BY <1>0, <1>1, <1>3, <1>4, ImpulseConstants DEF ImpulseTypes
  <2>2. -1 \in Impulse!Levels
    BY <1>0, MixtureLevels DEF ImpulseTypes, Impulse!Levels
  <2>3. wrench' \in [level : Impulse!Levels, duration : 0..LongPush]
    BY <1>0, <1>2, <2>2, ImpulseConstants DEF ImpulseTypes, Impulse!None, Impulse!Standing
  <2> QED BY <1>0, <1>1, <1>2, <2>1, <2>3 DEF ImpulseTypes, Impulse!Levels, Impulse!Rungs
<1>6. Scheduled'
  <2>1. CASE Impulse!Due
    <3>1. iKind # "stratified" /\ level # -1 /\ enabled /\ iLength >= next
      BY <1>0, <2>1 DEF ImpulseTypes, Impulse!Due, Impulse!Routed, Impulse!BandRouted, Impulse!Standing
    <3>2. next' \in (iLength + Low)..(iLength + High) /\ next >= PushWarmup
      BY <1>0, <1>1, <2>1 DEF Scheduled
    <3>3. next' \in Int /\ next' >= iLength + Low
      BY <1>3, <3>2, ImpulseConstants
    <3>4. pushes > 0 => iSince < iLength
      BY <1>0 DEF Scheduled
    <3>5. pushes > 0 => next' - (iLength - iSince) >= Low
      <4>1. Low \in Int
        BY ImpulseConstants
      <4>2. iLength \in Int /\ iSince \in Nat /\ next' \in Int /\ next' >= iLength + Low
        BY <1>3, <3>3
      <4>3. iLength - iSince \in Int /\ next' >= (iLength - iSince) + Low
        BY <4>1, <4>2
      <4> QED BY <4>1, <4>2, <4>3, Distances
    <3>6. pushes = 0 => iSince = Impulse!Never
      BY <1>0 DEF Scheduled
    <3>7. next' >= PushWarmup /\ iLength < next'
      BY <1>3, <3>1, <3>2, <3>3, ImpulseConstants
    <3> QED BY <1>1, <1>2, <3>1, <3>4, <3>5, <3>6, <3>7 DEF Scheduled
  <2>2. CASE ~Impulse!Due
    <3>1. next' = next /\ (enabled /\ level # -1 => iLength < next)
      BY <1>1, <1>3, <2>2 DEF Impulse!Due, Impulse!Standing
    <3> QED BY <1>0, <1>1, <1>2, <1>3, <3>1 DEF Scheduled
  <2> QED BY <2>1, <2>2
<1>7. LevelIsTheCohorts' /\ Smoothed'
  BY <1>0, <1>1, <1>2 DEF LevelIsTheCohorts, Smoothed
<1>8. Impulse!WrenchIsThisEpisodes'
  <2>1. /\ wrench = Impulse!None <=> remaining = 0
        /\ wrench # Impulse!None => pushes > 0 /\ remaining + worn = wrench.duration + 1
    BY <1>0, <1>1 DEF Impulse!WrenchIsThisEpisodes
  <2>2. CASE remaining = 1
    BY <1>2, <1>4, <2>2 DEF Impulse!WrenchIsThisEpisodes
  <2>3. CASE remaining # 1 /\ wrench = Impulse!None
    BY <1>2, <1>4, <2>1, <2>3 DEF Impulse!WrenchIsThisEpisodes
  <2>4. CASE remaining # 1 /\ wrench # Impulse!None
    <3>1. wrench' = wrench /\ remaining' = remaining - 1 /\ remaining' # 0
      <4>1. remaining # 0 /\ remaining # 1 /\ remaining \in Nat
        BY <1>3, <2>1, <2>4, ImpulseConstants
      <4>2. wrench' = wrench /\ remaining' = remaining - 1
        BY <1>2, <1>4, <2>4, <4>1
      <4> QED BY <4>1, <4>2
    <3>2. wrench.duration \in Nat
      BY <1>0, ImpulseConstants DEF ImpulseTypes
    <3>3. remaining' + worn' = wrench'.duration
      <4>1. remaining \in Nat
        BY <1>3, ImpulseConstants
      <4> QED BY <1>2, <1>3, <2>1, <2>4, <3>1, <3>2, <4>1
    <3>4. wrench' # Impulse!None /\ pushes' = pushes /\ iPc' = "step"
      BY <1>1, <1>2, <2>4, <3>1
    <3>5. remaining' + worn' = wrench'.duration + 0
      BY <3>1, <3>2, <3>3
    <3> QED BY <2>1, <2>4, <3>1, <3>4, <3>5 DEF Impulse!WrenchIsThisEpisodes
  <2> QED BY <2>2, <2>3, <2>4
<1>9. wrench # Impulse!None /\ wrench' = Impulse!None => worn = wrench.duration
  <2> SUFFICES ASSUME wrench # Impulse!None, wrench' = Impulse!None PROVE worn = wrench.duration
    OBVIOUS
  <2>1. remaining = 1
    BY <1>2
  <2>2. remaining + worn = wrench.duration + 1
    BY <1>0, <1>1 DEF Impulse!WrenchIsThisEpisodes
  <2>3. wrench.duration \in Nat
    BY <1>0, ImpulseConstants DEF ImpulseTypes
  <2> QED BY <1>3, <2>1, <2>2, <2>3
<1> QED BY <1>2, <1>5, <1>6, <1>7, <1>8, <1>9 DEF ImpulseInv

LEMMA ImpulseElse ==
  ASSUME ImpulseInv, Impulse!SetStage \/ Impulse!Disable
  PROVE  ImpulseInv' /\ pushes' = pushes /\ wrench' = wrench /\ iPc = "step"
<1>0. /\ ImpulseTypes /\ Scheduled /\ LevelIsTheCohorts /\ Smoothed
      /\ Impulse!WrenchIsThisEpisodes
  BY DEF ImpulseInv
<1>1. /\ iPc = "step" /\ enabled' \in {enabled, FALSE} /\ rung' \in Impulse!Rungs
      /\ UNCHANGED <<iKind, iLength, iSince, next, wrench, remaining, lastLevel, level, iSmoothed,
                     iPc, worn, cohort, evidence, pushes>>
  BY <1>0 DEF Impulse!SetStage, Impulse!Disable, Impulse!term, ImpulseTypes
<1>2. enabled' \in BOOLEAN /\ (enabled' => enabled)
  <2>1. enabled \in BOOLEAN /\ enabled' \in {enabled, FALSE}
    BY <1>0, <1>1, Zenon DEF ImpulseTypes
  <2>2. CASE enabled' = enabled
    BY <2>1, <2>2, Zenon
  <2>3. CASE enabled' = FALSE
    BY <2>3, Zenon
  <2> QED BY <2>1, <2>2, <2>3, Zenon
<1>3. ImpulseTypes'
  BY <1>0, <1>1, <1>2 DEF ImpulseTypes, Impulse!Levels, Impulse!Rungs
<1>4. Scheduled' /\ LevelIsTheCohorts' /\ Smoothed' /\ Impulse!WrenchIsThisEpisodes'
  BY <1>0, <1>1, <1>2 DEF Scheduled, LevelIsTheCohorts, Smoothed, Impulse!WrenchIsThisEpisodes
<1> QED BY <1>1, <1>3, <1>4 DEF ImpulseInv

LEMMA ImpulseStep ==
  ASSUME ImpulseInv, [ImpulseAction]_impulseVars
  PROVE  ImpulseInv'
<1>1. CASE UNCHANGED impulseVars
  BY <1>1 DEF impulseVars, ImpulseInv, ImpulseTypes, Scheduled, LevelIsTheCohorts, Smoothed,
              Impulse!WrenchIsThisEpisodes, Impulse!Levels, Impulse!Rungs
<1> QED BY <1>1, ImpulsePhysics, ImpulseReset, ImpulseTrigger, ImpulseExpire, ImpulseElse
        DEF ImpulseAction

LEMMA ImpulseConclusion ==
  ImpulseInv => /\ Impulse!TypeOK /\ Impulse!WrenchIsThisEpisodes
                /\ Impulse!AgeIsThisEpisodes /\ Impulse!PushIsTheCohorts
<1> SUFFICES ASSUME ImpulseInv
             PROVE  /\ Impulse!TypeOK /\ Impulse!WrenchIsThisEpisodes
                    /\ Impulse!AgeIsThisEpisodes /\ Impulse!PushIsTheCohorts
  OBVIOUS
<1>0. /\ ImpulseTypes /\ Scheduled /\ LevelIsTheCohorts /\ Smoothed
      /\ Impulse!WrenchIsThisEpisodes
  BY DEF ImpulseInv
<1>1. iSmoothed \subseteq 0..MaxLength /\ Impulse!Cardinality(iSmoothed) <= 1
  <2>1. Impulse!Cardinality(iSmoothed) = Cardinality(iSmoothed)
    BY Zenon DEF Impulse!Cardinality, Cardinality
  <2>2. Cardinality(iSmoothed) \in {0, 1}
    BY <1>0, FS_EmptySet, FS_Singleton DEF Smoothed
  <2> QED BY <1>0, <2>1, <2>2 DEF Smoothed
<1>2. Impulse!TypeOK
  BY <1>0, <1>1 DEF ImpulseTypes, Impulse!TypeOK
<1>3. Impulse!AgeIsThisEpisodes
  BY <1>0, ImpulseConstants
     DEF ImpulseTypes, Scheduled, LevelIsTheCohorts, Impulse!AgeIsThisEpisodes, Impulse!Age,
         Impulse!Never, Impulse!Standing
<1>4. Impulse!PushIsTheCohorts
  BY <1>0 DEF LevelIsTheCohorts, Impulse!PushIsTheCohorts, Impulse!Standing
<1> QED BY <1>0, <1>2, <1>3, <1>4

\* Only Event pushes and only Event takes a wrench away between two resets.
LEMMA ImpulseActions ==
  ASSUME ImpulseInv, [ImpulseAction]_impulseVars
  PROVE  /\ (wrench # Impulse!None /\ wrench' = Impulse!None /\ iPc = "event"
               => worn = wrench.duration)
         /\ pushes' > pushes =>
              /\ iLength >= PushWarmup
              /\ pushes > 0 => iSince >= Low /\ (iKind = "stratified" => iSince <= High)
         /\ (iPc = "reset" =>
               /\ rung' > rung => \E s \in evidence \cup {iLength} : s >= LadderAdvance
               /\ rung' < rung => \E s \in evidence \cup {iLength} : s < LadderRegress)
<1>0. pushes \in Nat /\ rung \in Int
  BY DEF ImpulseInv, ImpulseTypes, Impulse!Rungs
<1>1. CASE Impulse!Event
  <2>1. iPc = "event" /\ rung' = rung
    BY <1>1 DEF Impulse!Event
  <2>2. CASE Impulse!Due /\ Impulse!Routed
    BY <1>1, <2>1, <2>2, ImpulseTrigger
  <2>3. CASE ~(Impulse!Due /\ Impulse!Routed)
    BY <1>0, <1>1, <2>1, <2>3, ImpulseExpire
  <2> QED BY <2>2, <2>3
<1>2. CASE Impulse!Reset
  <2>1. iPc = "reset" /\ pushes' = 0
    BY <1>2 DEF Impulse!Reset
  <2> QED BY <1>0, <1>2, <2>1, ImpulseReset
<1>3. CASE Impulse!Physics
  <2>1. iPc = "step" /\ pushes' = pushes
    BY <1>3 DEF Impulse!Physics
  <2> QED BY <1>0, <2>1
<1>4. CASE Impulse!SetStage \/ Impulse!Disable
  BY <1>0, <1>4, ImpulseElse
<1>5. CASE UNCHANGED impulseVars
  <2>1. wrench' = wrench /\ pushes' = pushes /\ rung' = rung
    BY <1>5 DEF impulseVars
  <2> QED BY <1>0, <2>1
<1> QED BY <1>1, <1>2, <1>3, <1>4, <1>5 DEF ImpulseAction

LEMMA ImpulseRouted ==
  ASSUME ImpulseTypes, Impulse!Due, iKind = "stratified"
  PROVE  Impulse!Routed
BY DEF ImpulseTypes, Impulse!Due, Impulse!Routed, Impulse!BandRouted, Impulse!Standing

LEMMA StratifiedIsRouted ==
  ASSUME ImpulseInv, [ImpulseAction]_impulseVars, iKind = "stratified", iPc = "event", Impulse!Due,
         ~UNCHANGED impulseVars
  PROVE  pushes' = pushes + 1
<1>1. Impulse!Event
  BY DEF ImpulseAction, Impulse!Physics, Impulse!Reset, Impulse!SetStage, Impulse!Disable
<1>2. Impulse!Routed
  BY ImpulseRouted DEF ImpulseInv
<1> QED BY <1>1, <1>2, ImpulseTrigger
-----------------------------------------------------------------------------
(* The configuration of the tasks, for any robot. *)

LEMMA TaskConstants ==
  /\ Joints \in Seq(Task!JointSet) /\ ".*" \notin Task!JointSet
  /\ \A side \in DOMAIN Legs : DOMAIN Legs[side] \subseteq Nat /\ IsFiniteSet(DOMAIN Legs[side])
  /\ \E side \in DOMAIN Legs : Cardinality(Task!Positions(Legs[side])) >= 2
  /\ \A j \in Task!JointSet : Limit[j] \in Nat /\ Stiffness[j] \in Nat \ {0}
<1>1. \A S : Task!Cardinality(S) = Cardinality(S) /\ Task!IsFiniteSet(S) = IsFiniteSet(S)
  BY Zenon DEF Task!Cardinality, Cardinality, Task!IsFiniteSet, IsFiniteSet
<1>2. Task!ConfigurationAssumption
  BY PartsAssumption
<1>3. /\ \A side \in DOMAIN Legs : DOMAIN Legs[side] \subseteq Nat /\ IsFiniteSet(DOMAIN Legs[side])
      /\ \E side \in DOMAIN Legs : Cardinality(Task!Positions(Legs[side])) >= 2
  BY <1>1, <1>2, Zenon DEF Task!ConfigurationAssumption
<1> QED BY <1>2, <1>3 DEF Task!ConfigurationAssumption

LEMMA TaskCounts == ASSUME NEW S PROVE Task!Cardinality(S) = Cardinality(S)
BY Zenon DEF Task!Cardinality, Cardinality

\* InOrder lists the joints at the positions it is given, in their order.
LEMMA InOrderLists ==
  ASSUME NEW S \in SUBSET DOMAIN Joints, NEW list, list = Task!InOrder(S)
  PROVE  /\ DOMAIN list = 1..Cardinality(S) /\ Cardinality(S) \in Nat
         /\ \A k \in DOMAIN list : \E i \in S : list[k] = Joints[i]
         /\ S # {} => list # <<>>
         /\ \A a, b \in DOMAIN list : a < b =>
              \E x, y \in S : x < y /\ Joints[x] = list[a] /\ Joints[y] = list[b]
<1> DEFINE upto == [i \in S |-> Task!UpTo(S, i)]
           rank == [i \in S |-> Cardinality(upto[i])]
           place(k) == CHOOSE i \in S : Task!Cardinality(Task!UpTo(S, i)) = k
<1>1. S \subseteq Nat /\ IsFiniteSet(S)
  <2>1. Len(Joints) \in Nat /\ DOMAIN Joints = 1..Len(Joints)
    BY TaskConstants
  <2>2. IsFiniteSet(1..Len(Joints))
    BY <2>1, FS_Interval
  <2> QED BY <2>1, <2>2, FS_Subset
<1>2. \A i \in S : upto[i] = {j \in S : j <= i} /\ upto[i] \in SUBSET S /\ i \in upto[i]
  <2> SUFFICES ASSUME NEW i \in S PROVE upto[i] = {j \in S : j <= i} /\ i \in {j \in S : j <= i}
    OBVIOUS
  <2>1. i <= i
    BY <1>1
  <2> QED BY <2>1 DEF Task!UpTo
<1>3. upto \in [S -> SUBSET S] /\ \A i \in S : i \in upto[i]
  BY <1>2
<1>4. \A i \in S : Task!Cardinality(Task!UpTo(S, i)) = rank[i]
  BY TaskCounts
<1>5. rank = [i \in S |-> Cardinality(upto[i])]
  OBVIOUS
<1> HIDE DEF upto, rank
<1>6. \A i, j \in S : i # j =>
        \/ upto[i] \subseteq upto[j] /\ j \notin upto[i]
        \/ upto[j] \subseteq upto[i] /\ i \notin upto[j]
  <2>1. ASSUME NEW i \in S, NEW j \in S, i < j
        PROVE  upto[i] \subseteq upto[j] /\ j \notin upto[i]
    BY <1>1, <1>2, <2>1
  <2>2. ASSUME NEW i \in S, NEW j \in S, i # j PROVE i < j \/ j < i
    BY <1>1, <2>2
  <2> QED BY <2>1, <2>2
<1>7. /\ Cardinality(S) \in Nat /\ rank \in [S -> 1..Cardinality(S)]
      /\ \A k \in 1..Cardinality(S) : \E i \in S : rank[i] = k
  BY <1>1, <1>3, <1>5, <1>6, RanksNumber
<1>8. \A k \in 1..Cardinality(S) : place(k) \in S /\ rank[place(k)] = k
  <2> SUFFICES ASSUME NEW k \in 1..Cardinality(S) PROVE place(k) \in S /\ rank[place(k)] = k
    OBVIOUS
  <2>1. \E i \in S : Task!Cardinality(Task!UpTo(S, i)) = k
    BY <1>4, <1>7
  <2>2. place(k) \in S /\ Task!Cardinality(Task!UpTo(S, place(k))) = k
    BY <2>1
  <2> QED BY <1>4, <2>2
<1>9. DOMAIN list = 1..Cardinality(S) /\ \A k \in DOMAIN list : list[k] = Joints[place(k)]
  BY TaskCounts DEF Task!InOrder
<1> HIDE DEF place
<1>10. \A k \in DOMAIN list : \E i \in S : list[k] = Joints[i]
  BY <1>8, <1>9
<1>11. S # {} => list # <<>>
  <2> SUFFICES ASSUME S # {} PROVE list # <<>>
    OBVIOUS
  <2>1. 1 \in DOMAIN list
    <3>1. Cardinality(S) # 0
      BY <1>1, FS_EmptySet
    <3> QED BY <1>7, <1>9, <3>1
  <2> QED BY <2>1
<1>12. ASSUME NEW a \in DOMAIN list, NEW b \in DOMAIN list, a < b
       PROVE  place(a) < place(b)
  <2>1. a \in 1..Cardinality(S) /\ b \in 1..Cardinality(S)
    BY <1>9
  <2>2. place(a) \in S /\ place(b) \in S /\ rank[place(a)] = a /\ rank[place(b)] = b
    BY <1>8, <2>1
  <2>3. ASSUME place(b) <= place(a) PROVE FALSE
    <3>1. upto[place(b)] \subseteq upto[place(a)]
      BY <1>1, <1>2, <2>2, <2>3
    <3>2. IsFiniteSet(upto[place(a)])
      BY <1>1, <1>2, <2>2, FS_Subset
    <3>3. Cardinality(upto[place(b)]) <= Cardinality(upto[place(a)])
      BY <3>1, <3>2, FS_Subset
    <3>4. b <= a
      BY <1>5, <2>2, <3>3
    <3> QED BY <1>7, <1>12, <2>1, <3>4
  <2>4. place(a) \in Int /\ place(b) \in Int
    BY <1>1, <2>2
  <2> QED BY <2>3, <2>4
<1>13. \A a, b \in DOMAIN list : a < b =>
         \E x, y \in S : x < y /\ Joints[x] = list[a] /\ Joints[y] = list[b]
  BY <1>8, <1>9, <1>12
<1> QED BY <1>7, <1>9, <1>10, <1>11, <1>13

\* The ankle of some leg has a joint that is selected.
LEMMA AnklesAreSelected ==
  ASSUME NEW dropped \in {0, 1}
  PROVE  \E side \in DOMAIN Legs : Task!EndOfLeg(Legs[side], 2, dropped) # {}
<1>1. PICK side \in DOMAIN Legs : Cardinality(Task!Positions(Legs[side])) >= 2
  BY TaskConstants
<1> DEFINE leg == Legs[side]
           S == Task!Positions(leg)
           upto == [i \in S |-> {k \in S : k >= i}]
           rank == [i \in S |-> Cardinality(upto[i])]
<1>2. S \subseteq Nat /\ IsFiniteSet(S)
  <2>1. DOMAIN leg \subseteq Nat /\ IsFiniteSet(DOMAIN leg) /\ S \subseteq DOMAIN leg
    BY TaskConstants DEF Task!Positions
  <2> QED BY <2>1, FS_Subset
<1>3. \A i \in S : Task!EndOfLeg(leg, 2, dropped) =
        {leg[i_1] : i_1 \in {j \in S : Task!Cardinality(Task!Following(leg, j)) \in dropped..1}}
  BY DEF Task!EndOfLeg
<1>4. \A i \in S : Task!Cardinality(Task!Following(leg, i)) = Cardinality({k \in S : k > i})
  BY TaskCounts DEF Task!Following
<1>5. Cardinality(S) >= 2
  BY <1>1
<1> HIDE DEF S, leg
<1>6. \A i \in S : upto[i] = {k \in S : k >= i} /\ upto[i] \in SUBSET S /\ i \in upto[i]
  BY <1>2
<1>7. upto \in [S -> SUBSET S] /\ \A i \in S : i \in upto[i]
  BY <1>6
<1>8. rank = [i \in S |-> Cardinality(upto[i])]
  OBVIOUS
<1> HIDE DEF upto, rank
<1>9. \A i, j \in S : i # j =>
        \/ upto[i] \subseteq upto[j] /\ j \notin upto[i]
        \/ upto[j] \subseteq upto[i] /\ i \notin upto[j]
  <2>1. ASSUME NEW i \in S, NEW j \in S, j < i
        PROVE  upto[i] \subseteq upto[j] /\ j \notin upto[i]
    <3>1. i \in Int /\ j \in Int /\ ~(j >= i)
      BY <1>2, <2>1
    <3>2. ASSUME NEW k \in S, k >= i PROVE k >= j
      BY <1>2, <2>1, <3>1, <3>2
    <3> QED BY <1>6, <3>1, <3>2
  <2>2. ASSUME NEW i \in S, NEW j \in S, i # j PROVE i < j \/ j < i
    BY <1>2, <2>2
  <2> QED BY <2>1, <2>2
<1>10. /\ Cardinality(S) \in Nat /\ rank \in [S -> 1..Cardinality(S)]
       /\ \A k \in 1..Cardinality(S) : \E i \in S : rank[i] = k
  <2>1. IsFiniteSet(S)
    BY <1>2
  <2> QED BY <2>1, <1>7, <1>8, <1>9, RanksNumber, SMTT(30)
<1>11. PICK i \in S : rank[i] = 2
  BY <1>5, <1>10
<1>12. Cardinality({k \in S : k > i}) = 1
  <2>1. IsFiniteSet(upto[i]) /\ i \in upto[i] /\ Cardinality(upto[i]) = 2
    BY <1>2, <1>6, <1>8, <1>11, FS_Subset
  <2>2. {k \in S : k > i} = upto[i] \ {i}
    BY <1>2, <1>6
  <2>3. Cardinality(upto[i] \ {i}) = Cardinality(upto[i]) - 1
    BY <2>1, FS_RemoveElement
  <2> QED BY <2>1, <2>2, <2>3
<1>13. leg[i] \in Task!EndOfLeg(leg, 2, dropped)
  BY <1>3, <1>4, <1>11, <1>12
<1> QED BY <1>13 DEF leg

\* Which options go together: what only balance tasks have, and the plain tasks.
LEMMA OptionsAre ==
  ASSUME options \in Task!Options
  PROVE  /\ options.task \in {"balance", "matched", "achievement", "mpc", "feedback", "zero"}
         /\ options.control \in {"position", "torque"} /\ options.stage \in {0, 1}
         /\ options.play \in BOOLEAN
         /\ options.authority # "uniform" => Task!Balance
         /\ options.task \in {"matched", "achievement"} => options.disturbance = "finite" /\ options.stage = 0
<1> DEFINE A == [task : {"balance"}, control : {"position", "torque"}, play : {FALSE},
                 authority : {"uniform", "ankle", "ankle_pitch"}, disturbance : {"finite", "velocity", "none"}, stage : 0..1]
           B == [task : {"balance", "matched", "achievement"}, control : {"position"}, play : BOOLEAN,
                 authority : {"ankle", "ankle_pitch"}, disturbance : {"finite"}, stage : {0}]
           C == [task : {"mpc", "feedback"}, control : {"torque"}, play : BOOLEAN,
                 authority : {"uniform"}, disturbance : {"kick", "curriculum", "none"}, stage : 0..1]
           D == [task : {"zero"}, control : {"position", "torque"}, play : BOOLEAN,
                 authority : {"uniform"}, disturbance : {"none"}, stage : {0}]
<1>1. options \in A \/ options \in B \/ options \in C \/ options \in D
  BY DEF Task!Options
<1>2. options.play \in BOOLEAN
  BY <1>1, Zenon
<1>3. /\ options.task \in {"balance", "matched", "achievement", "mpc", "feedback", "zero"}
      /\ options.control \in {"position", "torque"} /\ options.stage \in 0..1
      /\ options.authority # "uniform" => options.task \in {"balance", "matched", "achievement"}
      /\ options.task \in {"matched", "achievement"} =>
           options.disturbance = "finite" /\ options.stage \in {0}
  <2>1. CASE options \in A
    BY <2>1
  <2>2. CASE options \in B
    BY <2>2
  <2>3. CASE options \in C
    BY <2>3
  <2>4. CASE options \in D
    BY <2>4
  <2> HIDE DEF A, B, C, D
  <2> QED BY <1>1, <2>1, <2>2, <2>3, <2>4
<1> QED BY <1>2, <1>3 DEF Task!Balance

\* The joints a residual may act on, and the scales of its actions.
ActionsAre ==
  /\ \A i \in DOMAIN residual : residual[i] \in Task!JointSet
  /\ \A p \in DOMAIN scales : scales[p] \in Nat
  /\ Task!ScalesPartitionTheActuators /\ Task!AuthorityIsWithinTheHardware

LEMMA BoundedIsWithin ==
  ASSUME NEW j \in Task!JointSet
  PROVE  /\ Task!Default \in Nat /\ Task!Bounded(j) \in Nat /\ Task!Bounded(j) <= Task!Default
         /\ Task!Bounded(j) * (IF options.control = "position" THEN Stiffness[j] ELSE 1) <= Limit[j]
<1>1. Limit[j] \in Nat /\ Stiffness[j] \in Nat \ {0}
  BY TaskConstants
<1>2. Task!Default \in Nat
  BY DEF Task!Default
<1>3. CASE options.control = "position"
  <2> DEFINE q == Limit[j] \div Stiffness[j]
  <2>1. q \in Nat /\ q * Stiffness[j] <= Limit[j]
    BY <1>1
  <2>2. Task!Bounded(j) = IF q < Task!Default THEN q ELSE Task!Default
    BY <1>3 DEF Task!Bounded
  <2> HIDE DEF q
  <2>3. Task!Bounded(j) \in Nat /\ Task!Bounded(j) <= q /\ Task!Bounded(j) <= Task!Default
    BY <1>2, <2>1, <2>2
  <2>4. Task!Bounded(j) * Stiffness[j] <= q * Stiffness[j]
    BY <1>1, <2>1, <2>3, Multiples
  <2>5. Task!Bounded(j) * Stiffness[j] <= Limit[j]
    <3>1. q * Stiffness[j] \in Int /\ Task!Bounded(j) * Stiffness[j] \in Int
      BY <1>1, <2>1, <2>3
    <3> QED BY <1>1, <2>1, <2>4, <3>1
  <2> QED BY <1>2, <1>3, <2>3, <2>5
<1>4. CASE options.control # "position"
  <2>1. Task!Bounded(j) = IF Limit[j] < Task!Default THEN Limit[j] ELSE Task!Default
    BY <1>4 DEF Task!Bounded
  <2>2. Task!Bounded(j) \in Nat /\ Task!Bounded(j) <= Limit[j] /\ Task!Bounded(j) <= Task!Default
    BY <1>1, <1>2, <2>1
  <2> QED BY <1>2, <1>4, <2>2
<1> QED BY <1>3, <1>4

\* What is selected is a list of leg joints in module order; a uniform residual acts on
\* every joint but the upper body's.
LEMMA SelectionIsOfTheLegs ==
  ASSUME options \in Task!Options,
         NEW list, list = IF Task!Balance THEN Task!SelectResidualJoints ELSE Task!Candidates
  PROVE  /\ \A i \in DOMAIN list : list[i] \in Task!JointSet \ UpperBody
         /\ options.authority # "uniform" =>
              /\ list # <<>>
              /\ \A i \in DOMAIN list :
                   \E side \in DOMAIN Legs : \E k \in DOMAIN Legs[side] : Legs[side][k] = list[i]
              /\ \A i, k \in DOMAIN list : i < k =>
                   \E x, y \in DOMAIN Joints : x < y /\ Joints[x] = list[i] /\ Joints[y] = list[k]
<1> DEFINE S == Task!Positions(Joints)
           R == {i \in S : Joints[i] \in Task!Selected}
<1>1. S \subseteq DOMAIN Joints /\ \A i \in S : Joints[i] \in Task!JointSet \ UpperBody
  BY DEF Task!Positions
<1>2. CASE options.authority = "uniform"
  <2>1. list = Task!InOrder(S)
    BY <1>2 DEF Task!SelectResidualJoints, Task!Candidates
  <2> HIDE DEF S
  <2>2. \A k \in DOMAIN list : \E i \in S : list[k] = Joints[i]
    BY <1>1, <2>1, InOrderLists
  <2> QED BY <1>1, <1>2, <2>2
<1>3. CASE options.authority # "uniform"
  <2>1. list = Task!InOrder(R)
    BY <1>3, OptionsAre DEF Task!SelectResidualJoints
  <2>2. R \subseteq DOMAIN Joints
    BY <1>1
  <2>3. R # {}
    <3> DEFINE dropped == IF options.authority = "ankle" THEN 0 ELSE 1
    <3>1. dropped \in {0, 1}
      OBVIOUS
    <3>2. Task!Selected = UNION {Task!EndOfLeg(Legs[s], 2, dropped) : s \in DOMAIN Legs}
      BY DEF Task!Selected
    <3> HIDE DEF dropped
    <3>3. PICK side \in DOMAIN Legs : Task!EndOfLeg(Legs[side], 2, dropped) # {}
      BY <3>1, AnklesAreSelected
    <3>4. PICK j \in Task!Positions(Legs[side]) :
            Legs[side][j] \in Task!EndOfLeg(Legs[side], 2, dropped)
      BY <3>3 DEF Task!EndOfLeg
    <3>5. Legs[side][j] \in Task!Selected
      BY <3>2, <3>4
    <3>6. Legs[side][j] \in Task!JointSet \ UpperBody
      BY <3>4 DEF Task!Positions
    <3>7. PICK i \in DOMAIN Joints : Joints[i] = Legs[side][j]
      BY <3>6 DEF Task!JointSet
    <3>8. i \in S
      BY <3>6, <3>7 DEF Task!Positions
    <3> QED BY <3>5, <3>7, <3>8
  <2>4. \A i \in R : /\ Joints[i] \in Task!JointSet \ UpperBody
                     /\ \E side \in DOMAIN Legs : \E k \in DOMAIN Legs[side] :
                          Legs[side][k] = Joints[i]
    <3> SUFFICES ASSUME NEW i \in R
                 PROVE  \E side \in DOMAIN Legs : \E k \in DOMAIN Legs[side] :
                          Legs[side][k] = Joints[i]
      BY <1>1
    <3>1. PICK side \in DOMAIN Legs, n \in {0, 1} : Joints[i] \in Task!EndOfLeg(Legs[side], 2, n)
      BY DEF Task!Selected
    <3> QED BY <3>1 DEF Task!EndOfLeg, Task!Positions
  <2> HIDE DEF R
  <2>5. /\ \A k \in DOMAIN list : \E i \in R : list[k] = Joints[i]
        /\ list # <<>>
        /\ \A a, b \in DOMAIN list : a < b =>
             \E x, y \in R : x < y /\ Joints[x] = list[a] /\ Joints[y] = list[b]
    BY <2>1, <2>2, <2>3, InOrderLists
  <2>6. \A i \in DOMAIN list :
          /\ list[i] \in Task!JointSet \ UpperBody
          /\ \E side \in DOMAIN Legs : \E k \in DOMAIN Legs[side] : Legs[side][k] = list[i]
    BY <2>4, <2>5
  <2>7. \A i, k \in DOMAIN list : i < k =>
          \E x, y \in DOMAIN Joints : x < y /\ Joints[x] = list[i] /\ Joints[y] = list[k]
    BY <2>2, <2>5
  <2> QED BY <2>5, <2>6, <2>7
<1> QED BY <1>2, <1>3

LEMMA ActionsAreBuilt == ASSUME options \in Task!Options, Task!BuildActions PROVE ActionsAre'
<1> DEFINE uniform == options.authority = "uniform"
<1>1. /\ options' = options /\ tPc' = "observations"
      /\ residual' = IF Task!Balance THEN Task!SelectResidualJoints ELSE Task!Candidates
      /\ scales' = IF uniform THEN [p \in {".*"} |-> Task!Default]
                   ELSE Task!HardwareResidualScales(residual')
  BY DEF Task!BuildActions, Task!MpcCommands
<1> DEFINE list == residual'
<1>2. /\ \A i \in DOMAIN list : list[i] \in Task!JointSet \ UpperBody
      /\ options.authority # "uniform" =>
           /\ list # <<>>
           /\ \A i \in DOMAIN list :
                \E side \in DOMAIN Legs : \E k \in DOMAIN Legs[side] : Legs[side][k] = list[i]
           /\ \A i, k \in DOMAIN list : i < k =>
                \E x, y \in DOMAIN Joints : x < y /\ Joints[x] = list[i] /\ Joints[y] = list[k]
  BY <1>1, SelectionIsOfTheLegs
<1>3. ~uniform => /\ DOMAIN scales' = Task!JointSet
                  /\ \A j \in Task!JointSet : scales'[j] \in {Task!Default, Task!Bounded(j)}
                  /\ \A i \in DOMAIN list : scales'[list[i]] = Task!Bounded(list[i])
  BY <1>1, <1>2 DEF Task!HardwareResidualScales
<1>4. \A p \in DOMAIN scales' : scales'[p] \in Nat
  <2>1. Task!Default \in Nat
    BY DEF Task!Default
  <2>2. CASE uniform
    BY <1>1, <2>1, <2>2
  <2>3. CASE ~uniform
    BY <1>3, <2>1, <2>3, BoundedIsWithin
  <2> QED BY <2>2, <2>3
<1>5. Task!ScalesPartitionTheActuators'
  <2> SUFFICES ASSUME NEW j \in Task!JointSet
               PROVE  Task!Cardinality({p \in DOMAIN scales' : Task!Matches(p, j)}) = 1
    BY DEF Task!ScalesPartitionTheActuators, Task!Matches
  <2>1. CASE uniform
    <3>1. {p \in DOMAIN scales' : Task!Matches(p, j)} = {".*"}
      BY <1>1, <2>1 DEF Task!Matches
    <3> QED BY <3>1, TaskCounts, FS_Singleton
  <2>2. CASE ~uniform
    <3>1. {p \in DOMAIN scales' : Task!Matches(p, j)} = {j}
      BY <1>3, <2>2, TaskConstants DEF Task!Matches
    <3> QED BY <3>1, TaskCounts, FS_Singleton
  <2> QED BY <2>1, <2>2
<1>6. Task!AuthorityIsWithinTheHardware'
  <2> SUFFICES ASSUME ~uniform PROVE Task!AuthorityIsWithinTheHardware'
    BY <1>1 DEF Task!AuthorityIsWithinTheHardware
  <2>1. ASSUME NEW i \in DOMAIN list
        PROVE  /\ scales'[list[i]] <= Task!Default
               /\ scales'[list[i]] * (IF options.control = "position" THEN Stiffness[list[i]] ELSE 1)
                    <= Limit[list[i]]
    <3>1. list[i] \in Task!JointSet /\ scales'[list[i]] = Task!Bounded(list[i])
      BY <1>2, <1>3
    <3> QED BY <3>1, BoundedIsWithin
  <2>2. Task!Default' = Task!Default
    BY <1>1 DEF Task!Default
  <2> HIDE DEF list
  <2> QED BY <1>1, <1>2, <2>1, <2>2 DEF Task!AuthorityIsWithinTheHardware, list
<1> QED BY <1>2, <1>4, <1>5, <1>6 DEF ActionsAre

-----------------------------------------------------------------------------
(* The observations are objects, which the critic of a balance task has of its own. *)

Objects == [history : {1, 5}, delay : 0..1, biased : BOOLEAN]
ObservedNames == {"base_ang_vel", "joint_pos", "controller_pos_error"}
CriticOnlyNames == {"foot_lin_vel", "push_recency", "encoder_bias"}

LEMMA TermsAre ==
  /\ Task!ActorNames = ObservedNames
  /\ DOMAIN Task!Terms = ObservedNames \cup (IF Task!Balance THEN {"foot_lin_vel"} ELSE {})
  /\ Task!CriticNames = ObservedNames \cup (IF Task!Balance THEN CriticOnlyNames ELSE {})
  /\ Task!Privileged = IF Task!Balance THEN {"push_recency", "encoder_bias"} ELSE {}
  /\ \A n \in DOMAIN Task!Terms : Task!Terms[n] \in Objects /\ Task!Terms[n].delay = 0
<1>1. DOMAIN Task!SharedTerms = ObservedNames
  BY DEF Task!SharedTerms, ObservedNames
<1>2. DOMAIN Task!Terms = ObservedNames \cup (IF Task!Balance THEN {"foot_lin_vel"} ELSE {})
  BY <1>1 DEF Task!Terms
<1>3. Task!Privileged = IF Task!Balance THEN {"push_recency", "encoder_bias"} ELSE {}
  BY DEF Task!Privileged
<1>4. Task!ActorNames = ObservedNames
  BY <1>2 DEF Task!ActorNames, ObservedNames
<1>5. Task!CriticNames = ObservedNames \cup (IF Task!Balance THEN CriticOnlyNames ELSE {})
  BY <1>2, <1>3 DEF Task!CriticNames, CriticOnlyNames
<1>6. ASSUME NEW h \in {1, 5}, NEW b \in BOOLEAN
      PROVE  Task!Term(h, b) \in Objects /\ Task!Term(h, b).delay = 0
  BY DEF Task!Term, Objects
<1>7. ASSUME NEW n \in ObservedNames
      PROVE  Task!SharedTerms[n] \in Objects /\ Task!SharedTerms[n].delay = 0
  <2> DEFINE h == IF Task!Balance /\ n # "joint_pos" THEN 5 ELSE 1
             b == Task!Balance /\ n # "base_ang_vel"
  <2>1. h \in {1, 5}
    OBVIOUS
  <2>2. b \in BOOLEAN
    BY Zenon
  <2>3. Task!SharedTerms[n] = Task!Term(h, b)
    BY DEF Task!SharedTerms, ObservedNames
  <2> HIDE DEF h, b
  <2> QED BY <1>6, <2>1, <2>2, <2>3
<1>8. ASSUME NEW n \in DOMAIN Task!Terms
      PROVE  Task!Terms[n] \in Objects /\ Task!Terms[n].delay = 0
  <2>1. CASE n = "foot_lin_vel"
    <3>1. Task!Balance /\ Task!Terms[n] = Task!Term(5, FALSE)
      BY <1>1, <1>2, <2>1 DEF Task!Terms, ObservedNames
    <3> QED BY <1>6, <3>1
  <2>2. CASE n # "foot_lin_vel"
    <3>1. n \in ObservedNames /\ Task!Terms[n] = Task!SharedTerms[n]
      BY <1>1, <1>2, <2>2 DEF Task!Terms
    <3> QED BY <1>7, <3>1
  <2> QED BY <2>1, <2>2
<1> QED BY <1>2, <1>3, <1>4, <1>5, <1>8

\* A critic's term has no delay and no bias, and as many frames as the actor's.
LEMMA CriticTermsAre ==
  ASSUME NEW n \in Task!CriticNames
  PROVE  /\ Task!CriticTerm(n) \in Objects /\ Task!CriticTerm(n).delay = 0
         /\ Task!Balance => Task!CriticTerm(n).biased = FALSE
         /\ n \in Task!ActorNames => Task!CriticTerm(n).history = Task!Terms[n].history
<1>1. CASE n \in Task!Privileged
  <2>1. Task!CriticTerm(n) = Task!Term(1, FALSE) /\ n \notin Task!ActorNames
    BY <1>1, TermsAre DEF Task!CriticTerm, ObservedNames
  <2> QED BY <2>1 DEF Task!Term, Objects
<1>2. CASE n \notin Task!Privileged
  <2>1. n \in DOMAIN Task!Terms
    BY <1>2 DEF Task!CriticNames
  <2>2. Task!Terms[n] \in Objects /\ Task!Terms[n].delay = 0
    BY <2>1, TermsAre
  <2>3. CASE Task!Balance /\ n \in Task!Unbiased
    <3>1. Task!CriticTerm(n) = [Task!Terms[n] EXCEPT !.biased = FALSE]
      BY <1>2, <2>3 DEF Task!CriticTerm
    <3> QED BY <2>2, <3>1 DEF Objects
  <2>4. CASE ~(Task!Balance /\ n \in Task!Unbiased)
    <3>1. Task!CriticTerm(n) = Task!Terms[n]
      BY <1>2, <2>4 DEF Task!CriticTerm
    <3>2. Task!Balance => Task!Terms[n].biased = FALSE
      <4> SUFFICES ASSUME Task!Balance PROVE Task!Terms[n].biased = FALSE
        OBVIOUS
      <4>1. n \in {"base_ang_vel", "foot_lin_vel"}
        BY <2>1, <2>4, TermsAre DEF Task!Unbiased, ObservedNames
      <4>2. CASE n = "base_ang_vel"
        <5>1. Task!Terms[n] = Task!SharedTerms[n]
          BY <4>2, TermsAre DEF Task!Terms, Task!SharedTerms
        <5>2. Task!SharedTerms[n].biased = (Task!Balance /\ n # "base_ang_vel")
          BY <4>2 DEF Task!SharedTerms, Task!Term
        <5> QED BY <4>2, <5>1, <5>2, Zenon
      <4>3. CASE n = "foot_lin_vel"
        <5>1. Task!Terms[n] = Task!Term(5, FALSE)
          BY <4>3, TermsAre DEF Task!Terms, Task!SharedTerms
        <5> QED BY <5>1 DEF Task!Term
      <4> QED BY <4>1, <4>2, <4>3
    <3> QED BY <2>2, <3>1, <3>2
  <2> QED BY <2>3, <2>4
<1> QED BY <1>1, <1>2

ObjectsAre ==
  tPc \notin {"actions", "observations"} =>
    /\ DOMAIN groups = {"actor", "critic"} /\ corruption["critic"] = FALSE
    /\ DOMAIN corruption = {"actor", "critic"}
    /\ DOMAIN groups["actor"] \subseteq DOMAIN groups["critic"]
    /\ DOMAIN groups["actor"] \subseteq Task!ActorNames
    /\ DOMAIN groups["critic"] \subseteq Task!CriticNames
    /\ \A n \in DOMAIN groups["actor"] : groups["actor"][n] = <<"actor", n>>
    /\ \A n \in DOMAIN groups["critic"] : groups["critic"][n] = Task!CriticId(n)
    /\ DOMAIN heap = DOMAIN Task!Observations
    /\ \A id \in DOMAIN heap : heap[id] \in Objects
    /\ \A n \in Task!ActorNames : heap[Task!CriticId(n)].history = heap[<<"actor", n>>].history
    /\ \A n \in Task!CriticNames : /\ heap[Task!CriticId(n)].delay = 0
                                   /\ Task!Balance => heap[Task!CriticId(n)].biased = FALSE
    /\ ~Task!Balance \/ options.stage = 0 => \A id \in DOMAIN heap : heap[id].delay = 0

\* Which groups are still complete, and whose objects are delayed.
DelaysAre ==
  /\ Task!Balance /\ tPc \in {"managers", "variant", "play", "built", "actor-delay", "all"} =>
       /\ "base_ang_vel" \in DOMAIN groups["actor"]
       /\ heap[<<"actor", "base_ang_vel">>].delay = options.stage
  /\ tPc \in Task!Profiles \ {"actor-delay", "all"} =>
       \A n \in DOMAIN groups["actor"] : heap[groups["actor"][n]].delay = 0

\* The identities of the objects: the critic's are its own but in the task without a policy.
LEMMA Identities ==
  ASSUME NEW n
  PROVE  /\ n \in Task!ActorNames => <<"actor", n>> \in DOMAIN Task!Observations
         /\ n \in Task!CriticNames => Task!CriticId(n) \in DOMAIN Task!Observations
         /\ Task!Balance => Task!CriticId(n) = <<"critic", n>>
         /\ \A m : <<"critic", n>> # <<"actor", m>>
BY DEF Task!Observations, Task!CriticId, Task!CopyId, Task!Balance

LEMMA ObservationsAre ==
  /\ \A id \in DOMAIN Task!Observations : Task!Observations[id] \in Objects /\ Task!Observations[id].delay = 0
  /\ \A n \in Task!CriticNames : Task!Balance => Task!Observations[Task!CriticId(n)].biased = FALSE
  /\ \A n \in Task!ActorNames :
       Task!Observations[Task!CriticId(n)].history = Task!Observations[<<"actor", n>>].history
<1>1. ASSUME NEW n \in Task!ActorNames
      PROVE  /\ <<"actor", n>> \in DOMAIN Task!Observations
             /\ Task!Observations[<<"actor", n>>] = Task!Terms[n]
  BY DEF Task!Observations
<1>2. ASSUME NEW n \in Task!CriticNames, Task!CriticId(n) = <<"critic", n>>
      PROVE  Task!Observations[Task!CriticId(n)] = Task!CriticTerm(n)
  <2>1. Task!CriticId(n) \in DOMAIN Task!Observations
    BY DEF Task!Observations
  <2>2. <<"critic", n>>[1] # "actor" /\ <<"critic", n>>[2] = n
    OBVIOUS
  <2> QED BY <1>2, <2>1, <2>2 DEF Task!Observations
<1>3. \A n \in Task!ActorNames : n \in DOMAIN Task!Terms /\ n \in Task!CriticNames
  BY TermsAre
<1>4. ASSUME NEW n \in Task!CriticNames, Task!CriticId(n) # <<"critic", n>>
      PROVE  n \in Task!ActorNames /\ Task!CriticId(n) = <<"actor", n>> /\ ~Task!Balance
  <2>1. options.task = "zero"
    BY <1>4 DEF Task!CriticId, Task!CopyId
  <2>2. ~Task!Balance
    BY <2>1 DEF Task!Balance
  <2> QED BY <2>1, <2>2, TermsAre DEF Task!CriticId, Task!CopyId
<1>5. ASSUME NEW id \in DOMAIN Task!Observations
      PROVE  Task!Observations[id] \in Objects /\ Task!Observations[id].delay = 0
  <2>1. \/ \E n \in Task!ActorNames : id = <<"actor", n>>
        \/ \E n \in Task!CriticNames : id = Task!CriticId(n)
    BY DEF Task!Observations
  <2>2. ASSUME NEW n \in Task!ActorNames, id = <<"actor", n>>
        PROVE  Task!Observations[id] \in Objects /\ Task!Observations[id].delay = 0
    BY <1>1, <1>3, <2>2, TermsAre
  <2>3. ASSUME NEW n \in Task!CriticNames, id = Task!CriticId(n)
        PROVE  Task!Observations[id] \in Objects /\ Task!Observations[id].delay = 0
    <3>1. CASE Task!CriticId(n) = <<"critic", n>>
      BY <1>2, <2>3, <3>1, CriticTermsAre
    <3>2. CASE Task!CriticId(n) # <<"critic", n>>
      BY <1>4, <2>2, <2>3, <3>2
    <3> QED BY <3>1, <3>2
  <2> QED BY <2>1, <2>2, <2>3
<1>6. ASSUME NEW n \in Task!CriticNames, Task!Balance
      PROVE  Task!Observations[Task!CriticId(n)].biased = FALSE
  BY <1>2, <1>4, <1>6, CriticTermsAre
<1>7. ASSUME NEW n \in Task!ActorNames
      PROVE  Task!Observations[Task!CriticId(n)].history = Task!Observations[<<"actor", n>>].history
  <2>1. CASE Task!CriticId(n) = <<"critic", n>>
    BY <1>1, <1>2, <1>3, <2>1, CriticTermsAre
  <2>2. CASE Task!CriticId(n) # <<"critic", n>>
    BY <1>3, <1>4, <2>2
  <2> QED BY <2>1, <2>2
<1> QED BY <1>5, <1>6, <1>7

-----------------------------------------------------------------------------
(* The steps that build and edit a configuration. *)

LEMMA OptionsStay ==
  ASSUME options' = options
  PROVE  /\ Task!Balance' = Task!Balance /\ Task!Mpc' = Task!Mpc
         /\ Task!ActorNames' = Task!ActorNames /\ Task!CriticNames' = Task!CriticNames
         /\ Task!Observations' = Task!Observations /\ Task!RewardNames' = Task!RewardNames
         /\ \A n : Task!CriticId(n)' = Task!CriticId(n)
<1>1. Task!Balance' = Task!Balance /\ Task!Mpc' = Task!Mpc
  BY DEF Task!Balance, Task!Mpc
<1>2. Task!Terms' = Task!Terms /\ Task!Privileged' = Task!Privileged
  BY <1>1 DEF Task!Terms, Task!SharedTerms, Task!Term, Task!Privileged
<1>3. \A n : Task!CriticId(n)' = Task!CriticId(n) /\ Task!CriticTerm(n)' = Task!CriticTerm(n)
  BY <1>1, <1>2 DEF Task!CriticId, Task!CopyId, Task!CriticTerm, Task!Term
<1>4. Task!ActorNames' = Task!ActorNames /\ Task!CriticNames' = Task!CriticNames
  BY <1>2 DEF Task!ActorNames, Task!CriticNames
<1>5. Task!Observations' = Task!Observations
  BY <1>2, <1>3, <1>4 DEF Task!Observations
<1>6. Task!RewardNames' = Task!RewardNames
  BY <1>1 DEF Task!RewardNames, Task!BalanceRewards, Task!MpcRewards
<1> QED BY <1>1, <1>3, <1>4, <1>5, <1>6

LEMMA ObjectsAreBuilt ==
  ASSUME options \in Task!Options, Task!BuildObservations
  PROVE  ObjectsAre' /\ DelaysAre'
<1> DEFINE delayed(id) == Task!Balance /\ \E n \in Task!ActorNames : <<"actor", n>> = id
<1>1. /\ options' = options /\ tPc' = "managers"
      /\ groups' = [actor |-> [n \in Task!ActorNames |-> <<"actor", n>>],
                    critic |-> [n \in Task!CriticNames |-> Task!CriticId(n)]]
      /\ corruption' = [actor |-> Task!Balance, critic |-> FALSE]
  BY DEF Task!BuildObservations
<1>2. \A n \in Task!ActorNames : groups'.actor[n] = <<"actor", n>>
  BY <1>1
<1>3. heap' = [id \in DOMAIN Task!Observations |->
                 IF Task!Balance /\ \E n \in Task!ActorNames : groups'.actor[n] = id
                 THEN [Task!Observations[id] EXCEPT !.delay = options.stage]
                 ELSE Task!Observations[id]]
  BY DEF Task!BuildObservations
<1>4. heap' = [id \in DOMAIN Task!Observations |->
                 IF delayed(id) THEN [Task!Observations[id] EXCEPT !.delay = options.stage]
                 ELSE Task!Observations[id]]
  BY <1>2, <1>3
<1>5. options.stage \in 0..1
  BY OptionsAre
<1>6. ASSUME NEW id \in DOMAIN Task!Observations
      PROVE  /\ heap'[id] \in Objects /\ heap'[id].history = Task!Observations[id].history
             /\ heap'[id].biased = Task!Observations[id].biased
             /\ heap'[id].delay = IF delayed(id) THEN options.stage ELSE 0
  <2>1. Task!Observations[id] \in Objects /\ Task!Observations[id].delay = 0
    BY ObservationsAre
  <2>2. heap'[id] = IF delayed(id) THEN [Task!Observations[id] EXCEPT !.delay = options.stage]
                    ELSE Task!Observations[id]
    BY <1>4
  <2> HIDE DEF delayed
  <2> QED BY <1>5, <2>1, <2>2 DEF Objects
<1>7. \A n : Task!Balance => ~delayed(Task!CriticId(n))
  BY Identities
<1>8. ASSUME NEW n \in Task!CriticNames
      PROVE  /\ heap'[Task!CriticId(n)].delay = 0
             /\ Task!Balance => heap'[Task!CriticId(n)].biased = FALSE
  <2>1. Task!CriticId(n) \in DOMAIN Task!Observations
    BY Identities
  <2>2. ~delayed(Task!CriticId(n))
    BY <1>7
  <2> HIDE DEF delayed
  <2> QED BY <1>6, <2>1, <2>2, ObservationsAre
<1>9. ASSUME NEW n \in Task!ActorNames
      PROVE  /\ heap'[Task!CriticId(n)].history = heap'[<<"actor", n>>].history
             /\ Task!Balance => heap'[<<"actor", n>>].delay = options.stage
  <2>1. n \in Task!CriticNames
    BY TermsAre
  <2>2. /\ Task!CriticId(n) \in DOMAIN Task!Observations
        /\ <<"actor", n>> \in DOMAIN Task!Observations
    BY <2>1, Identities
  <2>3. Task!Balance => delayed(<<"actor", n>>)
    OBVIOUS
  <2> HIDE DEF delayed
  <2> QED BY <1>6, <2>2, <2>3, ObservationsAre
<1>10. ~Task!Balance \/ options.stage = 0 => \A id \in DOMAIN Task!Observations : heap'[id].delay = 0
  BY <1>6
<1>11. "base_ang_vel" \in Task!ActorNames /\ Task!ActorNames \subseteq Task!CriticNames
  BY TermsAre DEF ObservedNames
<1>12. DOMAIN heap' = DOMAIN Task!Observations
  BY <1>4
<1>13. /\ DOMAIN groups' = {"actor", "critic"} /\ DOMAIN corruption' = {"actor", "critic"}
       /\ corruption'["critic"] = FALSE
       /\ groups'["actor"] = [n \in Task!ActorNames |-> <<"actor", n>>]
       /\ groups'["critic"] = [n \in Task!CriticNames |-> Task!CriticId(n)]
  BY <1>1
<1> HIDE DEF delayed
<1>14. ObjectsAre'
  <2>1. /\ Task!ActorNames' = Task!ActorNames /\ Task!CriticNames' = Task!CriticNames
        /\ Task!Observations' = Task!Observations /\ Task!Balance' = Task!Balance
        /\ \A n : Task!CriticId(n)' = Task!CriticId(n)
    BY <1>1, OptionsStay
  <2>2. \A id \in DOMAIN heap' : heap'[id] \in Objects
    BY <1>6, <1>12
  <2>3. \A n \in Task!ActorNames' : heap'[Task!CriticId(n)'].history = heap'[<<"actor", n>>].history
    BY <1>9, <2>1
  <2>4. \A n \in Task!CriticNames' : /\ heap'[Task!CriticId(n)'].delay = 0
                                     /\ Task!Balance' => heap'[Task!CriticId(n)'].biased = FALSE
    BY <1>8, <2>1
  <2>5. /\ DOMAIN groups'["actor"] = Task!ActorNames' /\ DOMAIN groups'["critic"] = Task!CriticNames'
        /\ \A n \in DOMAIN groups'["actor"] : groups'["actor"][n] = <<"actor", n>>
        /\ \A n \in DOMAIN groups'["critic"] : groups'["critic"][n] = Task!CriticId(n)'
    BY <1>13, <2>1
  <2>6. ~Task!Balance' \/ options'.stage = 0 => \A id \in DOMAIN heap' : heap'[id].delay = 0
    BY <1>1, <1>10, <1>12, <2>1
  <2>7. DOMAIN heap' = DOMAIN Task!Observations' /\ Task!ActorNames' \subseteq Task!CriticNames'
    BY <1>11, <1>12, <2>1
  <2> QED BY <1>13, <2>2, <2>3, <2>4, <2>5, <2>6, <2>7 DEF ObjectsAre
<1>15. DelaysAre'
  BY <1>1, <1>9, <1>11, <1>13, OptionsStay DEF DelaysAre, Task!Profiles, Task!EventComponents
<1> QED BY <1>14, <1>15

LEMMA ObjectsStay ==
  ASSUME ObjectsAre, DelaysAre, UNCHANGED <<groups, heap, corruption, options>>,
         \/ tPc = "managers" /\ tPc' = "variant"
         \/ tPc = "variant" /\ tPc' = "play"
  PROVE  ObjectsAre' /\ DelaysAre'
BY OptionsStay DEF ObjectsAre, DelaysAre, Task!Profiles, Task!EventComponents

LEMMA ObjectsArePlayed ==
  ASSUME ObjectsAre, DelaysAre, Task!Play
  PROVE  ObjectsAre' /\ DelaysAre'
<1>1. /\ tPc = "play" /\ tPc' = "built" /\ UNCHANGED <<groups, heap, options>>
      /\ corruption' = IF options.play THEN [corruption EXCEPT !.actor = FALSE] ELSE corruption
  BY DEF Task!Play
<1>2. corruption'["critic"] = FALSE /\ DOMAIN corruption' = {"actor", "critic"}
  BY <1>1 DEF ObjectsAre
<1> QED BY <1>1, <1>2, OptionsStay
        DEF ObjectsAre, DelaysAre, Task!Profiles, Task!EventComponents

\* Dropping the same terms of both groups keeps every term of the actor in the critic's.
LEMMA ObjectsAreDropped ==
  ASSUME ObjectsAre, tPc = "built", UNCHANGED <<heap, options>>, tPc' \in {"nominal", "compared", "audited"},
         NEW dropped, groups' = [g \in DOMAIN groups |-> Task!Without(groups[g], dropped)],
         \/ corruption' = corruption
         \/ corruption' = [g \in DOMAIN corruption |-> FALSE]
  PROVE  ObjectsAre' /\ DelaysAre'
<1>1. /\ DOMAIN groups = {"actor", "critic"} /\ corruption["critic"] = FALSE
      /\ DOMAIN corruption = {"actor", "critic"}
      /\ DOMAIN groups["actor"] \subseteq DOMAIN groups["critic"]
      /\ DOMAIN groups["actor"] \subseteq Task!ActorNames
      /\ DOMAIN groups["critic"] \subseteq Task!CriticNames
      /\ \A n \in DOMAIN groups["actor"] : groups["actor"][n] = <<"actor", n>>
      /\ \A n \in DOMAIN groups["critic"] : groups["critic"][n] = Task!CriticId(n)
  BY DEF ObjectsAre
<1>2. /\ DOMAIN groups' = {"actor", "critic"}
      /\ groups'["actor"] = Task!Without(groups["actor"], dropped)
      /\ groups'["critic"] = Task!Without(groups["critic"], dropped)
  BY <1>1
<1>3. /\ DOMAIN groups'["actor"] = DOMAIN groups["actor"] \ dropped
      /\ DOMAIN groups'["critic"] = DOMAIN groups["critic"] \ dropped
      /\ \A n \in DOMAIN groups'["actor"] : groups'["actor"][n] = <<"actor", n>>
      /\ \A n \in DOMAIN groups'["critic"] : groups'["critic"][n] = Task!CriticId(n)
  BY <1>1, <1>2 DEF Task!Without
<1>4. corruption'["critic"] = FALSE /\ DOMAIN corruption' = {"actor", "critic"}
  BY <1>1
<1>5. ObjectsAre'
  BY <1>1, <1>2, <1>3, <1>4, OptionsStay DEF ObjectsAre
<1> QED BY <1>5 DEF DelaysAre, Task!Profiles, Task!EventComponents

LEMMA ObjectsAreSelected ==
  ASSUME options \in Task!Options, ObjectsAre, DelaysAre,
         NEW profile \in Task!Profiles, Task!SelectComponents(profile)
  PROVE  ObjectsAre' /\ DelaysAre'
<1> DEFINE kept == profile \in {"actor-delay", "all"}
           cleared(id) == ~kept /\ \E n \in DOMAIN groups["actor"] : groups["actor"][n] = id
<1>1. /\ tPc = "built" /\ options.task = "balance" /\ tPc' = profile /\ options.stage = 1
      /\ UNCHANGED <<options, groups, corruption>>
  BY DEF Task!SelectComponents
<1>2. heap' = IF kept THEN heap
              ELSE [id \in DOMAIN heap |->
                      IF \E n \in DOMAIN groups["actor"] : groups["actor"][n] = id
                      THEN [heap[id] EXCEPT !.delay = 0] ELSE heap[id]]
  BY DEF Task!SelectComponents
<1>3. /\ DOMAIN heap = DOMAIN Task!Observations
      /\ \A id \in DOMAIN heap : heap[id] \in Objects
      /\ \A n \in DOMAIN groups["actor"] : groups["actor"][n] = <<"actor", n>> /\ n \in Task!ActorNames
  BY <1>1 DEF ObjectsAre
<1>4. DOMAIN heap' = DOMAIN heap
  BY <1>2
<1>5. ASSUME NEW id \in DOMAIN heap
      PROVE  /\ heap'[id] \in Objects /\ heap'[id].history = heap[id].history
             /\ heap'[id].biased = heap[id].biased
             /\ heap'[id].delay = IF cleared(id) THEN 0 ELSE heap[id].delay
  <2>1. heap'[id] = IF cleared(id) THEN [heap[id] EXCEPT !.delay = 0] ELSE heap[id]
    BY <1>2
  <2>2. heap[id] \in Objects
    BY <1>3
  <2> HIDE DEF cleared
  <2> QED BY <2>1, <2>2 DEF Objects
<1>6. ASSUME NEW n \in Task!CriticNames
      PROVE  /\ heap'[Task!CriticId(n)].delay = 0
             /\ Task!Balance => heap'[Task!CriticId(n)].biased = FALSE
  <2>1. /\ Task!CriticId(n) \in DOMAIN heap /\ heap[Task!CriticId(n)].delay = 0
        /\ Task!Balance => heap[Task!CriticId(n)].biased = FALSE
    BY <1>1, <1>3, Identities DEF ObjectsAre
  <2> QED BY <1>5, <2>1
<1>7. ASSUME NEW n \in Task!ActorNames
      PROVE  heap'[Task!CriticId(n)].history = heap'[<<"actor", n>>].history
  <2>1. n \in Task!CriticNames
    BY TermsAre
  <2>2. Task!CriticId(n) \in DOMAIN heap /\ <<"actor", n>> \in DOMAIN heap
    BY <1>3, <2>1, Identities
  <2>3. heap[Task!CriticId(n)].history = heap[<<"actor", n>>].history
    BY <1>1 DEF ObjectsAre
  <2> QED BY <1>5, <2>2, <2>3
<1>8. Task!Balance
  BY <1>1 DEF Task!Balance
<1>9. tPc' \notin {"actions", "observations"}
  BY <1>1 DEF Task!Profiles, Task!EventComponents
<1>10. ObjectsAre'
  <2>1. /\ Task!ActorNames' = Task!ActorNames /\ Task!CriticNames' = Task!CriticNames
        /\ Task!Observations' = Task!Observations /\ Task!Balance' = Task!Balance
        /\ \A n : Task!CriticId(n)' = Task!CriticId(n)
    BY <1>1, OptionsStay
  <2>2. \A id \in DOMAIN heap' : heap'[id] \in Objects
    BY <1>4, <1>5
  <2>3. \A n \in Task!ActorNames' : heap'[Task!CriticId(n)'].history = heap'[<<"actor", n>>].history
    BY <1>7, <2>1
  <2>4. \A n \in Task!CriticNames' : /\ heap'[Task!CriticId(n)'].delay = 0
                                     /\ Task!Balance' => heap'[Task!CriticId(n)'].biased = FALSE
    BY <1>6, <2>1
  <2>5. ~(~Task!Balance' \/ options'.stage = 0)
    BY <1>1, <1>8, <2>1
  <2>6. DOMAIN heap' = DOMAIN Task!Observations'
    BY <1>3, <1>4, <2>1
  <2>7. /\ DOMAIN groups' = {"actor", "critic"} /\ corruption'["critic"] = FALSE
        /\ DOMAIN corruption' = {"actor", "critic"}
        /\ DOMAIN groups'["actor"] \subseteq DOMAIN groups'["critic"]
        /\ DOMAIN groups'["actor"] \subseteq Task!ActorNames'
        /\ DOMAIN groups'["critic"] \subseteq Task!CriticNames'
        /\ \A n \in DOMAIN groups'["actor"] : groups'["actor"][n] = <<"actor", n>>
        /\ \A n \in DOMAIN groups'["critic"] : groups'["critic"][n] = Task!CriticId(n)'
    BY <1>1, <2>1 DEF ObjectsAre
  <2> QED BY <2>2, <2>3, <2>4, <2>5, <2>6, <2>7 DEF ObjectsAre
<1>11. kept => heap' = heap
  BY <1>2
<1>12. ~kept => \A n \in DOMAIN groups["actor"] : heap'[groups["actor"][n]].delay = 0
  <2> SUFFICES ASSUME ~kept, NEW n \in DOMAIN groups["actor"]
               PROVE  heap'[groups["actor"][n]].delay = 0
    OBVIOUS
  <2>1. groups["actor"][n] \in DOMAIN heap
    BY <1>3, Identities
  <2> QED BY <1>5, <2>1
<1>13. DelaysAre'
  BY <1>1, <1>8, <1>11, <1>12, OptionsStay
     DEF DelaysAre, Task!Profiles, Task!EventComponents
<1> QED BY <1>10, <1>13

-----------------------------------------------------------------------------
(* The events, rewards and curricula, which name each other. *)

\* The push as the variants of the balance task leave it.
VariedPush ==
  IF options.task = "matched"
  THEN [Task!Push EXCEPT !.class = "stratified", !.stages = 1,
                         !.weights = <<Task!Mixture(Task!Stages - 1)>>]
  ELSE IF options.task = "achievement"
  THEN [Task!Push EXCEPT !.class = "achievement", !.stages = Task!Stages,
                         !.initial = IF options.play THEN Task!Stages - 1 ELSE 0,
                         !.weights = [s \in 1..Task!Stages |->
                                        IF options.play THEN Task!OnlyHardest
                                        ELSE Task!Mixture(s - 1)]]
  ELSE Task!Push

BuiltCurriculum ==
  IF Task!Balance THEN [n \in {"torque_margin_weight"} |-> "reward_curriculum"]
  ELSE IF Task!Mpc /\ options.disturbance = "curriculum"
       THEN [n \in {"kick_difficulty"} |-> "survival_kick_curriculum"] ELSE Task!Empty

VariedCurriculum ==
  IF options.task = "achievement"
  THEN [n \in {"achievement_stage"} |-> "achievement_curriculum_state"] ELSE BuiltCurriculum

Early == {"actions", "observations", "managers"}

EventsAre ==
  tPc \notin Early =>
    /\ rewards = Task!RewardNames
    /\ curriculum = IF tPc = "variant" THEN BuiltCurriculum ELSE VariedCurriculum
    /\ Task!Balance => /\ "push_robot" \in DOMAIN events
                       /\ events["push_robot"] = IF tPc = "variant" THEN Task!Push ELSE VariedPush
    /\ ~Task!Balance => "push_robot" \notin DOMAIN events
    /\ Task!Mpc /\ options.disturbance # "none" =>
         "initial_base_velocity" \in DOMAIN events /\ events["initial_base_velocity"] = Task!Kick
    /\ "randomize_strength" \in DOMAIN events => Task!Balance /\ options.stage = 1

\* Which of the randomizations are left.
RandomizationsAre ==
  /\ tPc \in {"variant", "play", "built"} /\ Task!Balance /\ options.stage = 1 =>
       Task!EventComponents \subseteq DOMAIN events
  /\ tPc \in Task!Profiles \ {"all"} => DOMAIN events \cap Task!EventComponents = {tPc} \cap Task!EventComponents
  /\ tPc = "nominal" => DOMAIN events \cap Task!Randomizations = {}

LagsAre ==
  /\ tPc # "actions" => commands = IF Task!Mpc THEN {"twist"} ELSE {}
  /\ lag \in {0, 2 * options.stage}
  /\ tPc \in {"observations", "managers", "variant", "play", "built", "actuator-delay"} => lag = 2 * options.stage
  /\ tPc \in (Task!Profiles \ {"actuator-delay", "all"}) \cup {"nominal"} => lag = 0
  /\ tPc \in Task!Profiles => options.task = "balance" /\ options.stage = 1
  /\ tPc = "nominal" => ~Task!Balance \/ options.stage = 0

LEMMA EventsStay ==
  ASSUME options' = options
  PROVE  /\ Task!Push' = Task!Push /\ Task!Kick' = Task!Kick /\ VariedPush' = VariedPush
         /\ BuiltCurriculum' = BuiltCurriculum /\ VariedCurriculum' = VariedCurriculum
<1>1. Task!Push' = Task!Push
  BY DEF Task!Push
<1>2. Task!Kick' = Task!Kick
  BY <1>1 DEF Task!Kick
<1>3. VariedPush' = VariedPush
  BY <1>1 DEF VariedPush
<1>4. BuiltCurriculum' = BuiltCurriculum
  BY OptionsStay DEF BuiltCurriculum
<1>5. VariedCurriculum' = VariedCurriculum
  BY <1>4 DEF VariedCurriculum
<1> QED BY <1>1, <1>2, <1>3, <1>4, <1>5

LEMMA EventsAreBuilt ==
  ASSUME options \in Task!Options, Task!BuildManagers
  PROVE  EventsAre' /\ RandomizationsAre'
<1>1. /\ options' = options /\ tPc' = "variant" /\ events' = Task!Events
      /\ rewards' = Task!RewardNames /\ curriculum' = BuiltCurriculum
  BY DEF Task!BuildManagers, Task!KickCurriculum, BuiltCurriculum
<1>2. /\ options.task = "zero" => ~Task!Balance /\ ~Task!Mpc
      /\ ~(Task!Balance /\ Task!Mpc)
  BY DEF Task!Balance, Task!Mpc
<1>3. \A n : n \in DOMAIN Task!Events <=>
        \/ options.task # "zero" /\ n \in {"reset_scene_to_default", "encoder_bias"}
        \/ Task!Balance /\ n \in {"reset_base", "push_robot"}
        \/ Task!Balance /\ options.stage = 1 /\ n \in Task!EventComponents
        \/ Task!Mpc /\ options.stage = 1 /\ n \in {"randomize_friction", "randomize_pd_gains",
                                                 "randomize_effort", "refresh_action_scaling"}
        \/ Task!Mpc /\ options.disturbance # "none" /\ n \in {"initial_base_velocity"}
  <2>1. options.task = "zero" \/ Task!Balance \/ Task!Mpc
    BY DEF Task!Balance, Task!Mpc, Task!Options
  <2> QED BY <1>2, <2>1 DEF Task!Events, Task!BalanceEvents, Task!MpcEvents
<1>4. /\ "push_robot" \in DOMAIN Task!Events => Task!Events["push_robot"] = Task!Push
      /\ "initial_base_velocity" \in DOMAIN Task!Events =>
           Task!Events["initial_base_velocity"] = Task!Kick
  BY DEF Task!Events
<1>5. Task!Balance => "push_robot" \in DOMAIN Task!Events
  BY <1>3
<1>6. ~Task!Balance => "push_robot" \notin DOMAIN Task!Events
  BY <1>3 DEF Task!EventComponents
<1>7. Task!Mpc /\ options.disturbance # "none" => "initial_base_velocity" \in DOMAIN Task!Events
  BY <1>3
<1>8. "randomize_strength" \in DOMAIN Task!Events => Task!Balance /\ options.stage = 1
  BY <1>3 DEF Task!EventComponents
<1>9. Task!Balance /\ options.stage = 1 => Task!EventComponents \subseteq DOMAIN Task!Events
  BY <1>3
<1>10. EventsAre'
  BY <1>1, <1>4, <1>5, <1>6, <1>7, <1>8, OptionsStay, EventsStay DEF EventsAre, Early
<1>11. RandomizationsAre'
  BY <1>1, <1>9, OptionsStay DEF RandomizationsAre, Task!Profiles, Task!EventComponents
<1> QED BY <1>10, <1>11

LEMMA EventsAreVaried ==
  ASSUME options \in Task!Options, EventsAre, RandomizationsAre, Task!Vary
  PROVE  EventsAre' /\ RandomizationsAre'
<1>1. /\ tPc = "variant" /\ tPc' = "play" /\ options' = options /\ rewards' = rewards
      /\ curriculum' = IF options.task = "achievement"
                       THEN [n \in {"achievement_stage"} |-> "achievement_curriculum_state"]
                       ELSE curriculum
  BY DEF Task!Vary
<1>2. /\ rewards = Task!RewardNames /\ curriculum = BuiltCurriculum
      /\ Task!Balance => "push_robot" \in DOMAIN events /\ events["push_robot"] = Task!Push
      /\ ~Task!Balance => "push_robot" \notin DOMAIN events
      /\ Task!Mpc /\ options.disturbance # "none" =>
           "initial_base_velocity" \in DOMAIN events /\ events["initial_base_velocity"] = Task!Kick
      /\ "randomize_strength" \in DOMAIN events => Task!Balance /\ options.stage = 1
  BY <1>1 DEF EventsAre, Early
<1>3. /\ DOMAIN events' = DOMAIN events
      /\ Task!Balance => events'["push_robot"] = VariedPush
      /\ \A n \in DOMAIN events : n # "push_robot" => events'[n] = events[n]
  <2>1. CASE options.task = "matched"
    <3>1. Task!Balance
      BY <2>1 DEF Task!Balance
    <3>2. events' = [events EXCEPT !["push_robot"] =
                       [@ EXCEPT !.class = "stratified", !.stages = 1,
                                 !.weights = <<Task!Mixture(Task!Stages - 1)>>]]
      BY <2>1 DEF Task!Vary
    <3> QED BY <1>2, <2>1, <3>1, <3>2 DEF VariedPush
  <2>2. CASE options.task = "achievement"
    <3>1. Task!Balance
      BY <2>2 DEF Task!Balance
    <3>2. events' = [events EXCEPT !["push_robot"] =
                       [@ EXCEPT !.class = "achievement", !.stages = Task!Stages,
                                 !.initial = IF options.play THEN Task!Stages - 1 ELSE 0,
                                 !.weights = [s \in 1..Task!Stages |->
                                                IF options.play THEN Task!OnlyHardest
                                                ELSE Task!Mixture(s - 1)]]]
      BY <2>2 DEF Task!Vary
    <3> QED BY <1>2, <2>2, <3>1, <3>2 DEF VariedPush
  <2>3. CASE options.task \notin {"matched", "achievement"}
    <3>1. events' = events
      BY <2>3 DEF Task!Vary
    <3> QED BY <1>2, <2>3, <3>1 DEF VariedPush
  <2> QED BY <2>1, <2>2, <2>3
<1>4. curriculum' = VariedCurriculum
  BY <1>1, <1>2 DEF VariedCurriculum
<1>5. EventsAre'
  BY <1>1, <1>2, <1>3, <1>4, OptionsStay, EventsStay DEF EventsAre, Early
<1>6. RandomizationsAre'
  BY <1>1, <1>3, OptionsStay DEF RandomizationsAre, Task!Profiles, Task!EventComponents
<1> QED BY <1>5, <1>6

\* Later edits drop randomizations and nothing that is named.
LEMMA EventsAreDropped ==
  ASSUME EventsAre, tPc \in {"play", "built"}, UNCHANGED <<options, rewards, curriculum>>,
         NEW dropped, events' = events \/ events' = Task!Without(events, dropped),
         dropped \cap {"push_robot", "initial_base_velocity"} = {},
         tPc' \notin Early \cup {"variant"}
  PROVE  EventsAre'
<1>1. /\ rewards = Task!RewardNames /\ curriculum = VariedCurriculum
      /\ Task!Balance => "push_robot" \in DOMAIN events /\ events["push_robot"] = VariedPush
      /\ ~Task!Balance => "push_robot" \notin DOMAIN events
      /\ Task!Mpc /\ options.disturbance # "none" =>
           "initial_base_velocity" \in DOMAIN events /\ events["initial_base_velocity"] = Task!Kick
      /\ "randomize_strength" \in DOMAIN events => Task!Balance /\ options.stage = 1
  BY DEF EventsAre, Early
<1>2. /\ DOMAIN events' \subseteq DOMAIN events
      /\ \A n \in DOMAIN events : n \notin dropped => n \in DOMAIN events' /\ events'[n] = events[n]
  BY DEF Task!Without
<1>3. /\ Task!Balance => "push_robot" \in DOMAIN events' /\ events'["push_robot"] = VariedPush
      /\ ~Task!Balance => "push_robot" \notin DOMAIN events'
      /\ Task!Mpc /\ options.disturbance # "none" =>
           "initial_base_velocity" \in DOMAIN events' /\ events'["initial_base_velocity"] = Task!Kick
      /\ "randomize_strength" \in DOMAIN events' => Task!Balance /\ options.stage = 1
  BY <1>1, <1>2
<1> QED BY <1>1, <1>3, OptionsStay, EventsStay DEF EventsAre

\* What is named is configured.
LEMMA EventsResolve ==
  ASSUME options \in Task!Options, EventsAre, LagsAre
  PROVE  Task!ReferencesResolve
<1> SUFFICES ASSUME Task!Built PROVE Task!ReferencesResolve
  BY DEF Task!ReferencesResolve
<1>1. tPc \notin Early \cup {"variant", "play"}
  BY DEF Task!Built, Early
<1>2. /\ rewards = Task!RewardNames /\ curriculum = VariedCurriculum
      /\ Task!Balance => "push_robot" \in DOMAIN events /\ events["push_robot"] = VariedPush
      /\ ~Task!Balance => "push_robot" \notin DOMAIN events
      /\ Task!Mpc /\ options.disturbance # "none" =>
           "initial_base_velocity" \in DOMAIN events /\ events["initial_base_velocity"] = Task!Kick
      /\ commands = IF Task!Mpc THEN {"twist"} ELSE {}
  BY <1>1 DEF EventsAre, LagsAre, Early
<1>3. /\ Task!Push.class \in {"push_and_record", "finite"} /\ Task!Kick.class = "initial_velocity_kick"
      /\ DOMAIN Task!Push = {"class", "stages", "weights", "initial", "enabled"}
  BY DEF Task!Push, Task!Kick
<1>4. /\ options.task = "matched" => /\ VariedPush.class = "stratified" /\ VariedPush.stages = 1
                                    /\ VariedPush.weights = <<Task!Mixture(Task!Stages - 1)>>
      /\ options.task = "achievement" =>
           /\ VariedPush.class = "achievement" /\ VariedPush.stages = 3
           /\ VariedPush.initial = IF options.play THEN 2 ELSE 0
           /\ VariedPush.weights = [s \in 1..3 |-> IF options.play THEN Task!OnlyHardest
                                                   ELSE Task!Mixture(s - 1)]
      /\ options.task \notin {"matched", "achievement"} =>
           VariedPush.class \in {"push_and_record", "finite"}
  BY <1>3 DEF VariedPush, Task!Push, Task!Stages
<1>5. "recovery_dcm" \in rewards => "push_robot" \in DOMAIN events /\ events["push_robot"].class # "plain"
  <2>1. "recovery_dcm" \in Task!RewardNames => Task!Balance
    BY DEF Task!RewardNames, Task!BalanceRewards, Task!MpcRewards
  <2>2. VariedPush.class # "plain"
    BY <1>4
  <2> QED BY <1>2, <2>1, <2>2
<1>6. "linear_tracking" \in rewards => "twist" \in commands
  BY <1>2 DEF Task!RewardNames, Task!BalanceRewards, Task!MpcRewards
<1>7. ASSUME NEW n \in DOMAIN curriculum
      PROVE  CASE curriculum[n] = "reward_curriculum" -> "torque_margin" \in rewards
               [] curriculum[n] = "achievement_curriculum_state" -> events["push_robot"].class = "achievement"
               [] curriculum[n] = "survival_kick_curriculum" -> events["initial_base_velocity"].class = "initial_velocity_kick"
  <2>1. CASE options.task = "achievement"
    <3>1. Task!Balance /\ curriculum[n] = "achievement_curriculum_state"
      BY <1>2, <1>7, <2>1 DEF VariedCurriculum, Task!Balance
    <3>2. events["push_robot"].class = "achievement"
      BY <1>2, <1>4, <2>1, <3>1
    <3> QED BY <3>1, <3>2
  <2>2. CASE options.task # "achievement" /\ Task!Balance
    <3>1. curriculum[n] = "reward_curriculum"
      BY <1>2, <1>7, <2>2 DEF VariedCurriculum, BuiltCurriculum
    <3>2. "torque_margin" \in rewards
      BY <1>2, <2>2 DEF Task!RewardNames, Task!BalanceRewards, Task!MpcRewards
    <3> QED BY <3>1, <3>2
  <2>3. CASE options.task # "achievement" /\ ~Task!Balance
    <3>1. curriculum[n] = "survival_kick_curriculum" /\ Task!Mpc /\ options.disturbance = "curriculum"
      BY <1>2, <1>7, <2>3 DEF VariedCurriculum, BuiltCurriculum, Task!Empty
    <3>2. events["initial_base_velocity"].class = "initial_velocity_kick"
      BY <1>2, <1>3, <3>1
    <3> QED BY <3>1, <3>2
  <2> QED BY <2>1, <2>2, <2>3
<1>8. ASSUME NEW push, push = VariedPush
      PROVE  /\ push.class = "stratified" => push.stages = 1 /\ Len(push.weights[1]) = Task!Stages + 1
             /\ push.class = "achievement" =>
                  /\ Len(push.weights) = push.stages /\ push.initial < push.stages
                  /\ \A b \in (push.initial + 3)..(Task!Stages + 1) : ~push.weights[push.initial + 1][b]
  <2>1. CASE options.task = "matched"
    <3>1. push.class = "stratified" /\ push.stages = 1 /\ push.weights[1] = Task!Mixture(2)
      BY <1>4, <1>8, <2>1 DEF Task!Stages
    <3>2. Task!Mixture(2) = [b \in 1..4 |-> b <= 4]
      BY DEF Task!Mixture, Task!Stages
    <3>3. Len(Task!Mixture(2)) = 4
      BY <3>2
    <3> QED BY <3>1, <3>3 DEF Task!Stages
  <2>2. CASE options.task = "achievement"
    <3>1. /\ push.class = "achievement" /\ push.stages = 3
          /\ push.initial = IF options.play THEN 2 ELSE 0
          /\ push.weights = [s \in 1..3 |-> IF options.play THEN Task!OnlyHardest ELSE Task!Mixture(s - 1)]
      BY <1>4, <1>8, <2>2
    <3>2. Len(push.weights) = 3
      BY <3>1
    <3>3. CASE options.play
      BY <3>1, <3>2, <3>3 DEF Task!Stages
    <3>4. CASE ~options.play
      <4>1. push.weights[1] = Task!Mixture(0) /\ push.initial = 0
        BY <3>1, <3>4
      <4>2. \A b \in 3..4 : ~Task!Mixture(0)[b]
        <5> SUFFICES ASSUME NEW b \in 3..4 PROVE ~Task!Mixture(0)[b]
          OBVIOUS
        <5>1. b \in 1..(Task!Stages + 1) /\ ~(b <= 0 + 2)
          BY DEF Task!Stages
        <5>2. Task!Mixture(0)[b] = (b <= 0 + 2)
          BY <5>1, Zenon DEF Task!Mixture
        <5> QED BY <5>1, <5>2, Zenon
      <4> QED BY <3>1, <3>2, <4>1, <4>2 DEF Task!Stages
    <3> QED BY <3>3, <3>4
  <2>3. CASE options.task \notin {"matched", "achievement"}
    BY <1>4, <1>8, <2>3
  <2> QED BY <2>1, <2>2, <2>3
<1>9. "push_robot" \in DOMAIN events => events["push_robot"] = VariedPush
  BY <1>2
<1> HIDE DEF VariedPush
<1> QED BY <1>5, <1>6, <1>7, <1>8, <1>9 DEF Task!ReferencesResolve

-----------------------------------------------------------------------------
(* The configuration as a whole. *)

\* Nothing is observed before the observations are built.
UnbuiltAre == tPc \in {"actions", "observations"} => groups = Task!Empty /\ heap = Task!Empty

TaskInv ==
  /\ options \in Task!Options /\ UnbuiltAre
  /\ ActionsAre /\ ObjectsAre /\ DelaysAre /\ LagsAre /\ EventsAre /\ RandomizationsAre

LEMMA TaskInit == Task!Init => TaskInv
<1> SUFFICES ASSUME Task!Init PROVE TaskInv
  OBVIOUS
<1>1. /\ options \in Task!Options /\ tPc = "actions" /\ lag = 0
      /\ residual = <<>> /\ scales = Task!Empty /\ groups = Task!Empty /\ heap = Task!Empty
  BY DEF Task!Init
<1>2. UnbuiltAre
  BY <1>1 DEF UnbuiltAre
<1>3. ActionsAre
  BY <1>1 DEF ActionsAre, Task!Empty,
              Task!ScalesPartitionTheActuators, Task!AuthorityIsWithinTheHardware
<1>4. ObjectsAre /\ DelaysAre
  BY <1>1 DEF ObjectsAre, DelaysAre, Task!Profiles, Task!EventComponents
<1>5. LagsAre /\ EventsAre /\ RandomizationsAre
  BY <1>1 DEF LagsAre, EventsAre, Early, RandomizationsAre, Task!Profiles, Task!EventComponents
<1> QED BY <1>1, <1>2, <1>3, <1>4, <1>5 DEF TaskInv

\* The residual's authority is decided once.
LEMMA ActionsStay ==
  ASSUME ActionsAre, tPc # "actions" \/ tPc' = tPc, UNCHANGED <<options, scales, residual>>
  PROVE  ActionsAre'
<1>1. Task!Default' = Task!Default
  BY DEF Task!Default
<1>2. Task!ScalesPartitionTheActuators'
  BY DEF ActionsAre, Task!ScalesPartitionTheActuators, Task!Matches
<1>3. Task!AuthorityIsWithinTheHardware'
  BY <1>1 DEF ActionsAre, Task!AuthorityIsWithinTheHardware
<1> QED BY <1>2, <1>3 DEF ActionsAre

LEMMA ActionsStep == ASSUME TaskInv, Task!BuildActions PROVE TaskInv'
<1>1. /\ options \in Task!Options /\ tPc = "actions" /\ tPc' = "observations"
      /\ UNCHANGED <<options, groups, heap, corruption>>
      /\ lag' = 2 * options.stage /\ commands' = IF Task!Mpc THEN {"twist"} ELSE {}
      /\ groups = Task!Empty /\ heap = Task!Empty
  BY DEF TaskInv, UnbuiltAre, Task!BuildActions, Task!MpcCommands
<1>2. ActionsAre'
  BY <1>1, ActionsAreBuilt
<1>3. UnbuiltAre'
  BY <1>1 DEF UnbuiltAre, Task!Empty
<1>4. ObjectsAre' /\ DelaysAre'
  BY <1>1 DEF ObjectsAre, DelaysAre, Task!Profiles, Task!EventComponents
<1>5. LagsAre'
  BY <1>1, OptionsStay DEF LagsAre, Task!Profiles, Task!EventComponents
<1>6. EventsAre' /\ RandomizationsAre'
  BY <1>1 DEF EventsAre, Early, RandomizationsAre, Task!Profiles, Task!EventComponents
<1> QED BY <1>1, <1>2, <1>3, <1>4, <1>5, <1>6 DEF TaskInv

LEMMA ObservationsStep == ASSUME TaskInv, Task!BuildObservations PROVE TaskInv'
<1>1. /\ options \in Task!Options /\ tPc = "observations" /\ tPc' = "managers"
      /\ UNCHANGED <<options, scales, residual, lag, commands>>
  BY DEF TaskInv, Task!BuildObservations
<1>2. ActionsAre'
  BY <1>1, ActionsStay DEF TaskInv
<1>3. UnbuiltAre'
  BY <1>1 DEF UnbuiltAre
<1>4. ObjectsAre' /\ DelaysAre'
  BY <1>1, ObjectsAreBuilt
<1>5. LagsAre'
  BY <1>1, OptionsStay DEF TaskInv, LagsAre, Task!Profiles, Task!EventComponents
<1>6. EventsAre' /\ RandomizationsAre'
  BY <1>1 DEF EventsAre, Early, RandomizationsAre, Task!Profiles, Task!EventComponents
<1> QED BY <1>1, <1>2, <1>3, <1>4, <1>5, <1>6 DEF TaskInv

LEMMA ManagersStep == ASSUME TaskInv, Task!BuildManagers PROVE TaskInv'
<1>1. /\ options \in Task!Options /\ tPc = "managers" /\ tPc' = "variant"
      /\ UNCHANGED <<options, scales, residual, heap, groups, corruption, lag, commands>>
  BY DEF TaskInv, Task!BuildManagers
<1>2. ActionsAre'
  BY <1>1, ActionsStay DEF TaskInv
<1>3. UnbuiltAre'
  BY <1>1 DEF UnbuiltAre
<1>4. ObjectsAre' /\ DelaysAre'
  BY <1>1, ObjectsStay DEF TaskInv
<1>5. LagsAre'
  BY <1>1, OptionsStay DEF TaskInv, LagsAre, Task!Profiles, Task!EventComponents
<1>6. EventsAre' /\ RandomizationsAre'
  BY <1>1, EventsAreBuilt
<1> QED BY <1>1, <1>2, <1>3, <1>4, <1>5, <1>6 DEF TaskInv

LEMMA VaryStep == ASSUME TaskInv, Task!Vary PROVE TaskInv'
<1>1. /\ options \in Task!Options /\ tPc = "variant" /\ tPc' = "play"
      /\ UNCHANGED <<options, scales, residual, heap, groups, corruption, lag, commands>>
  BY DEF TaskInv, Task!Vary
<1>2. ActionsAre'
  BY <1>1, ActionsStay DEF TaskInv
<1>3. UnbuiltAre'
  BY <1>1 DEF UnbuiltAre
<1>4. ObjectsAre' /\ DelaysAre'
  BY <1>1, ObjectsStay DEF TaskInv
<1>5. LagsAre'
  BY <1>1, OptionsStay DEF TaskInv, LagsAre, Task!Profiles, Task!EventComponents
<1>6. EventsAre' /\ RandomizationsAre'
  BY EventsAreVaried DEF TaskInv
<1> QED BY <1>1, <1>2, <1>3, <1>4, <1>5, <1>6 DEF TaskInv

LEMMA PlayStep == ASSUME TaskInv, Task!Play PROVE TaskInv'
<1>1. /\ options \in Task!Options /\ tPc = "play" /\ tPc' = "built"
      /\ UNCHANGED <<options, scales, residual, heap, groups, lag, events, rewards,
                     curriculum, commands>>
  BY DEF TaskInv, Task!Play
<1>2. ActionsAre'
  BY <1>1, ActionsStay DEF TaskInv
<1>3. UnbuiltAre'
  BY <1>1 DEF UnbuiltAre
<1>4. ObjectsAre' /\ DelaysAre'
  BY ObjectsArePlayed DEF TaskInv
<1>5. LagsAre'
  BY <1>1, OptionsStay DEF TaskInv, LagsAre, Task!Profiles, Task!EventComponents
<1>6. EventsAre'
  <2>1. events' = events /\ {} \cap {"push_robot", "initial_base_velocity"} = {}
    BY <1>1
  <2>2. tPc' \notin Early \cup {"variant"}
    BY <1>1 DEF Early
  <2> QED BY <1>1, <2>1, <2>2, EventsAreDropped DEF TaskInv
<1>7. RandomizationsAre'
  BY <1>1, OptionsStay DEF TaskInv, RandomizationsAre, Task!Profiles, Task!EventComponents
<1> QED BY <1>1, <1>2, <1>3, <1>4, <1>5, <1>6, <1>7 DEF TaskInv

\* A nominal comparison is of a task without a strength to randomize.
LEMMA CompareStep ==
  ASSUME TaskInv, NEW nominal \in BOOLEAN, NEW dropped, Task!Compare(nominal, dropped)
  PROVE  TaskInv'
<1> DEFINE randomized == {"randomize_friction", "randomize_pd_gains", "randomize_effort", "encoder_bias"}
<1>1. /\ options \in Task!Options /\ tPc = "built"
      /\ tPc' = IF nominal THEN "nominal" ELSE "compared"
      /\ Task!Balance => options.stage = 0
      /\ groups' = [g \in DOMAIN groups |-> Task!Without(groups[g], dropped)]
      /\ events' = IF nominal THEN Task!Without(events, randomized) ELSE events
      /\ lag' = IF nominal THEN 0 ELSE lag
      /\ UNCHANGED <<options, scales, residual, heap, corruption, rewards, curriculum, commands>>
  BY DEF TaskInv, Task!Compare, Task!NominalEvents
<1>2. ActionsAre'
  BY <1>1, ActionsStay DEF TaskInv
<1>3. UnbuiltAre'
  BY <1>1 DEF UnbuiltAre
<1>4. ObjectsAre' /\ DelaysAre'
  BY <1>1, ObjectsAreDropped DEF TaskInv
<1>5. LagsAre'
  BY <1>1, OptionsStay, OptionsAre DEF TaskInv, LagsAre, Task!Profiles, Task!EventComponents
<1>6. EventsAre'
  <2>1. randomized \cap {"push_robot", "initial_base_velocity"} = {}
    OBVIOUS
  <2>2. tPc' \notin Early \cup {"variant"}
    BY <1>1 DEF Early
  <2>3. events' = events \/ events' = Task!Without(events, randomized)
    BY <1>1
  <2> HIDE DEF randomized
  <2> QED BY <1>1, <2>1, <2>2, <2>3, EventsAreDropped DEF TaskInv
<1>7. RandomizationsAre'
  <2>1. "randomize_strength" \notin DOMAIN events
    BY <1>1, OptionsAre DEF TaskInv, EventsAre, Early
  <2>2. nominal => DOMAIN events' \cap Task!Randomizations = {}
    BY <1>1, <2>1 DEF Task!Randomizations, Task!EventComponents, Task!Without
  <2> QED BY <1>1, <2>2 DEF RandomizationsAre, Task!Profiles, Task!EventComponents
<1> QED BY <1>1, <1>2, <1>3, <1>4, <1>5, <1>6, <1>7 DEF TaskInv

LEMMA SelectStep ==
  ASSUME TaskInv, NEW profile \in Task!Profiles, Task!SelectComponents(profile)
  PROVE  TaskInv'
<1> DEFINE dropped == Task!EventComponents \ {profile}
<1>1. /\ options \in Task!Options /\ tPc = "built" /\ tPc' = profile
      /\ options.task = "balance" /\ options.stage = 1
      /\ events' = IF profile = "all" THEN events ELSE Task!Without(events, dropped)
      /\ lag' = IF profile \in {"actuator-delay", "all"} THEN lag ELSE 0
      /\ UNCHANGED <<options, scales, residual, groups, corruption, rewards, curriculum, commands>>
  BY DEF TaskInv, Task!SelectComponents
<1>2. /\ tPc' \notin {"actions", "observations"} /\ tPc' \notin Early \cup {"variant"}
      /\ tPc' \notin {"variant", "play", "built", "nominal"}
  BY <1>1 DEF Task!Profiles, Task!EventComponents, Early
<1>3. ActionsAre'
  BY <1>1, <1>2, ActionsStay DEF TaskInv
<1>4. UnbuiltAre'
  BY <1>2 DEF UnbuiltAre
<1>5. ObjectsAre' /\ DelaysAre'
  BY <1>1, ObjectsAreSelected DEF TaskInv
<1>6. LagsAre'
  BY <1>1, <1>2, OptionsStay DEF TaskInv, LagsAre, Task!Profiles, Task!EventComponents
<1>7. EventsAre'
  <2>1. dropped \cap {"push_robot", "initial_base_velocity"} = {}
    BY DEF Task!EventComponents
  <2>2. events' = events \/ events' = Task!Without(events, dropped)
    BY <1>1
  <2> HIDE DEF dropped
  <2> QED BY <1>1, <1>2, <2>1, <2>2, EventsAreDropped DEF TaskInv
<1>8. RandomizationsAre'
  <2>1. Task!EventComponents \subseteq DOMAIN events
    BY <1>1 DEF TaskInv, RandomizationsAre, Task!Balance
  <2>2. profile # "all" =>
          DOMAIN events' \cap Task!EventComponents = {profile} \cap Task!EventComponents
    BY <1>1, <2>1 DEF Task!Without
  <2> QED BY <1>1, <1>2, <2>2 DEF RandomizationsAre
<1> QED BY <1>1, <1>3, <1>4, <1>5, <1>6, <1>7, <1>8 DEF TaskInv

LEMMA AuditStep == ASSUME TaskInv, NEW dropped, Task!Audit(dropped) PROVE TaskInv'
<1>1. /\ options \in Task!Options /\ tPc = "built" /\ tPc' = "audited"
      /\ groups' = [g \in DOMAIN groups |-> Task!Without(groups[g], dropped)]
      /\ corruption' = [g \in DOMAIN corruption |-> FALSE]
      /\ UNCHANGED <<options, scales, residual, heap, lag, events, rewards, curriculum, commands>>
  BY DEF TaskInv, Task!Audit
<1>2. ActionsAre'
  BY <1>1, ActionsStay DEF TaskInv
<1>3. UnbuiltAre'
  BY <1>1 DEF UnbuiltAre
<1>4. ObjectsAre' /\ DelaysAre'
  BY <1>1, ObjectsAreDropped DEF TaskInv
<1>5. LagsAre'
  BY <1>1, OptionsStay DEF TaskInv, LagsAre, Task!Profiles, Task!EventComponents
<1>6. EventsAre'
  <2>1. events' = events /\ {} \cap {"push_robot", "initial_base_velocity"} = {}
    BY <1>1
  <2>2. tPc' \notin Early \cup {"variant"}
    BY <1>1 DEF Early
  <2> QED BY <1>1, <2>1, <2>2, EventsAreDropped DEF TaskInv
<1>7. RandomizationsAre'
  BY <1>1 DEF RandomizationsAre, Task!Profiles, Task!EventComponents
<1> QED BY <1>1, <1>2, <1>3, <1>4, <1>5, <1>6, <1>7 DEF TaskInv

LEMMA TaskStep == TaskInv /\ [Task!Next]_taskVars => TaskInv'
<1> SUFFICES ASSUME TaskInv, [Task!Next]_taskVars PROVE TaskInv'
  OBVIOUS
<1>1. CASE Task!BuildActions
  BY <1>1, ActionsStep
<1>2. CASE Task!BuildObservations
  BY <1>2, ObservationsStep
<1>3. CASE Task!BuildManagers
  BY <1>3, ManagersStep
<1>4. CASE Task!Vary
  BY <1>4, VaryStep
<1>5. CASE Task!Play
  BY <1>5, PlayStep
<1>6. CASE Task!Use
  BY <1>6, CompareStep, SelectStep, AuditStep DEF Task!Use
<1>7. CASE UNCHANGED taskVars
  <2>1. UNCHANGED <<options, tPc, scales, residual, heap, groups, corruption, lag, events,
                    rewards, curriculum, commands>>
    BY <1>7 DEF taskVars
  <2>2. ActionsAre' /\ UnbuiltAre'
    BY <2>1, ActionsStay DEF TaskInv, UnbuiltAre
  <2>3. ObjectsAre' /\ DelaysAre'
    BY <2>1, OptionsStay DEF TaskInv, ObjectsAre, DelaysAre
  <2>4. LagsAre' /\ EventsAre' /\ RandomizationsAre'
    BY <2>1, OptionsStay, EventsStay DEF TaskInv, LagsAre, EventsAre, RandomizationsAre
  <2> QED BY <2>1, <2>2, <2>3, <2>4 DEF TaskInv
<1> QED BY <1>1, <1>2, <1>3, <1>4, <1>5, <1>6, <1>7 DEF Task!Next

LEMMA TaskConclusion == TaskInv => TaskIsConsistent
<1> SUFFICES ASSUME TaskInv PROVE TaskIsConsistent
  OBVIOUS
<1>1. options \in Task!Options /\ UnbuiltAre /\ ActionsAre /\ ObjectsAre /\ DelaysAre
      /\ LagsAre /\ EventsAre /\ RandomizationsAre
  BY DEF TaskInv
<1>2. ASSUME NEW g \in DOMAIN groups, NEW n \in DOMAIN groups[g]
      PROVE  groups[g][n] \in DOMAIN heap
  <2>1. tPc \notin {"actions", "observations"}
    BY <1>1, <1>2 DEF UnbuiltAre, Task!Empty
  <2>2. DOMAIN heap = DOMAIN Task!Observations
    BY <1>1, <2>1 DEF ObjectsAre
  <2>3. CASE g = "actor"
    <3>1. n \in Task!ActorNames /\ groups[g][n] = <<"actor", n>>
      BY <1>1, <1>2, <2>1, <2>3 DEF ObjectsAre
    <3> QED BY <2>2, <3>1, Identities
  <2>4. CASE g = "critic"
    <3>1. n \in Task!CriticNames /\ groups[g][n] = Task!CriticId(n)
      BY <1>1, <1>2, <2>1, <2>4 DEF ObjectsAre
    <3> QED BY <2>2, <3>1, Identities
  <2> QED BY <1>1, <2>1, <2>3, <2>4 DEF ObjectsAre
<1>3. \A id \in DOMAIN heap : heap[id].delay \in 0..1
  BY <1>1 DEF UnbuiltAre, Task!Empty, ObjectsAre, Objects
<1>4. lag \in 0..2
  BY <1>1, OptionsAre DEF LagsAre
<1>5. Task!TypeOK /\ Task!ScalesPartitionTheActuators /\ Task!AuthorityIsWithinTheHardware
  BY <1>1, <1>2, <1>3, <1>4, TaskCounts
  DEF ActionsAre, Task!TypeOK, Task!ScalesPartitionTheActuators, Task!AuthorityIsWithinTheHardware
<1>6. Task!CriticSeesTheTruth
  <2> SUFFICES ASSUME Task!Built PROVE Task!CriticSeesTheTruth
    BY DEF Task!CriticSeesTheTruth
  <2>1. tPc \notin {"actions", "observations"}
    BY DEF Task!Built
  <2>2. /\ corruption["critic"] = FALSE
        /\ DOMAIN groups["actor"] \subseteq DOMAIN groups["critic"]
        /\ DOMAIN groups["actor"] \subseteq Task!ActorNames
        /\ DOMAIN groups["critic"] \subseteq Task!CriticNames
        /\ \A n \in DOMAIN groups["actor"] : groups["actor"][n] = <<"actor", n>>
        /\ \A n \in DOMAIN groups["critic"] : groups["critic"][n] = Task!CriticId(n)
        /\ \A n \in Task!ActorNames : heap[Task!CriticId(n)].history = heap[<<"actor", n>>].history
        /\ \A n \in Task!CriticNames : /\ heap[Task!CriticId(n)].delay = 0
                                       /\ Task!Balance => heap[Task!CriticId(n)].biased = FALSE
    BY <1>1, <2>1 DEF ObjectsAre
  <2>3. \A n \in DOMAIN groups["critic"] :
          /\ heap[groups["critic"][n]].delay = 0
          /\ Task!Balance => heap[groups["critic"][n]].biased = FALSE
    BY <2>2
  <2>4. \A n \in DOMAIN groups["actor"] :
          /\ n \in DOMAIN groups["critic"]
          /\ heap[groups["critic"][n]].history = heap[groups["actor"][n]].history
    BY <2>2
  <2> QED BY <2>2, <2>3, <2>4, Zenon DEF Task!CriticSeesTheTruth
<1>7. Task!ReferencesResolve
  BY <1>1, EventsResolve
<1>8. Task!NominalIsNominal
  <2> SUFFICES ASSUME tPc = "nominal" PROVE Task!NominalIsNominal
    BY DEF Task!NominalIsNominal
  <2>1. lag = 0 /\ DOMAIN events \cap Task!Randomizations = {}
    BY <1>1 DEF LagsAre, RandomizationsAre
  <2>2. \A id \in DOMAIN heap : heap[id].delay = 0
    BY <1>1 DEF LagsAre, ObjectsAre
  <2> QED BY <1>2, <2>1, <2>2 DEF Task!NominalIsNominal
<1>9. Task!OneComponentRemains
  <2> SUFFICES ASSUME tPc \in Task!Profiles \ {"all"} PROVE Task!OneComponentRemains
    BY DEF Task!OneComponentRemains
  <2>1. DOMAIN events \cap Task!EventComponents = {tPc} \cap Task!EventComponents
    BY <1>1 DEF RandomizationsAre
  <2>2. lag > 0 <=> tPc = "actuator-delay"
    BY <1>1 DEF LagsAre, Task!Profiles, Task!EventComponents
  <2>3. (\E n \in DOMAIN groups["actor"] : heap[groups["actor"][n]].delay > 0) <=> tPc = "actor-delay"
    <3>1. Task!Balance /\ options.stage = 1
      BY <1>1 DEF LagsAre, Task!Balance
    <3>2. CASE tPc = "actor-delay"
      <4>1. /\ "base_ang_vel" \in DOMAIN groups["actor"]
            /\ heap[<<"actor", "base_ang_vel">>].delay = 1
        BY <1>1, <3>1, <3>2 DEF DelaysAre
      <4>2. groups["actor"]["base_ang_vel"] = <<"actor", "base_ang_vel">>
        BY <1>1, <3>2, <4>1 DEF ObjectsAre
      <4> QED BY <3>2, <4>1, <4>2
    <3>3. CASE tPc # "actor-delay"
      BY <1>1, <3>3 DEF DelaysAre
    <3> QED BY <3>2, <3>3
  <2>4. tPc \in Task!EventComponents \/ tPc = "actuator-delay" \/ tPc = "actor-delay"
    BY DEF Task!Profiles
  <2>5. "actuator-delay" \notin Task!EventComponents /\ "actor-delay" \notin Task!EventComponents
    BY DEF Task!EventComponents
  <2> QED BY <2>1, <2>2, <2>3, <2>4, <2>5 DEF Task!OneComponentRemains
<1> QED BY <1>5, <1>6, <1>7, <1>8, <1>9 DEF TaskIsConsistent
-----------------------------------------------------------------------------
(* The theorems. *)

\* A behaviour moves one part, so that each of them takes steps of its own only.
EachPartIsItsOwn ==
  [Next]_vars /\ [ImpulseAction]_impulseVars /\ [Task!Next]_taskVars

LEMMA PartsTakeTheirSteps == [EnvironmentNext]_environmentVars => EachPartIsItsOwn
<1> SUFFICES ASSUME [EnvironmentNext]_environmentVars PROVE EachPartIsItsOwn
  OBVIOUS
<1>1. CASE UNCHANGED environmentVars
  BY <1>1 DEF environmentVars, EachPartIsItsOwn
<1>2. CASE part = "kicks" /\ Next /\ UNCHANGED <<part, impulseVars, taskVars>>
  BY <1>2 DEF EachPartIsItsOwn
<1>3. CASE part = "impulses" /\ Impulse!Next /\ UNCHANGED <<part, vars, taskVars>>
  BY <1>3 DEF EachPartIsItsOwn, ImpulseAction, Impulse!Next
<1>4. CASE part = "task" /\ Task!Next /\ UNCHANGED <<part, vars, impulseVars>>
  BY <1>4 DEF EachPartIsItsOwn
<1> QED BY <1>1, <1>2, <1>3, <1>4 DEF EnvironmentNext

LEMMA KicksHold == EnvironmentSpec => []KickInv
<1>1. EnvironmentInit => KickInv
  BY KickStep DEF EnvironmentInit
<1>2. KickInv /\ [EnvironmentNext]_environmentVars => KickInv'
  BY PartsTakeTheirSteps, KickStep DEF EachPartIsItsOwn
<1> QED BY <1>1, <1>2, PTL DEF EnvironmentSpec

LEMMA ImpulsesHold == EnvironmentSpec => []ImpulseInv
<1>1. EnvironmentInit => ImpulseInv
  BY ImpulseInit DEF EnvironmentInit
<1>2. ImpulseInv /\ [EnvironmentNext]_environmentVars => ImpulseInv'
  BY PartsTakeTheirSteps, ImpulseStep DEF EachPartIsItsOwn
<1> QED BY <1>1, <1>2, PTL DEF EnvironmentSpec

LEMMA TaskHolds == EnvironmentSpec => []TaskInv
<1>1. EnvironmentInit => TaskInv
  BY TaskInit DEF EnvironmentInit
<1>2. TaskInv /\ [EnvironmentNext]_environmentVars => TaskInv'
  BY PartsTakeTheirSteps, TaskStep DEF EachPartIsItsOwn
<1> QED BY <1>1, <1>2, PTL DEF EnvironmentSpec

\* For every warmup, cap, scale and threshold: an episode gets its one kick as soon as the
\* warmup is over, the recovery terms read the age of this episode's push or never, and
\* the kick grows only after an episode was survived (disturbances.py).
THEOREM KicksBelongToTheirEpisode == EnvironmentSpec => []KicksAreTheEpisodes
BY KicksHold, KickConclusion, PTL

\* For every mixture, warmup, interval, duration and threshold: a wrench belongs to its
\* episode and to the level drawn at its reset, acts for exactly its duration unless a
\* reset cuts it short and keeps its distance to the last one; what the recovery terms
\* read is of this episode; the ladder moves on evidence of the rung it leaves, and every
\* push that is due under it happens (disturbances.py, curricula.py).
THEOREM ImpulsesDelivered == EnvironmentSpec => ImpulsesAreDelivered
<1>1. ImpulseInv /\ [EnvironmentNext]_environmentVars
        => [wrench # Impulse!None /\ wrench' = Impulse!None /\ iPc = "event"
              => worn = wrench.duration]_(Impulse!vars)
  BY PartsTakeTheirSteps, ImpulseActions DEF EachPartIsItsOwn
<1>2. ImpulseInv /\ [EnvironmentNext]_environmentVars
        => [pushes' > pushes =>
              /\ iLength >= PushWarmup
              /\ pushes > 0 => iSince >= Low /\ (iKind = "stratified" => iSince <= High)]_(Impulse!vars)
  BY PartsTakeTheirSteps, ImpulseActions DEF EachPartIsItsOwn
<1>3. ImpulseInv /\ [EnvironmentNext]_environmentVars
        => [iPc = "reset" => LET seen == evidence \cup {iLength}
                             IN  /\ rung' > rung => \E s \in seen : s >= LadderAdvance
                                 /\ rung' < rung => \E s \in seen : s < LadderRegress]_(Impulse!vars)
  BY PartsTakeTheirSteps, ImpulseActions DEF EachPartIsItsOwn
<1>4. ImpulseInv /\ [EnvironmentNext]_environmentVars
        => [iKind = "stratified" => Impulse!DuePushIsMade]_impulseVars
  BY PartsTakeTheirSteps, StratifiedIsRouted DEF EachPartIsItsOwn, Impulse!DuePushIsMade
<1> QED
  BY <1>1, <1>2, <1>3, <1>4, ImpulsesHold, ImpulseConclusion, PTL
  DEF EnvironmentSpec, ImpulsesAreDelivered, Impulse!DeliveredImpulse, Impulse!SpacedPushes,
      Impulse!LadderNeedsEvidence

\* For every robot, and whatever is asked for and edited afterwards: the residual acts on
\* joints of the legs in module order and within the hardware's limits, each actuator has
\* one scale, the critic sees neither the actor's delays nor its noise, everything named
\* by a reward or a curriculum is configured, a nominal comparison runs the true model and
\* a profile keeps its one component (balance_env_cfg.py and the scripts that edit it).
THEOREM ConfigurationsAreConsistent == EnvironmentSpec => []TaskIsConsistent
BY TaskHolds, TaskConclusion, PTL
-----------------------------------------------------------------------------
(* The paired episodes. *)

PairTypes ==
  /\ duration \in [Pairs!Draws -> Durations]
  /\ arm \in Pairs!Arms /\ pair \in 0..PairsPerEnv - 1 /\ counts \in [Pairs!Arms -> 0..PairsPerEnv]
  /\ pLength \in 0..EpisodeCap /\ pSince \in 0..Pairs!Never
  /\ pWrench = <<>> \/ pWrench \in Pairs!Draws
  /\ pRemaining \in Nat /\ pWorn \in Nat
  /\ pSteps \in [Pairs!Strata -> 0..EpisodeCap] /\ pLast \in Pairs!Strata
  /\ pPc \in {"before", "step", "finish", "end"}
  /\ pSeen \in Seq(Pairs!Draws)
  /\ pPc = "step" => pLength < EpisodeCap
  /\ pPc = "before" => pLength < EpisodeCap

\* The arms are at the same pair, or the one that is not running is ahead by this one.
Crossover ==
  /\ active => /\ pair = counts[arm]
               /\ counts[Pairs!Other(arm)] \in {pair, pair + 1}
  /\ ~active => \A a \in Pairs!Arms : counts[a] = PairsPerEnv
  /\ \A e \in pEpisodes : e.arm \in Pairs!Arms /\ e.pair \in 0..counts[e.arm] - 1
  /\ \A a \in Pairs!Arms : \A p \in 0..counts[a] - 1 :
       \E e \in pEpisodes : e.pair = p /\ e.arm = a
  /\ \A e, g \in pEpisodes : e.pair = g.pair /\ e.arm = g.arm => e = g
  /\ pPc = "end" => ~active

PushAge(k) == FirstPush + k * PushInterval

\* How many pushes there have been is what the length of the episode says, so that the
\* occurrence that seeds a draw counts them.
OnSchedule ==
  /\ pPc = "step" =>
       /\ pLength < PushAge(Len(pSeen))
       /\ pSeen # <<>> => pLength >= PushAge(Len(pSeen) - 1)
  /\ pPc # "step" =>
       /\ pLength <= PushAge(Len(pSeen))
       /\ pSeen # <<>> => pLength > PushAge(Len(pSeen) - 1)

Pushes ==
  /\ \A i \in 1..Len(pSeen) : pSeen[i] = <<pair, i - 1>>
  /\ ~active => pSeen = <<>>
  /\ active /\ Scenario # "nominal" => OnSchedule

WrenchOfThePair ==
  pWrench # <<>> =>
    /\ Scenario = "impulse" /\ active /\ pSeen # <<>> /\ pWrench = pSeen[Len(pSeen)]
    /\ pWorn + pRemaining = (duration[pWrench] + 1) \div 2
    /\ pPc = "step" => pRemaining >= 1

\* The first step behind a push is booked to recovery.
StepsBooked ==
  active =>
    /\ pSteps["startup"] + pSteps["sustained"] + pSteps["recovery"] = pLength
    /\ pSeen = <<>> => pSince = Pairs!Never /\ pSteps["recovery"] = 0
    /\ pSeen # <<>> => pSteps["recovery"] > 0 \/ (pPc = "step" /\ pSince = 0 /\ pLength >= 1)
    /\ pLength > 0 => pSteps[pLast] > 0
    /\ pPc = "finish" => pLength > 0

Strata(e) ==
  /\ \A r, q \in e.strata : r.stratum = q.stratum => r = q
  /\ Pairs!StepsIn(e, "startup") + Pairs!StepsIn(e, "sustained") + Pairs!StepsIn(e, "recovery") = e.length
  /\ (\E row \in e.strata : row.stratum = "recovery") <=> e.seen # <<>>
  /\ Pairs!Cardinality({row \in e.strata : row.cause}) = 1

\* What is recorded of an episode.
Recorded ==
  \A e \in pEpisodes :
    /\ e.seen \in Seq(Pairs!Draws) /\ \A i \in 1..Len(e.seen) : e.seen[i] = <<e.pair, i - 1>>
    /\ Strata(e)

PairInv == PairTypes /\ Crossover /\ Pushes /\ WrenchOfThePair /\ StepsBooked /\ Recorded

LEMMA PairConstants ==
  /\ PairsPerEnv \in Nat \ {0} /\ FirstPush \in Nat \ {0} /\ PushInterval \in Nat \ {0}
  /\ RecoveryWindow \in Nat \ {0} /\ EpisodeCap \in Nat \ {0}
  /\ Durations \subseteq Nat \ {0} /\ Scenario \in {"nominal", "kick", "impulse"}
BY SuiteAssumption DEF Pairs!EvaluationAssumption

LEMMA OtherArm ==
  ASSUME NEW a \in Pairs!Arms
  PROVE  /\ Pairs!Other(a) \in Pairs!Arms /\ Pairs!Other(a) # a
         /\ \A b \in Pairs!Arms : b = a \/ b = Pairs!Other(a)
<1>1. \E b \in Pairs!Arms : b # a
  BY DEF Pairs!Arms
<1>2. Pairs!Other(a) \in Pairs!Arms /\ Pairs!Other(a) # a
  BY <1>1 DEF Pairs!Other
<1> QED BY <1>2 DEF Pairs!Arms

LEMMA PairMinMax ==
  ASSUME NEW a \in Int, NEW b \in Int
  PROVE  /\ Pairs!Min({a, b}) \in {a, b} /\ Pairs!Min({a, b}) <= a /\ Pairs!Min({a, b}) <= b
         /\ Pairs!Max({a, b}) \in {a, b} /\ Pairs!Max({a, b}) >= a /\ Pairs!Max({a, b}) >= b
<1>1. \E x \in {a, b} : \A y \in {a, b} : x <= y
  OBVIOUS
<1>2. \E x \in {a, b} : \A y \in {a, b} : x >= y
  OBVIOUS
<1> QED BY <1>1, <1>2 DEF Pairs!Min, Pairs!Max

\* The occurrence at a due length.
LEMMA Occurrence ==
  ASSUME NEW d \in Nat, NEW k \in Nat, NEW interval \in Nat \ {0}, d % interval = 0,
         d <= k * interval, k # 0 => d > (k - 1) * interval
  PROVE  d \div interval = k
<1> DEFINE q == d \div interval
<1>1. q \in Nat /\ d = interval * q
  OBVIOUS
<1> HIDE DEF q
<1>2. q <= k
  <2>1. SUFFICES ASSUME q >= k + 1 PROVE FALSE
    BY <1>1
  <2>2. (k + 1) * interval <= q * interval
    BY <1>1, <2>1, Multiples
  <2>3. (k + 1) * interval = k * interval + interval
    OBVIOUS
  <2>4. q * interval = d
    BY <1>1
  <2> QED BY <2>2, <2>3, <2>4
<1>3. q >= k
  <2>1. SUFFICES ASSUME q <= k - 1 PROVE FALSE
    BY <1>1
  <2>2. k # 0 /\ k - 1 \in Nat
    BY <1>1, <2>1
  <2>3. q * interval <= (k - 1) * interval
    BY <1>1, <2>1, <2>2, Multiples
  <2>4. q * interval = d
    BY <1>1
  <2> QED BY <2>2, <2>3, <2>4
<1> QED BY <1>1, <1>2, <1>3 DEF q

LEMMA Quotients ==
  ASSUME NEW d \in Nat, NEW e \in Nat, NEW interval \in Nat \ {0}, d <= e
  PROVE  d \div interval \in 0..e \div interval
<1> DEFINE q == d \div interval
           p == e \div interval
<1>1. /\ q \in Nat /\ q * interval <= d
      /\ p \in Nat /\ e < (p + 1) * interval
  <2>1. /\ d \div interval \in Nat /\ d % interval \in 0 .. (interval - 1)
        /\ d = interval * (d \div interval) + (d % interval)
    OBVIOUS
  <2>2. /\ e \div interval \in Nat /\ e % interval \in 0 .. (interval - 1)
        /\ e = interval * (e \div interval) + (e % interval)
    OBVIOUS
  <2>3. PICK r \in 0 .. (interval - 1) : d = interval * q + r
    BY <2>1
  <2>4. PICK t \in 0 .. (interval - 1) : e = interval * p + t
    BY <2>2
  <2>5. q \in Nat /\ p \in Nat
    BY <2>1, <2>2
  <2> HIDE DEF q, p
  <2>6. (p + 1) * interval = interval * p + interval /\ q * interval = interval * q
        /\ interval * p \in Nat /\ interval * q \in Nat
    BY <2>5
  <2> QED BY <2>3, <2>4, <2>5, <2>6
<1> HIDE DEF q, p
<1>2. q <= p
  <2>1. SUFFICES ASSUME p + 1 <= q PROVE FALSE
    BY <1>1
  <2>2. (p + 1) * interval <= q * interval /\ (p + 1) * interval \in Nat /\ q * interval \in Nat
    BY <1>1, <2>1, Multiples
  <2> QED BY <1>1, <2>2
<1> QED BY <1>1, <1>2 DEF q, p

LEMMA MultiplesDivide ==
  ASSUME NEW k \in Nat, NEW interval \in Nat \ {0}
  PROVE  (k * interval) % interval = 0
<1> DEFINE d == k * interval
<1>1. d \in Nat
  OBVIOUS
<1> HIDE DEF d
<1>2. /\ d \div interval \in Nat /\ d % interval \in 0 .. (interval - 1)
      /\ d = interval * (d \div interval) + (d % interval)
  BY <1>1
<1> DEFINE q == d \div interval
           r == d % interval
<1>3. q \in Nat /\ r \in 0 .. (interval - 1) /\ d = q * interval + r
  <2>1. q * interval = interval * q
    BY <1>2
  <2> QED BY <1>2, <2>1
<1> HIDE DEF q, r
<1>4. ~(k >= q + 1)
  <2>1. SUFFICES ASSUME k >= q + 1 PROVE FALSE
    OBVIOUS
  <2>2. (q + 1) * interval <= k * interval /\ q * interval \in Nat
    BY <1>3, <2>1, Multiples
  <2>3. (q + 1) * interval = q * interval + interval
    BY <1>3
  <2> QED BY <1>3, <2>2, <2>3 DEF d
<1>5. ~(q >= k + 1)
  <2>1. SUFFICES ASSUME q >= k + 1 PROVE FALSE
    OBVIOUS
  <2>2. (k + 1) * interval <= q * interval /\ k * interval \in Nat
    BY <1>3, <2>1, Multiples
  <2>3. (k + 1) * interval = k * interval + interval
    OBVIOUS
  <2> QED BY <1>3, <2>2, <2>3 DEF d
<1>6. k = q
  BY <1>3, <1>4, <1>5
<1>7. r = 0
  BY <1>1, <1>3, <1>6 DEF d
<1> QED BY <1>7 DEF r, d

LEMMA DrawIs ==
  ASSUME PairInv, pPc = "before", Pairs!Due
  PROVE  /\ Pairs!Draw = <<pair, Len(pSeen)>> /\ Pairs!Draw \in Pairs!Draws
         /\ pLength >= 1 /\ pLength = PushAge(Len(pSeen)) /\ active /\ Scenario # "nominal"
<1> USE PairConstants
<1> DEFINE d == pLength - FirstPush
           k == Len(pSeen)
<1>1. /\ active /\ Scenario # "nominal" /\ pLength >= FirstPush /\ d % PushInterval = 0
      /\ pLength \in 0..EpisodeCap /\ pSeen \in Seq(Pairs!Draws) /\ pair \in 0..PairsPerEnv - 1
  BY DEF Pairs!Due, PairInv, PairTypes
<1>2. d \in Nat /\ k \in Nat /\ (k # 0 => pSeen # <<>>)
  BY <1>1
<1>3. d <= k * PushInterval /\ (k # 0 => d > (k - 1) * PushInterval)
  <2>1. pLength <= PushAge(k) /\ (k # 0 => pLength > PushAge(k - 1))
    BY <1>1, <1>2 DEF PairInv, Pushes, OnSchedule
  <2> QED BY <1>1, <1>2, <2>1 DEF PushAge
<1>4. d \div PushInterval = k
  BY <1>1, <1>2, <1>3, Occurrence
<1>5. k \in 0..EpisodeCap \div PushInterval
  BY <1>1, <1>2, <1>4, Quotients
<1>6. d = k * PushInterval
  <2>1. d = PushInterval * (d \div PushInterval) + (d % PushInterval)
    BY <1>2
  <2> HIDE DEF d
  <2> QED BY <1>1, <1>2, <1>4, <2>1
<1>7. Pairs!Draw = <<pair, k>>
  BY <1>4 DEF Pairs!Draw
<1>8. pLength = PushAge(k) /\ pLength >= 1
  BY <1>1, <1>2, <1>6 DEF PushAge
<1> QED BY <1>1, <1>5, <1>7, <1>8 DEF Pairs!Draws

\* The pushes are apart.
LEMMA PushAges ==
  ASSUME NEW k \in Nat
  PROVE  PushAge(k) \in Nat /\ PushAge(k + 1) \in Nat /\ PushAge(k) < PushAge(k + 1)
<1> USE PairConstants
<1>1. k * PushInterval \in Nat /\ (k + 1) * PushInterval = k * PushInterval + PushInterval
  OBVIOUS
<1> QED BY <1>1 DEF PushAge

LEMMA DrawnDuration ==
  ASSUME PairTypes, NEW draw \in Pairs!Draws
  PROVE  (duration[draw] + 1) \div 2 \in Nat \ {0}
<1>1. duration[draw] \in Nat \ {0}
  BY PairConstants DEF PairTypes
<1> QED BY <1>1

LEMMA PairInit == Pairs!Init => PairInv
<1> SUFFICES ASSUME Pairs!Init PROVE PairInv
  OBVIOUS
<1> USE PairConstants
<1>1. PairTypes
  BY EmptySeq DEF Pairs!Init, PairTypes, Pairs!Arms, Pairs!Never, Pairs!NoSteps, Pairs!Strata
<1>2. Crossover
  BY OtherArm DEF Pairs!Init, Crossover
<1>3. Pushes
  <2>1. pLength = 0 /\ pSeen = <<>> /\ active /\ pPc = "before" /\ Len(pSeen) = 0
    BY DEF Pairs!Init
  <2>2. PushAge(0) \in Nat
    BY PushAges
  <2>3. OnSchedule
    BY <2>1, <2>2 DEF OnSchedule
  <2> QED BY <2>1, <2>3 DEF Pushes
<1>4. WrenchOfThePair /\ Recorded
  BY DEF Pairs!Init, WrenchOfThePair, Recorded
<1>5. StepsBooked
  BY DEF Pairs!Init, StepsBooked, Pairs!NoSteps, Pairs!Strata
<1> QED BY <1>1, <1>2, <1>3, <1>4, <1>5 DEF PairInv

\* What is recorded stays as it is.
LEMMA RecordsStay ==
  ASSUME PairInv, pEpisodes' = pEpisodes PROVE Recorded'
BY DEF PairInv, Recorded, Strata, Pairs!StepsIn

LEMMA CrossoverStays ==
  ASSUME PairInv, UNCHANGED <<arm, pair, counts, active, pEpisodes>>, pPc' # "end"
  PROVE  Crossover'
BY DEF PairInv, Crossover

LEMMA PairBefore == ASSUME PairInv, Pairs!BeforeStep PROVE PairInv'
<1> USE PairConstants
<1>1. /\ pPc = "before" /\ pPc' = "step"
      /\ UNCHANGED <<duration, arm, pair, counts, active, others, pLength, pSteps, pLast, pEpisodes>>
  BY DEF Pairs!BeforeStep
<1>2. Crossover' /\ Recorded'
  BY <1>1, RecordsStay, CrossoverStays
<1>3. PairTypes /\ Pushes /\ WrenchOfThePair /\ StepsBooked
  BY DEF PairInv
<1>4. CASE Pairs!Due
  <2> DEFINE draw == <<pair, Len(pSeen)>>
  <2>1. /\ Pairs!Draw = draw /\ draw \in Pairs!Draws
        /\ pLength >= 1 /\ pLength = PushAge(Len(pSeen)) /\ active /\ Scenario # "nominal"
    BY <1>1, <1>4, DrawIs
  <2>2. /\ pSince' = 0 /\ pSeen' = Append(pSeen, draw)
        /\ IF Scenario = "impulse"
           THEN pWrench' = draw /\ pRemaining' = (duration[draw] + 1) \div 2 /\ pWorn' = 0
           ELSE UNCHANGED <<pWrench, pRemaining, pWorn>>
    BY <1>4, <2>1 DEF Pairs!BeforeStep, Pairs!Trigger, Pairs!Impulse
  <2>3. pSeen \in Seq(Pairs!Draws) /\ Len(pSeen) \in Nat /\ pLength \in 0..EpisodeCap
    BY <1>3 DEF PairTypes
  <2> HIDE DEF draw
  <2>4. /\ pSeen' \in Seq(Pairs!Draws) /\ Len(pSeen') = Len(pSeen) + 1 /\ pSeen' # <<>>
        /\ pSeen'[Len(pSeen')] = draw
        /\ \A i \in 1..Len(pSeen) : pSeen'[i] = pSeen[i]
    BY <2>1, <2>2, <2>3
  <2>5. (duration[draw] + 1) \div 2 \in Nat \ {0}
    BY <1>3, <2>1, DrawnDuration
  <2>6. /\ pWrench' = <<>> \/ pWrench' \in Pairs!Draws
        /\ pRemaining' \in Nat /\ pWorn' \in Nat
    BY <1>3, <2>1, <2>2, <2>5 DEF PairTypes
  <2>7. PairTypes'
    BY <1>1, <1>3, <2>2, <2>4, <2>6 DEF PairTypes, Pairs!Never
  <2>8. Pushes'
    <3>1. \A i \in 1..Len(pSeen') : pSeen'[i] = <<pair, i - 1>>
      <4>1. \A i \in 1..Len(pSeen) : pSeen[i] = <<pair, i - 1>>
        BY <1>3 DEF Pushes
      <4>2. pSeen'[Len(pSeen) + 1] = <<pair, (Len(pSeen) + 1) - 1>>
        BY <2>3, <2>4 DEF draw
      <4> QED BY <2>3, <2>4, <4>1, <4>2
    <3>2. OnSchedule'
      <4>1. PushAge(Len(pSeen)) < PushAge(Len(pSeen) + 1)
        BY <2>3, PushAges
      <4>2. Len(pSeen') - 1 = Len(pSeen)
        BY <2>3, <2>4
      <4>3. /\ PushAge(Len(pSeen')) = PushAge(Len(pSeen) + 1)
            /\ PushAge(Len(pSeen') - 1) = PushAge(Len(pSeen))
        BY <2>4, <4>2
      <4>4. pLength < PushAge(Len(pSeen')) /\ pLength >= PushAge(Len(pSeen') - 1)
        BY <2>1, <2>3, <4>1, <4>3, PushAges
      <4> QED BY <1>1, <4>4 DEF OnSchedule, PushAge
    <3> QED BY <1>1, <2>1, <3>1, <3>2 DEF Pushes
  <2>9. WrenchOfThePair'
    <3>1. CASE Scenario = "impulse"
      BY <1>1, <2>1, <2>2, <2>4, <2>5, <3>1 DEF WrenchOfThePair
    <3>2. CASE Scenario # "impulse"
      BY <1>1, <1>3, <2>1, <2>2, <2>4, <3>2 DEF WrenchOfThePair
    <3> QED BY <3>1, <3>2
  <2>10. StepsBooked'
    BY <1>1, <1>3, <2>1, <2>2, <2>4 DEF StepsBooked, PairTypes
  <2> QED BY <1>2, <2>7, <2>8, <2>9, <2>10 DEF PairInv
<1>5. CASE ~Pairs!Due
  <2>1. /\ UNCHANGED <<pSince, pWorn, pSeen>>
        /\ IF pRemaining = 0 /\ pWrench # <<>> THEN pWrench' = <<>> /\ pRemaining' = 0
           ELSE UNCHANGED <<pWrench, pRemaining>>
    BY <1>5 DEF Pairs!BeforeStep, Pairs!Expire, Pairs!Clear
  <2>2. PairTypes'
    BY <1>1, <1>3, <2>1 DEF PairTypes
  <2>3. Pushes'
    <3>1. OnSchedule' => Pushes'
      BY <1>1, <1>3, <2>1 DEF Pushes
    <3>2. CASE active /\ Scenario # "nominal"
      <4> DEFINE k == Len(pSeen)
      <4>1. /\ k \in Nat /\ pLength \in 0..EpisodeCap /\ pLength <= PushAge(k)
            /\ pSeen # <<>> => pLength > PushAge(k - 1)
        BY <1>1, <1>3, <3>2 DEF Pushes, OnSchedule, PairTypes
      <4> HIDE DEF k
      <4>2. pLength # PushAge(k)
        <5>1. SUFFICES ASSUME pLength = PushAge(k) PROVE FALSE
          OBVIOUS
        <5>2. k * PushInterval \in Nat
          BY <4>1
        <5>3. pLength >= FirstPush /\ pLength - FirstPush = k * PushInterval
          BY <4>1, <5>1, <5>2 DEF PushAge
        <5> QED BY <1>5, <3>2, <4>1, <5>3, MultiplesDivide DEF Pairs!Due
      <4>3. PushAge(k) \in Nat /\ (pSeen # <<>> => PushAge(k - 1) \in Nat)
        <5>1. pSeen # <<>> => k # 0
          BY <1>3, EmptySeq DEF PairTypes, k
        <5> QED BY <4>1, <5>1, PushAges
      <4>4. /\ pLength < PushAge(k)
            /\ pSeen # <<>> => pLength >= PushAge(k - 1)
        BY <4>1, <4>2, <4>3
      <4> QED BY <1>1, <2>1, <3>1, <4>4 DEF OnSchedule, PushAge, k
    <3>3. CASE ~(active /\ Scenario # "nominal")
      BY <1>1, <1>3, <2>1, <3>3 DEF Pushes
    <3> QED BY <3>2, <3>3
  <2>4. WrenchOfThePair'
    BY <1>1, <1>3, <2>1 DEF WrenchOfThePair, PairTypes
  <2>5. StepsBooked'
    BY <1>1, <1>3, <2>1 DEF StepsBooked
  <2> QED BY <1>2, <2>2, <2>3, <2>4, <2>5 DEF PairInv
<1> QED BY <1>4, <1>5

LEMMA PairCapture ==
  ASSUME PairInv, Pairs!Step, active
  PROVE  /\ pSteps' \in [Pairs!Strata -> 0..EpisodeCap] /\ pLast' \in Pairs!Strata
         /\ pSteps'["startup"] + pSteps'["sustained"] + pSteps'["recovery"] = pLength + 1
         /\ pSeen = <<>> => pSince' = Pairs!Never /\ pSteps'["recovery"] = 0
         /\ pSeen # <<>> => pSteps'["recovery"] > 0
         /\ pSteps'[pLast'] > 0
<1> USE PairConstants
<1> DEFINE s == Pairs!Stratum(pLength', pSince')
<1>1. /\ pPc = "step" /\ pLength \in 0..EpisodeCap - 1 /\ pLength' = pLength + 1
      /\ pSince' = Pairs!Min({pSince + 1, Pairs!Never})
      /\ pLast' = s /\ pSteps' = [pSteps EXCEPT ![s] = @ + 1]
  <2>1. pPc = "step" /\ pLength < EpisodeCap /\ pLength' = pLength + 1 /\ pLength \in 0..EpisodeCap
    BY DEF Pairs!Step, PairInv, PairTypes
  <2>2. pSince' = Pairs!Min({pSince + 1, Pairs!Never})
    BY DEF Pairs!Step
  <2>3. pLast' = s /\ pSteps' = [pSteps EXCEPT ![s] = @ + 1]
    BY DEF Pairs!Step, Pairs!Capture
  <2> QED BY <2>1, <2>2, <2>3
<1>2. /\ pSteps \in [Pairs!Strata -> 0..EpisodeCap] /\ pSince \in 0..Pairs!Never
      /\ Pairs!Strata = {"startup", "sustained", "recovery"}
      /\ pSteps["startup"] + pSteps["sustained"] + pSteps["recovery"] = pLength
      /\ pSeen = <<>> => pSince = Pairs!Never /\ pSteps["recovery"] = 0
      /\ pSeen # <<>> => pSteps["recovery"] > 0 \/ (pSince = 0 /\ pLength >= 1)
  BY <1>1 DEF PairInv, PairTypes, StepsBooked, Pairs!Strata
<1>3. /\ pSince = Pairs!Never => pSince' = Pairs!Never
      /\ pSince = 0 => pSince' = 1
      /\ Pairs!Never = EpisodeCap + 1 /\ pSince' \in 0..Pairs!Never
  <2>1. Pairs!Never = EpisodeCap + 1
    BY DEF Pairs!Never
  <2>2. pSince + 1 \in Int /\ Pairs!Never \in Int
    BY <1>2, <2>1
  <2>3. /\ pSince' \in {pSince + 1, Pairs!Never}
        /\ pSince' <= pSince + 1 /\ pSince' <= Pairs!Never
    BY <1>1, <2>2, PairMinMax, Zenon
  <2> QED BY <1>2, <2>1, <2>3
<1>4. s \in Pairs!Strata
  BY DEF Pairs!Stratum, Pairs!Strata
<1>5. /\ pSince' = Pairs!Never => s # "recovery"
      /\ pSince' = 1 /\ pLength >= 1 => s = "recovery"
  BY <1>1, <1>3 DEF Pairs!Stratum
<1> HIDE DEF s
<1>6. \A t \in Pairs!Strata : pSteps[t] \in 0..pLength /\ pSteps'[t] = pSteps[t] + (IF t = s THEN 1 ELSE 0)
  BY <1>1, <1>2, <1>4
<1>7. \A t \in Pairs!Strata : pSteps'[t] \in 0..EpisodeCap
  BY <1>1, <1>6
<1>8. pSteps' \in [Pairs!Strata -> 0..EpisodeCap]
  BY <1>1, <1>2, <1>7
<1>9. pSteps'["startup"] + pSteps'["sustained"] + pSteps'["recovery"] = pLength + 1
  BY <1>1, <1>2, <1>4, <1>6
<1>10. pSteps'[s] > 0
  BY <1>4, <1>6
<1>11. pSeen = <<>> => pSteps'["recovery"] = 0
  <2>1. pSteps'["recovery"] = pSteps["recovery"] + (IF "recovery" = s THEN 1 ELSE 0)
    BY <1>2, <1>6
  <2> QED BY <1>2, <1>3, <1>5, <2>1
<1>12. pSeen # <<>> => pSteps'["recovery"] > 0
  <2>1. pSteps["recovery"] \in Nat /\ pSteps'["recovery"] = pSteps["recovery"] + (IF "recovery" = s THEN 1 ELSE 0)
    BY <1>1, <1>2, <1>6
  <2> QED BY <1>2, <1>3, <1>5, <2>1
<1> QED BY <1>1, <1>2, <1>3, <1>4, <1>8, <1>9, <1>10, <1>11, <1>12

LEMMA PairStep == ASSUME PairInv, Pairs!Step PROVE PairInv'
<1> USE PairConstants
<1>1. /\ pPc = "step" /\ pPc' \in {"finish", "before"} /\ pLength < EpisodeCap /\ pLength' = pLength + 1
      /\ pPc' = "before" => pLength' < EpisodeCap
      /\ pSince' = Pairs!Min({pSince + 1, Pairs!Never})
      /\ pWorn' = (IF pWrench = <<>> THEN pWorn ELSE pWorn + 1)
      /\ pRemaining' = Pairs!Max({pRemaining - 1, 0})
      /\ UNCHANGED <<duration, arm, pair, counts, active, others, pWrench, pEpisodes, pSeen>>
  BY DEF Pairs!Step, Pairs!AfterStep
<1>2. PairTypes /\ Pushes /\ WrenchOfThePair /\ StepsBooked
  BY DEF PairInv
<1>3. /\ pSteps' \in [Pairs!Strata -> 0..EpisodeCap] /\ pLast' \in Pairs!Strata
      /\ ~active => pSteps' = pSteps /\ pLast' = pLast
  BY <1>2, PairCapture DEF Pairs!Step, Pairs!Capture, PairTypes
<1>4. pSince' \in 0..Pairs!Never
  <2>1. pSince + 1 \in Int /\ Pairs!Never \in Int /\ pSince \in 0..Pairs!Never
    BY <1>2 DEF PairTypes, Pairs!Never
  <2>2. /\ pSince' \in {pSince + 1, Pairs!Never}
        /\ pSince' <= pSince + 1 /\ pSince' <= Pairs!Never
    BY <1>1, <2>1, PairMinMax, Zenon
  <2> QED BY <2>1, <2>2
<1>5. pRemaining \in Nat /\ pRemaining' \in Nat /\ (pRemaining >= 1 => pRemaining' = pRemaining - 1)
  <2>1. pRemaining \in Nat /\ pRemaining - 1 \in Int /\ 0 \in Int
    BY <1>2 DEF PairTypes
  <2>2. /\ pRemaining' \in {pRemaining - 1, 0}
        /\ pRemaining' >= pRemaining - 1 /\ pRemaining' >= 0
    BY <1>1, <2>1, PairMinMax, Zenon
  <2> QED BY <2>1, <2>2
<1>6. PairTypes'
  BY <1>1, <1>2, <1>3, <1>4, <1>5 DEF PairTypes
<1>7. Crossover' /\ Recorded'
  BY <1>1, RecordsStay, CrossoverStays
<1>8. Pushes'
  <2>1. OnSchedule => OnSchedule'
    <3>1. Len(pSeen) \in Nat /\ (pSeen # <<>> => Len(pSeen) - 1 \in Nat) /\ pLength \in Nat
      <4>1. pSeen \in Seq(Pairs!Draws) /\ pLength \in 0..EpisodeCap
        BY <1>2 DEF PairTypes
      <4> QED BY <4>1, EmptySeq
    <3>2. PushAge(Len(pSeen)) \in Nat /\ (pSeen # <<>> => PushAge(Len(pSeen) - 1) \in Nat)
      BY <3>1, PushAges
    <3>3. ASSUME OnSchedule
          PROVE  /\ pLength' <= PushAge(Len(pSeen))
                 /\ pSeen # <<>> => pLength' > PushAge(Len(pSeen) - 1)
      BY <1>1, <3>1, <3>2, <3>3 DEF OnSchedule
    <3> QED BY <1>1, <3>3 DEF OnSchedule, PushAge
  <2> QED BY <1>1, <1>2, <2>1 DEF Pushes
<1>9. WrenchOfThePair'
  <2> SUFFICES ASSUME pWrench # <<>> PROVE WrenchOfThePair'
    BY <1>1 DEF WrenchOfThePair
  <2>1. pWorn \in Nat /\ pRemaining >= 1
    BY <1>1, <1>2 DEF WrenchOfThePair, PairTypes
  <2>2. pWorn' + pRemaining' = pWorn + pRemaining
    BY <1>1, <1>5, <2>1
  <2> QED BY <1>1, <1>2, <2>2 DEF WrenchOfThePair
<1>10. StepsBooked'
  <2>1. pLength \in 0..EpisodeCap
    BY <1>2 DEF PairTypes
  <2>2. CASE active
    BY <1>1, <2>1, <2>2, PairCapture DEF StepsBooked
  <2>3. CASE ~active
    BY <1>1, <2>3 DEF StepsBooked
  <2> QED BY <2>2, <2>3
<1> QED BY <1>6, <1>7, <1>8, <1>9, <1>10 DEF PairInv

\* The rows of an episode whose steps are booked.
LEMMA RowsAreBooked ==
  ASSUME PairInv, pPc = "finish", active,
         NEW e, e = [pair |-> pair, arm |-> arm, length |-> pLength,
                     strata |-> Pairs!StrataRecords, seen |-> pSeen]
  PROVE  Strata(e)
<1> USE PairConstants
<1> DEFINE Row(s) == [stratum |-> s, steps |-> pSteps[s], cause |-> s = pLast]
<1>1. /\ pSteps \in [Pairs!Strata -> 0..EpisodeCap] /\ pLast \in Pairs!Strata
      /\ pSteps["startup"] + pSteps["sustained"] + pSteps["recovery"] = pLength
      /\ pSeen = <<>> => pSteps["recovery"] = 0
      /\ pSeen # <<>> => pSteps["recovery"] > 0
      /\ pSteps[pLast] > 0 /\ Pairs!Strata = {"startup", "sustained", "recovery"}
  BY DEF PairInv, PairTypes, StepsBooked, Pairs!Strata
<1>2. e.strata = {Row(s) : s \in {t \in Pairs!Strata : pSteps[t] > 0}} /\ e.length = pLength /\ e.seen = pSeen
  BY DEF Pairs!StrataRecords
<1>3. /\ \A s : Row(s).stratum = s /\ Row(s).steps = pSteps[s] /\ (Row(s).cause <=> s = pLast)
      /\ \A r \in e.strata : \E s \in Pairs!Strata : pSteps[s] > 0 /\ r = Row(s)
      /\ \A s \in Pairs!Strata : pSteps[s] > 0 => Row(s) \in e.strata
  BY <1>2
<1> HIDE DEF Row
<1>4. \A r, q \in e.strata : r.stratum = q.stratum => r = q
  BY <1>3
<1>5. ASSUME NEW s \in Pairs!Strata PROVE Pairs!StepsIn(e, s) = pSteps[s]
  <2> DEFINE rows == {row \in e.strata : row.stratum = s}
  <2>1. Pairs!StepsIn(e, s) = IF rows = {} THEN 0 ELSE (CHOOSE row \in rows : TRUE).steps
    BY Zenon DEF Pairs!StepsIn
  <2>2. \A row \in rows : row = Row(s) /\ pSteps[s] > 0
    BY <1>3
  <2>3. pSteps[s] > 0 => Row(s) \in rows
    BY <1>3
  <2> HIDE DEF rows
  <2>4. CASE rows = {}
    BY <1>1, <2>1, <2>3, <2>4
  <2>5. CASE rows # {}
    <3>1. (CHOOSE row \in rows : TRUE) \in rows
      BY <2>5
    <3>2. (CHOOSE row \in rows : TRUE) = Row(s)
      BY <2>2, <3>1
    <3> QED BY <1>3, <2>1, <2>5, <3>2
  <2> QED BY <2>4, <2>5
<1>6. Pairs!StepsIn(e, "startup") + Pairs!StepsIn(e, "sustained") + Pairs!StepsIn(e, "recovery") = e.length
  BY <1>1, <1>2, <1>5
<1>7. (\E row \in e.strata : row.stratum = "recovery") <=> e.seen # <<>>
  <2>1. (\E row \in e.strata : row.stratum = "recovery") <=> pSteps["recovery"] > 0
    BY <1>1, <1>3
  <2> QED BY <1>1, <1>2, <2>1
<1>8. {row \in e.strata : row.cause} = {Row(pLast)}
  <2>1. ASSUME NEW row \in e.strata, row.cause PROVE row = Row(pLast)
    BY <1>3, <2>1
  <2>2. Row(pLast) \in e.strata /\ Row(pLast).cause
    BY <1>1, <1>3
  <2> QED BY <2>1, <2>2, Zenon
<1>9. Pairs!Cardinality({Row(pLast)}) = 1
  <2>1. Pairs!Cardinality({Row(pLast)}) = Cardinality({Row(pLast)})
    BY Zenon DEF Pairs!Cardinality, Cardinality
  <2> QED BY <2>1, FS_Singleton
<1> QED BY <1>4, <1>6, <1>7, <1>8, <1>9 DEF Strata

LEMMA PairFinish == ASSUME PairInv, Pairs!Finish PROVE PairInv'
<1> USE PairConstants
<1>1. /\ pPc = "finish" /\ pPc' = "before" /\ UNCHANGED <<duration, others>>
      /\ pWrench' = <<>> /\ pRemaining' = 0 /\ pLength' = 0 /\ pSince' = Pairs!Never
      /\ pSteps' = Pairs!NoSteps /\ pLast' = "startup" /\ pWorn' = 0 /\ pSeen' = <<>>
  BY DEF Pairs!Finish, Pairs!Clear
<1>2. PairTypes /\ Crossover /\ Recorded
  BY DEF PairInv
<1>3. Pushes' /\ WrenchOfThePair'
  <2>1. PushAge(0) \in Nat
    BY PushAges
  <2>2. Len(pSeen') = 0
    BY <1>1
  <2>3. OnSchedule'
    BY <1>1, <2>1, <2>2 DEF OnSchedule, PushAge
  <2> QED BY <1>1, <2>2, <2>3 DEF Pushes, WrenchOfThePair
<1>4. StepsBooked'
  BY <1>1 DEF StepsBooked, Pairs!NoSteps, Pairs!Strata
<1>5. arm' \in Pairs!Arms /\ pair' \in 0..PairsPerEnv - 1 /\ counts' \in [Pairs!Arms -> 0..PairsPerEnv]
        => PairTypes'
  BY <1>1, <1>2, EmptySeq DEF PairTypes, Pairs!NoSteps, Pairs!Never, Pairs!Strata
<1>6. CASE ~active
  <2>1. UNCHANGED <<pEpisodes, counts, active, arm, pair>>
    BY <1>6 DEF Pairs!Finish
  <2>2. Crossover' /\ Recorded'
    BY <1>1, <2>1, RecordsStay, CrossoverStays
  <2>3. PairTypes'
    BY <1>2, <1>5, <2>1 DEF PairTypes
  <2> QED BY <1>3, <1>4, <2>2, <2>3 DEF PairInv
<1>7. CASE active
  <2> DEFINE e == [pair |-> pair, arm |-> arm, length |-> pLength,
                   strata |-> Pairs!StrataRecords, seen |-> pSeen]
             done == [counts EXCEPT ![arm] = @ + 1]
             other == Pairs!Other(arm)
  <2>1. /\ pEpisodes' = pEpisodes \cup {e} /\ counts' = done
        /\ IF \A a \in Pairs!Arms : done[a] >= PairsPerEnv
           THEN active' = FALSE /\ UNCHANGED <<arm, pair>>
           ELSE active' = active /\ arm' = other /\ pair' = done[arm']
    BY <1>7 DEF Pairs!Finish, Pairs!Record, Pairs!Switch
  <2>2. /\ arm \in Pairs!Arms /\ other \in Pairs!Arms /\ other # arm
        /\ \A b \in Pairs!Arms : b = arm \/ b = other
        /\ counts \in [Pairs!Arms -> 0..PairsPerEnv] /\ pair \in 0..PairsPerEnv - 1
        /\ pair = counts[arm] /\ counts[other] \in {pair, pair + 1}
    BY <1>2, <1>7, OtherArm DEF PairTypes, Crossover
  <2>3. Strata(e) /\ e.pair = pair /\ e.arm = arm /\ e.seen = pSeen
    BY <1>1, <1>7, RowsAreBooked
  <2> HIDE DEF e, done, other
  <2>4. /\ done \in [Pairs!Arms -> 0..PairsPerEnv]
        /\ done[arm] = pair + 1 /\ done[other] = counts[other]
    <3>1. counts[arm] + 1 \in 0..PairsPerEnv
      BY <2>2
    <3> QED BY <2>2, <3>1 DEF done
  <2>5. Recorded'
    <3>1. pSeen \in Seq(Pairs!Draws) /\ \A i \in 1..Len(pSeen) : pSeen[i] = <<pair, i - 1>>
      BY DEF PairInv, PairTypes, Pushes
    <3>2. \A g \in pEpisodes' : g \in pEpisodes \/ g = e
      BY <2>1
    <3>3. /\ e.seen \in Seq(Pairs!Draws) /\ \A i \in 1..Len(e.seen) : e.seen[i] = <<e.pair, i - 1>>
          /\ Strata(e)
      BY <2>3, <3>1
    <3>4. ASSUME NEW g \in pEpisodes'
          PROVE  /\ g.seen \in Seq(Pairs!Draws)
                 /\ \A i \in 1..Len(g.seen) : g.seen[i] = <<g.pair, i - 1>>
                 /\ Strata(g)
      BY <1>2, <3>2, <3>3 DEF Recorded
    <3>5. \A g : Strata(g)' <=> Strata(g)
      BY DEF Strata, Pairs!StepsIn
    <3>6. Pairs!Draws' = Pairs!Draws
      BY DEF Pairs!Draws
    <3> QED BY <3>4, <3>5, <3>6, Zenon DEF Recorded
  <2>6. /\ \A g \in pEpisodes : g.arm \in Pairs!Arms /\ g.pair \in 0..counts[g.arm] - 1
        /\ \A a \in Pairs!Arms : \A p \in 0..counts[a] - 1 :
             \E g \in pEpisodes : g.pair = p /\ g.arm = a
        /\ \A f, g \in pEpisodes : f.pair = g.pair /\ f.arm = g.arm => f = g
    BY <1>2 DEF Crossover
  <2>7. \A g \in pEpisodes : g.arm = arm => g.pair # pair
    BY <2>2, <2>6
  <2>8. \A f, g \in pEpisodes' : f.pair = g.pair /\ f.arm = g.arm => f = g
    BY <2>1, <2>3, <2>6, <2>7
  <2>9. \A g \in pEpisodes' : g.arm \in Pairs!Arms /\ g.pair \in 0..counts'[g.arm] - 1
    <3>1. e.arm \in Pairs!Arms /\ e.pair \in 0..counts'[e.arm] - 1
      BY <2>1, <2>2, <2>3, <2>4
    <3>2. ASSUME NEW g \in pEpisodes PROVE g.arm \in Pairs!Arms /\ g.pair \in 0..counts'[g.arm] - 1
      <4>1. g.arm \in Pairs!Arms /\ g.pair \in 0..counts[g.arm] - 1
        BY <2>6
      <4>2. counts'[g.arm] \in Nat /\ counts[g.arm] \in Nat /\ counts[g.arm] <= counts'[g.arm]
        BY <2>1, <2>2, <2>4, <4>1
      <4> QED BY <4>1, <4>2
    <3> QED BY <2>1, <3>1, <3>2
  <2>10. ASSUME NEW a \in Pairs!Arms, NEW p \in 0..counts'[a] - 1
         PROVE  \E g \in pEpisodes' : g.pair = p /\ g.arm = a
    <3>1. CASE a = arm /\ p = pair
      BY <2>1, <2>3, <3>1
    <3>2. CASE ~(a = arm /\ p = pair)
      <4>1. p \in 0..counts[a] - 1
        BY <2>1, <2>2, <2>4, <3>2
      <4> QED BY <2>1, <2>6, <4>1
    <3> QED BY <3>1, <3>2
  <2>11. CASE \A a \in Pairs!Arms : done[a] >= PairsPerEnv
    <3>1. ~active' /\ UNCHANGED <<arm, pair>>
      BY <2>1, <2>11
    <3>2. \A a \in Pairs!Arms : counts'[a] = PairsPerEnv
      BY <2>1, <2>4, <2>11
    <3>3. Crossover'
      BY <2>8, <2>9, <2>10, <3>1, <3>2 DEF Crossover
    <3>4. PairTypes'
      BY <1>5, <2>1, <2>2, <2>4, <3>1
    <3> QED BY <1>3, <1>4, <2>5, <3>3, <3>4 DEF PairInv
  <2>12. CASE ~(\A a \in Pairs!Arms : done[a] >= PairsPerEnv)
    <3>1. active' /\ arm' = other /\ pair' = counts[other]
      BY <1>7, <2>1, <2>4, <2>12
    <3>2. Pairs!Other(arm') = arm /\ Pairs!Other(arm)' = Pairs!Other(arm')
      BY <2>2, <3>1, OtherArm DEF Pairs!Other, Pairs!Arms
    <3>3. pair' # PairsPerEnv
      <4>1. SUFFICES ASSUME counts[other] = PairsPerEnv PROVE FALSE
        BY <3>1
      <4>2. done[arm] = PairsPerEnv /\ done[other] = PairsPerEnv
        BY <2>2, <2>4, <4>1
      <4> QED BY <2>2, <2>12, <4>2
    <3>4. pair' \in 0..PairsPerEnv - 1
      BY <2>2, <3>1, <3>3
    <3>5. counts'[arm'] = pair' /\ counts'[Pairs!Other(arm')] \in {pair', pair' + 1}
      BY <2>1, <2>2, <2>4, <3>1, <3>2
    <3>6. Crossover'
      BY <1>1, <2>8, <2>9, <2>10, <3>1, <3>2, <3>5 DEF Crossover
    <3>7. PairTypes'
      BY <1>5, <2>1, <2>2, <2>4, <3>1, <3>4
    <3> QED BY <1>3, <1>4, <2>5, <3>6, <3>7 DEF PairInv
  <2> QED BY <2>11, <2>12
<1> QED BY <1>6, <1>7

LEMMA PairElse ==
  ASSUME PairInv, Pairs!OthersFinish \/ Pairs!Stop \/ UNCHANGED pairVars
  PROVE  PairInv'
<1>1. UNCHANGED <<duration, arm, pair, counts, active, pLength, pSince, pWrench, pRemaining,
                  pSteps, pLast, pEpisodes, pWorn, pSeen>>
  BY DEF Pairs!OthersFinish, Pairs!Stop, pairVars
<1>2. pPc' = pPc \/ (pPc = "before" /\ pPc' = "end" /\ ~active)
  BY DEF Pairs!OthersFinish, Pairs!Stop, pairVars
<1>3. PairTypes'
  BY <1>1, <1>2 DEF PairInv, PairTypes
<1>4. Crossover' /\ Recorded'
  BY <1>1, <1>2, RecordsStay DEF PairInv, Crossover
<1>5. Pushes' /\ WrenchOfThePair'
  BY <1>1, <1>2 DEF PairInv, Pushes, OnSchedule, WrenchOfThePair
<1>6. StepsBooked'
  BY <1>1, <1>2 DEF PairInv, StepsBooked
<1> QED BY <1>3, <1>4, <1>5, <1>6 DEF PairInv

LEMMA PairNext == PairInv /\ [Pairs!Next]_pairVars => PairInv'
BY PairBefore, PairStep, PairFinish, PairElse DEF Pairs!Next

LEMMA PairConclusion == PairInv => PairsAreComparable
<1> SUFFICES ASSUME PairInv PROVE PairsAreComparable
  OBVIOUS
<1> USE PairConstants
<1>0. PairTypes /\ Crossover /\ Pushes /\ WrenchOfThePair /\ Recorded
  BY DEF PairInv
<1>1. Pairs!TypeOK
  BY <1>0 DEF PairTypes, Pairs!TypeOK
<1>2. Pairs!PairsAreComplete
  <2>1. ASSUME pPc = "end"
        PROVE  {<<e.pair, e.arm>> : e \in pEpisodes} = (0..PairsPerEnv - 1) \X Pairs!Arms
    <3>1. \A a \in Pairs!Arms : counts[a] = PairsPerEnv
      BY <1>0, <2>1 DEF Crossover
    <3>2. \A e \in pEpisodes : <<e.pair, e.arm>> \in (0..PairsPerEnv - 1) \X Pairs!Arms
      BY <1>0, <3>1 DEF Crossover
    <3>3. ASSUME NEW p \in 0..PairsPerEnv - 1, NEW a \in Pairs!Arms
          PROVE  \E e \in pEpisodes : <<e.pair, e.arm>> = <<p, a>>
      BY <1>0, <3>1 DEF Crossover
    <3> QED BY <3>2, <3>3
  <2> QED BY <1>0, <2>1 DEF Crossover, Pairs!PairsAreComplete
<1>3. Pairs!SameSchedule
  <2>1. ASSUME NEW e \in pEpisodes, NEW g \in pEpisodes, e.pair = g.pair, Len(e.seen) <= Len(g.seen)
        PROVE  Pairs!IsPrefix(e.seen, g.seen)
    <3> DEFINE s == e.seen
               t == g.seen
               n == Len(s)
    <3>1. /\ s \in Seq(Pairs!Draws) /\ t \in Seq(Pairs!Draws)
          /\ \A i \in 1..Len(s) : s[i] = <<e.pair, i - 1>>
          /\ \A i \in 1..Len(t) : t[i] = <<e.pair, i - 1>>
      BY <1>0, <2>1 DEF Recorded
    <3>2. n <= Len(t)
      BY <2>1
    <3> HIDE DEF s, t
    <3>3. n \in Nat /\ \A i \in 1..n : i \in 1..Len(t) /\ s[i] = t[i]
      <4>1. n \in Nat /\ Len(t) \in Nat
        BY <3>1
      <4> HIDE DEF n
      <4>2. \A i \in 1..n : i \in 1..Len(t)
        BY <3>2, <4>1
      <4> QED BY <3>1, <4>1, <4>2, Zenon DEF n
    <3>4. SubSeq(s, 1, n) = [i \in 1..n |-> s[i]] /\ SubSeq(t, 1, n) = [i \in 1..n |-> t[i]]
      BY <3>1, <3>2, <3>3
    <3>5. SubSeq(s, 1, n) = SubSeq(t, 1, n)
      BY <3>3, <3>4
    <3> QED BY <3>2, <3>5 DEF Pairs!IsPrefix, s, t
  <2>2. ASSUME NEW e \in pEpisodes PROVE Len(e.seen) \in Nat
    BY <1>0 DEF Recorded
  <2>3. ASSUME NEW e \in pEpisodes, NEW g \in pEpisodes
        PROVE  Len(e.seen) <= Len(g.seen) \/ Len(g.seen) <= Len(e.seen)
    BY <2>2
  <2> QED BY <2>1, <2>3 DEF Pairs!SameSchedule
<1>4. Pairs!StrataPartitionEpisodes /\ Pairs!CauseIsBookedOnce
  BY <1>0, Zenon DEF Recorded, Strata, Pairs!StrataPartitionEpisodes, Pairs!CauseIsBookedOnce
<1>5. Pairs!WrenchIsThePairs
  <2>1. SUFFICES ASSUME pWrench # <<>>
                 PROVE  /\ active /\ pSeen # <<>> /\ pWrench[1] = pair /\ pWrench = Pairs!Last(pSeen)
                        /\ pWorn + pRemaining = (duration[pWrench] + 1) \div 2
    BY DEF Pairs!WrenchIsThePairs
  <2>2. /\ active /\ pSeen # <<>> /\ pWrench = pSeen[Len(pSeen)]
        /\ pWorn + pRemaining = (duration[pWrench] + 1) \div 2
    BY <1>0, <2>1 DEF WrenchOfThePair
  <2>3. Len(pSeen) \in 1..Len(pSeen)
    BY <1>0, <2>2, EmptySeq DEF PairTypes
  <2>4. pWrench = <<pair, Len(pSeen) - 1>>
    BY <1>0, <2>2, <2>3 DEF Pushes
  <2> QED BY <2>2, <2>4 DEF Pairs!Last
<1> QED BY <1>1, <1>2, <1>3, <1>4, <1>5 DEF PairsAreComparable

-----------------------------------------------------------------------------
(* The fixed cohort. *)

\* The sums, the frames and the part of the sums behind the skipped window are those of the
\* steps of the running episode.
CohortTypes ==
  /\ skip \in Skips
  /\ cLength \in [Cohort!Envs -> 0..ComparisonCap - 1]
  /\ sums = cLength /\ frames = cLength
  /\ skipSums = [e \in Cohort!Envs |-> IF skip > 0 /\ cLength[e] >= skip THEN skip ELSE 0]
  /\ counter \in [Cohort!Envs -> 0..Deadline] /\ cSteps \in 0..Deadline
  /\ \A e \in Cohort!Envs : counter[e] <= cSteps
  /\ cPc \in {"run", "close", "raised", "end"} /\ failed \in BOOLEAN

\* Without a skipped window every finished episode is recorded.
CohortEpisodes ==
  /\ \A x \in cEpisodes :
       /\ x.env \in Cohort!Envs /\ x.nth \in 0..counter[x.env] - 1
       /\ x.length \in 1..ComparisonCap /\ x.reward = x.length
  /\ skip = 0 => \A e \in Cohort!Envs : \A n \in 0..counter[e] - 1 :
                   \E x \in cEpisodes : x.env = e /\ x.nth = n

Callbacks == {"env"} \cup STRING
Opened == <<"env">> \o Terms

\* What has been closed is what was opened last.
Unwinding ==
  /\ cleanup \in Seq(Callbacks) /\ closed \in Seq(Callbacks)
  /\ Len(cleanup) + Len(closed) = Len(Opened)
  /\ \A i \in 1..Len(cleanup) : cleanup[i] = Opened[i]
  /\ \A i \in 1..Len(closed) : closed[i] = Opened[Len(Opened) + 1 - i]
  /\ cPc \in {"raised", "end"} => cleanup = <<>>

Reported ==
  /\ report # {} => cPc = "end"
  /\ report \subseteq cEpisodes
  /\ Cohort!FirstKOfEveryEnv /\ Cohort!SurvivorsAreWaitedFor

CohortInv == CohortTypes /\ CohortEpisodes /\ Unwinding /\ Reported

\* A sequence without its last element.
LEMMA FrontOf ==
  ASSUME NEW S, NEW s \in Seq(S), s # <<>>
  PROVE  LET t == SubSeq(s, 1, Len(s) - 1) IN
         /\ t \in Seq(S) /\ Len(t) = Len(s) - 1 /\ Len(s) \in Nat \ {0}
         /\ \A i \in 1..Len(s) - 1 : t[i] = s[i]
<1>1. Len(s) \in Nat \ {0}
  OBVIOUS
<1> DEFINE n == Len(s) - 1
<1>2. n \in Int /\ 1 \in Int /\ \A i \in 1..n : s[i] \in S
  BY <1>1, ElementOfSeq
<1>4. n \in Nat /\ n = Len(s) - 1
  BY <1>1
<1> HIDE DEF n
<1>3. /\ SubSeq(s, 1, n) \in Seq(S)
      /\ Len(SubSeq(s, 1, n)) = IF 1 <= n THEN n - 1 + 1 ELSE 0
      /\ \A i \in 1..n - 1 + 1 : SubSeq(s, 1, n)[i] = s[1 + i - 1]
  BY <1>2, SubSeqProperties
<1>5. \A i \in 1..n : 1 + i - 1 = i
  OBVIOUS
<1>6. Len(SubSeq(s, 1, n)) = n /\ n - 1 + 1 = n
  BY <1>3, <1>4
<1>7. \A i \in 1..n : SubSeq(s, 1, n)[i] = s[i]
  BY <1>3, <1>5, <1>6
<1> QED BY <1>1, <1>3, <1>4, <1>6, <1>7

LEMMA CohortConstants ==
  /\ NumEnvs \in Nat \ {0, 1} /\ Skips \subseteq Nat
  /\ ComparisonCap \in Nat \ {0} /\ Deadline \in Nat \ {0}
  /\ Terms \in Seq(STRING \ {"env"})
BY SuiteAssumption DEF Cohort!CohortAssumption

LEMMA OpenedIs ==
  /\ Opened \in Seq(Callbacks) /\ Len(Opened) = Len(Terms) + 1 /\ Len(Terms) \in Nat
  /\ Opened[1] = "env"
  /\ \A i \in 1..Len(Terms) : Opened[i + 1] = Terms[i] /\ Terms[i] # "env"
<1>1. Terms \in Seq(STRING \ {"env"}) /\ STRING \ {"env"} \subseteq Callbacks
  BY CohortConstants, Zenon DEF Callbacks
<1>2. Terms \in Seq(Callbacks) /\ Len(Terms) \in Nat
  <2>1. Terms \in Seq(Callbacks)
    BY <1>1, SeqMonotonic, Zenon
  <2> QED BY <2>1
<1>3. <<"env">> \in Seq(Callbacks) /\ Len(<<"env">>) = 1
  <2>1. "env" \in Callbacks
    BY Zenon DEF Callbacks
  <2>2. \A S : \A x \in S : <<x>> \in Seq(S) /\ Len(<<x>>) = 1
    OBVIOUS
  <2> QED BY <2>1, <2>2
<1>4. /\ Opened \in Seq(Callbacks) /\ Len(Opened) = 1 + Len(Terms)
      /\ \A i \in 1..1 + Len(Terms) :
           Opened[i] = IF i <= 1 THEN <<"env">>[i] ELSE Terms[i - 1]
  BY <1>2, <1>3 DEF Opened
<1>5. \A i \in 1..Len(Terms) : Opened[i + 1] = Terms[i]
  BY <1>2, <1>4
<1>6. \A i \in 1..Len(Terms) : Terms[i] \in STRING \ {"env"}
  BY <1>1, ElementOfSeq, Zenon
<1>7. \A i \in 1..Len(Terms) : Terms[i] # "env"
  BY <1>6, Zenon
<1> QED BY <1>2, <1>4, <1>5, <1>7

LEMMA CohortArms ==
  /\ \A ids \in Cohort!ArmIds : ids # {} /\ ids \subseteq Cohort!Envs
  /\ \A e \in Cohort!Envs : \E ids \in Cohort!ArmIds : e \in ids
  /\ \A a, b \in Cohort!ArmIds : \A e \in a \cap b : a = b
<1> USE CohortConstants
<1>1. NumEnvs \div 2 \in 1..NumEnvs - 1
  OBVIOUS
<1> DEFINE h == NumEnvs \div 2
<1> HIDE DEF h
<1>2. /\ Cohort!Envs = 0..NumEnvs - 1 /\ Cohort!PolicyIds = h..NumEnvs - 1
      /\ Cohort!ArmIds = {Cohort!Envs \ Cohort!PolicyIds, Cohort!PolicyIds}
      /\ h \in 1..NumEnvs - 1
  BY <1>1 DEF Cohort!Envs, Cohort!PolicyIds, Cohort!ArmIds, h
<1>3. 0 \in Cohort!Envs \ Cohort!PolicyIds /\ NumEnvs - 1 \in Cohort!PolicyIds
  BY <1>2
<1>4. Cohort!PolicyIds \subseteq Cohort!Envs
  BY <1>2
<1> QED BY <1>2, <1>3, <1>4

\* The least and the greatest of bounded integers.
LEMMA CohortLeast ==
  ASSUME NEW S, S # {}, NEW b \in Nat, S \subseteq -1..b
  PROVE  Cohort!Min(S) \in S /\ \A x \in S : Cohort!Min(S) <= x
<1> DEFINE T == {x + 1 : x \in S}
<1>1. T \subseteq Nat /\ T # {}
  <2>1. ASSUME NEW x \in S PROVE x + 1 \in Nat
    <3>1. x \in -1..b
      OBVIOUS
    <3> QED BY <3>1
  <2>2. T # {}
    OBVIOUS
  <2> QED BY <2>1, <2>2
<1>2. PICK t \in T : \A y \in T : t <= y
  BY <1>1, LeastNumber
<1>3. t - 1 \in S /\ \A x \in S : t - 1 <= x
  <2>1. PICK x \in S : t = x + 1
    BY <1>2
  <2>2. x \in Int /\ t - 1 = x
    BY <2>1
  <2>3. ASSUME NEW y \in S PROVE x <= y
    <3>1. t <= y + 1 /\ y \in Int
      BY <1>2
    <3> QED BY <2>1, <2>2, <3>1
  <2> QED BY <2>2, <2>3
<1> QED BY <1>3 DEF Cohort!Min

LEMMA CohortGreatest ==
  ASSUME NEW S, S # {}, NEW b \in Nat, S \subseteq -1..b
  PROVE  Cohort!Max(S) \in S /\ \A x \in S : Cohort!Max(S) >= x
<1> DEFINE T == {b - x : x \in S}
<1>1. T \subseteq Nat /\ T # {}
  <2>1. ASSUME NEW x \in S PROVE b - x \in Nat
    <3>1. x \in -1..b
      OBVIOUS
    <3> QED BY <3>1
  <2>2. T # {}
    OBVIOUS
  <2> QED BY <2>1, <2>2
<1>2. PICK t \in T : \A y \in T : t <= y
  BY <1>1, LeastNumber
<1>3. b - t \in S /\ \A x \in S : b - t >= x
  <2>1. PICK x \in S : t = b - x
    BY <1>2
  <2>2. x \in Int /\ b - t = x
    BY <2>1
  <2>3. ASSUME NEW y \in S PROVE x >= y
    <3>1. t <= b - y /\ y \in Int
      BY <1>2
    <3> QED BY <2>1, <2>2, <3>1
  <2> QED BY <2>2, <2>3
<1> QED BY <1>3 DEF Cohort!Max

Nths(e) == {x.nth : x \in {y \in cEpisodes : y.env = e}}
LastNth(e) == Cohort!Max({-1} \cup Nths(e))

\* An arm is trimmed to what its environment with the fewest episodes has.
LEMMA FewestIs ==
  ASSUME CohortInv, NEW ids \in Cohort!ArmIds
  PROVE  /\ \A e \in ids : /\ LastNth(e) \in {-1} \cup Nths(e) /\ LastNth(e) \in -1..Deadline
                           /\ \A n \in Nths(e) : n <= LastNth(e)
         /\ \E e \in ids : Cohort!FewestOf(ids) = LastNth(e) + 1
         /\ \A e \in ids : Cohort!FewestOf(ids) <= LastNth(e) + 1
         /\ Cohort!FewestOf(ids) \in Int
<1> USE CohortConstants
<1>1. ids # {} /\ ids \subseteq Cohort!Envs
  BY CohortArms
<1>2. ASSUME NEW e \in ids
      PROVE  /\ LastNth(e) \in {-1} \cup Nths(e) /\ LastNth(e) \in -1..Deadline
             /\ \A n \in Nths(e) : n <= LastNth(e)
  <2> DEFINE S == {-1} \cup Nths(e)
  <2>1. Nths(e) \subseteq 0..Deadline
    <3>1. ASSUME NEW x \in cEpisodes, x.env = e PROVE x.nth \in 0..Deadline
      <4>1. x.nth \in 0..counter[e] - 1 /\ counter[e] \in 0..Deadline
        BY <1>1, <3>1 DEF CohortInv, CohortEpisodes, CohortTypes
      <4> QED BY <4>1
    <3> QED BY <3>1 DEF Nths
  <2>2. S \subseteq -1..Deadline /\ S # {}
    BY <2>1
  <2> HIDE DEF S
  <2>3. Cohort!Max(S) \in S /\ \A x \in S : Cohort!Max(S) >= x
    BY <2>2, CohortGreatest
  <2> QED BY <2>1, <2>2, <2>3 DEF S, LastNth
<1> DEFINE M == {LastNth(e) : e \in ids}
<1>3. M # {} /\ M \subseteq -1..Deadline
  BY <1>1, <1>2
<1>4. Cohort!FewestOf(ids) = Cohort!Min(M) + 1
  BY DEF Cohort!FewestOf, LastNth, Nths
<1> HIDE DEF M
<1>5. Cohort!Min(M) \in M /\ \A x \in M : Cohort!Min(M) <= x
  BY <1>3, CohortLeast
<1>6. PICK e \in ids : Cohort!Min(M) = LastNth(e)
  BY <1>5 DEF M
<1>7. \A d \in ids : Cohort!Min(M) <= LastNth(d)
  BY <1>5 DEF M
<1> QED BY <1>2, <1>4, <1>6, <1>7

LEMMA CohortStarts == QualificationInit => CohortInv
<1> SUFFICES ASSUME QualificationInit PROVE CohortInv
  OBVIOUS
<1> USE CohortConstants
<1>1. /\ skip \in Skips /\ skip \in Nat
      /\ cLength = [e \in Cohort!Envs |-> 0] /\ sums = cLength /\ frames = cLength
      /\ skipSums = cLength /\ counter = cLength
      /\ cEpisodes = {} /\ cSteps = 0 /\ cleanup = Opened /\ closed = <<>>
      /\ failed = FALSE /\ cPc = "run" /\ report = {}
  BY DEF QualificationInit, Cohort!Init, Cohort!Zero, Opened
<1>2. CohortTypes
  <2>1. failed \in BOOLEAN
    BY <1>1
  <2>2. skipSums = [e \in Cohort!Envs |-> IF skip > 0 /\ cLength[e] >= skip THEN skip ELSE 0]
    BY <1>1
  <2>3. /\ cLength \in [Cohort!Envs -> 0..ComparisonCap - 1]
        /\ counter \in [Cohort!Envs -> 0..Deadline] /\ cSteps \in 0..Deadline
        /\ \A e \in Cohort!Envs : counter[e] <= cSteps
    BY <1>1
  <2> QED BY <1>1, <2>1, <2>2, <2>3 DEF CohortTypes
<1>3. CohortEpisodes
  <2>1. \A e \in Cohort!Envs : \A n \in 0..counter[e] - 1 : FALSE
    BY <1>1
  <2> QED BY <1>1, <2>1 DEF CohortEpisodes
<1>4. Unwinding
  <2>1. <<>> \in Seq(Callbacks) /\ Len(<<>>) = 0
    OBVIOUS
  <2>2. \A i \in 1..Len(<<>>) : FALSE
    BY <2>1
  <2> QED BY <1>1, <2>1, <2>2, OpenedIs DEF Unwinding
<1>5. Reported
  BY <1>1 DEF Reported, Cohort!FirstKOfEveryEnv, Cohort!SurvivorsAreWaitedFor
<1> QED BY <1>2, <1>3, <1>4, <1>5 DEF CohortInv

LEMMA CohortSteps == CohortInv /\ Cohort!Step => CohortInv'
<1> SUFFICES ASSUME CohortInv, Cohort!Step PROVE CohortInv'
  OBVIOUS
<1> USE CohortConstants
<1>1. PICK done \in SUBSET Cohort!Envs :
        /\ \A e \in Cohort!Envs : cLength[e] + 1 = ComparisonCap => e \in done
        /\ cEpisodes' = cEpisodes \cup {Cohort!Episode(e) : e \in Cohort!Scored(done)}
        /\ counter' =
             [e \in Cohort!Envs |-> IF e \in done THEN counter[e] + 1 ELSE counter[e]]
        /\ skipSums' =
             [e \in Cohort!Envs |-> IF e \in done THEN 0 ELSE Cohort!Captured[e]]
        /\ cLength' = [e \in Cohort!Envs |-> IF e \in done THEN 0 ELSE cLength[e] + 1]
        /\ sums' = [e \in Cohort!Envs |-> IF e \in done THEN 0 ELSE sums[e] + 1]
        /\ frames' = [e \in Cohort!Envs |-> IF e \in done THEN 0 ELSE frames[e] + 1]
  BY DEF Cohort!Step, Cohort!ResetDone
<1>2. /\ cPc = "run" /\ cSteps < Deadline /\ cSteps' = cSteps + 1
      /\ skip' = skip /\ cleanup' = cleanup /\ closed' = closed /\ failed' = failed
      /\ cPc' = cPc /\ report' = report
  BY DEF Cohort!Step
<1>3. CohortTypes /\ CohortEpisodes /\ Unwinding /\ Reported
  BY DEF CohortInv
<1>4. /\ skip \in Nat /\ cSteps \in Nat
      /\ \A e \in Cohort!Envs :
           /\ cLength[e] \in 0..ComparisonCap - 1 /\ sums[e] = cLength[e]
           /\ counter[e] \in 0..Deadline /\ counter[e] <= cSteps
           /\ skipSums[e] = IF skip > 0 /\ cLength[e] >= skip THEN skip ELSE 0
           /\ Cohort!Captured[e] =
                IF skip > 0 /\ cLength[e] + 1 = skip THEN cLength[e] + 1 ELSE skipSums[e]
  BY <1>3 DEF CohortTypes, Cohort!Captured
<1>5. CohortTypes'
  <2>1. cLength' \in [Cohort!Envs -> 0..ComparisonCap - 1]
    <3>1. \A e \in Cohort!Envs \ done : cLength[e] + 1 \in 0..ComparisonCap - 1
      BY <1>1, <1>4
    <3> QED BY <1>1, <3>1
  <2>2. sums' = cLength' /\ frames' = cLength'
    BY <1>1, <1>3 DEF CohortTypes
  <2>3. skipSums' =
          [e \in Cohort!Envs |-> IF skip > 0 /\ cLength'[e] >= skip THEN skip ELSE 0]
    <3>1. \A e \in Cohort!Envs :
            (IF e \in done THEN 0 ELSE Cohort!Captured[e])
              = IF skip > 0 /\ cLength'[e] >= skip THEN skip ELSE 0
      BY <1>1, <1>4
    <3> QED BY <1>1, <3>1
  <2>4. /\ counter' \in [Cohort!Envs -> 0..Deadline] /\ cSteps' \in 0..Deadline
        /\ \A e \in Cohort!Envs : counter'[e] <= cSteps'
    <3>1. \A e \in Cohort!Envs :
            /\ counter[e] + 1 \in 0..Deadline /\ counter[e] + 1 <= cSteps + 1
            /\ counter[e] \in 0..Deadline /\ counter[e] <= cSteps + 1
      BY <1>2, <1>4
    <3>2. cSteps + 1 \in 0..Deadline
      BY <1>2, <1>4
    <3> QED BY <1>1, <1>2, <3>1, <3>2
  <2> QED BY <1>2, <1>3, <2>1, <2>2, <2>3, <2>4 DEF CohortTypes
<1>6. CohortEpisodes'
  <2>1. ASSUME NEW e \in Cohort!Scored(done)
        PROVE  LET x == Cohort!Episode(e) IN
               /\ x.env = e /\ x.env \in Cohort!Envs /\ e \in done /\ x.nth = counter[e]
               /\ x.length \in 1..ComparisonCap /\ x.reward = x.length
    <3>1. e \in done /\ e \in Cohort!Envs /\ cLength[e] + 1 > skip
      BY DEF Cohort!Scored
    <3>2. Cohort!Captured[e] = skip
      BY <1>4, <3>1
    <3>3. cLength[e] + 1 - skip \in 1..ComparisonCap
      BY <1>4, <3>1
    <3> QED BY <1>4, <3>1, <3>2, <3>3 DEF Cohort!Episode, Cohort!Snapshot
  <2>2. ASSUME NEW e \in Cohort!Envs
        PROVE  /\ counter[e] \in Nat /\ counter'[e] \in Nat
               /\ counter'[e] = IF e \in done THEN counter[e] + 1 ELSE counter[e]
    BY <1>1, <1>4
  <2>3. ASSUME NEW x \in cEpisodes'
        PROVE  /\ x.env \in Cohort!Envs /\ x.nth \in 0..counter'[x.env] - 1
               /\ x.length \in 1..ComparisonCap /\ x.reward = x.length
    <3>1. CASE x \in cEpisodes
      <4>1. /\ x.env \in Cohort!Envs /\ x.nth \in 0..counter[x.env] - 1
            /\ x.length \in 1..ComparisonCap /\ x.reward = x.length
        BY <1>3, <3>1 DEF CohortEpisodes
      <4>2. x.nth \in 0..counter'[x.env] - 1
        BY <2>2, <4>1
      <4> QED BY <4>1, <4>2
    <3>2. CASE x \notin cEpisodes
      <4>1. PICK e \in Cohort!Scored(done) : x = Cohort!Episode(e)
        BY <1>1, <3>2
      <4>2. /\ x.env = e /\ x.env \in Cohort!Envs /\ e \in done /\ x.nth = counter[e]
            /\ x.length \in 1..ComparisonCap /\ x.reward = x.length
        BY <2>1, <4>1
      <4>3. x.nth \in 0..counter'[x.env] - 1
        BY <2>2, <4>2
      <4> QED BY <4>2, <4>3
    <3> QED BY <3>1, <3>2
  <2>4. ASSUME skip = 0, NEW e \in Cohort!Envs, NEW n \in 0..counter'[e] - 1
        PROVE  \E x \in cEpisodes' : x.env = e /\ x.nth = n
    <3>1. CASE n \in 0..counter[e] - 1
      BY <1>1, <1>3, <2>4, <3>1 DEF CohortEpisodes
    <3>2. CASE n \notin 0..counter[e] - 1
      <4>1. e \in done /\ n = counter[e]
        BY <2>2, <3>2
      <4>2. e \in Cohort!Scored(done)
        BY <1>4, <2>4, <4>1 DEF Cohort!Scored
      <4>3. Cohort!Episode(e) \in cEpisodes'
        BY <1>1, <4>2
      <4> QED BY <2>1, <4>1, <4>2, <4>3
    <3> QED BY <3>1, <3>2
  <2> QED BY <1>2, <2>3, <2>4 DEF CohortEpisodes
<1>7. Unwinding'
  BY <1>2, <1>3 DEF Unwinding, Opened
<1>8. Reported'
  <2>1. report' = {}
    BY <1>2, <1>3 DEF Reported
  <2> QED BY <2>1 DEF Reported, Cohort!FirstKOfEveryEnv, Cohort!SurvivorsAreWaitedFor
<1> QED BY <1>5, <1>6, <1>7, <1>8 DEF CohortInv

\* The steps behind the deadline leave what the batch has recorded.
LEMMA CohortKeeps ==
  ASSUME CohortInv, failed' \in BOOLEAN, cPc' \in {"run", "close", "raised", "end"},
         UNCHANGED <<skip, cLength, sums, frames, skipSums, counter, cEpisodes, cSteps>>
  PROVE  CohortTypes' /\ CohortEpisodes'
<1>1. CohortTypes'
  BY Zenon DEF CohortInv, CohortTypes
<1>2. CohortEpisodes'
  BY DEF CohortInv, CohortEpisodes
<1> QED BY <1>1, <1>2

LEMMA CohortUnreported ==
  ASSUME report' = {}
  PROVE  Reported'
BY DEF Reported, Cohort!FirstKOfEveryEnv, Cohort!SurvivorsAreWaitedFor

LEMMA CohortLeaves == CohortInv /\ Cohort!Leave => CohortInv'
<1> SUFFICES ASSUME CohortInv, Cohort!Leave PROVE CohortInv'
  OBVIOUS
<1>1. /\ cPc = "run" /\ cPc' = "close" /\ failed' \in BOOLEAN /\ cleanup' = cleanup
      /\ closed' = closed /\ report' = report
      /\ UNCHANGED <<skip, cLength, sums, frames, skipSums, counter, cEpisodes, cSteps>>
  BY DEF Cohort!Leave
<1>2. CohortTypes' /\ CohortEpisodes'
  <2>1. cPc' \in {"run", "close", "raised", "end"}
    BY <1>1
  <2> QED BY <1>1, <2>1, CohortKeeps, Zenon
<1>3. Unwinding'
  BY <1>1 DEF CohortInv, Unwinding, Opened
<1>4. Reported'
  <2>1. report' = {}
    BY <1>1 DEF CohortInv, Reported
  <2> QED BY <2>1, CohortUnreported
<1> QED BY <1>2, <1>3, <1>4 DEF CohortInv

LEMMA CohortCloses == CohortInv /\ Cohort!Close => CohortInv'
<1> SUFFICES ASSUME CohortInv, Cohort!Close PROVE CohortInv'
  OBVIOUS
<1>1. /\ cPc = "close" /\ cPc' = cPc /\ failed' \in {failed, TRUE} /\ cleanup # <<>>
      /\ cleanup' = SubSeq(cleanup, 1, Len(cleanup) - 1)
      /\ closed' = Append(closed, cleanup[Len(cleanup)]) /\ report' = report
      /\ UNCHANGED <<skip, cLength, sums, frames, skipSums, counter, cEpisodes, cSteps>>
  BY DEF Cohort!Close, Cohort!Front, Cohort!Last
<1>2. CohortTypes' /\ CohortEpisodes'
  <2>1. cPc' \in {"run", "close", "raised", "end"}
    BY <1>1
  <2>2. failed \in BOOLEAN
    BY Zenon DEF CohortInv, CohortTypes
  <2>3. failed' \in BOOLEAN
    BY <1>1, <2>2
  <2> QED BY <1>1, <2>1, <2>3, CohortKeeps, Zenon
<1>3. Unwinding'
  <2>1. /\ cleanup \in Seq(Callbacks) /\ closed \in Seq(Callbacks)
        /\ Len(cleanup) + Len(closed) = Len(Opened)
        /\ \A i \in 1..Len(cleanup) : cleanup[i] = Opened[i]
        /\ \A i \in 1..Len(closed) : closed[i] = Opened[Len(Opened) + 1 - i]
    BY DEF CohortInv, Unwinding
  <2>2. /\ Len(cleanup) \in Nat \ {0} /\ Len(closed) \in Nat
        /\ cleanup[Len(cleanup)] \in Callbacks
    BY <1>1, <2>1
  <2>3. /\ cleanup' \in Seq(Callbacks) /\ Len(cleanup') = Len(cleanup) - 1
        /\ \A i \in 1..Len(cleanup) - 1 : cleanup'[i] = cleanup[i]
    <3>1. cleanup' = SubSeq(cleanup, 1, Len(cleanup) - 1) /\ cleanup \in Seq(Callbacks)
      BY <1>1, <2>1
    <3>2. cleanup # <<>>
      BY <1>1
    <3> QED BY <3>1, <3>2, FrontOf, Zenon
  <2>4. /\ closed' \in Seq(Callbacks) /\ Len(closed') = Len(closed) + 1
        /\ \A i \in 1..Len(closed) : closed'[i] = closed[i]
        /\ closed'[Len(closed) + 1] = cleanup[Len(cleanup)]
    <3>1. /\ closed' = Append(closed, cleanup[Len(cleanup)])
          /\ closed \in Seq(Callbacks) /\ cleanup[Len(cleanup)] \in Callbacks
      BY <1>1, <2>1, <2>2
    <3>2. closed' # <<>> /\ closed' \in Seq(Callbacks)
      BY <3>1
    <3> QED BY <2>2, <3>1, <3>2
  <2>5. \A i \in 1..Len(cleanup') : cleanup'[i] = Opened[i]
    <3>1. \A i \in 1..Len(cleanup) - 1 : i \in 1..Len(cleanup)
      BY <2>2
    <3> QED BY <2>1, <2>3, <3>1
  <2>6. ASSUME NEW i \in 1..Len(closed') PROVE closed'[i] = Opened[Len(Opened) + 1 - i]
    <3>1. CASE i \in 1..Len(closed)
      BY <2>1, <2>4, <3>1
    <3>2. CASE i = Len(closed) + 1
      <4>1. Len(Opened) + 1 - i = Len(cleanup) /\ Len(cleanup) \in 1..Len(cleanup)
        BY <2>1, <2>2, <3>2
      <4> QED BY <2>1, <2>4, <3>2, <4>1
    <3> QED BY <2>2, <2>4, <3>1, <3>2
  <2>7. Opened' = Opened
    BY DEF Opened
  <2>8. Len(cleanup') + Len(closed') = Len(Opened)
    <3>1. /\ Len(cleanup') = Len(cleanup) - 1 /\ Len(closed') = Len(closed) + 1
          /\ Len(cleanup) \in Nat /\ Len(closed) \in Nat
          /\ Len(cleanup) + Len(closed) = Len(Opened)
      BY <2>1, <2>2, <2>3, <2>4
    <3> QED BY <3>1
  <2> QED BY <1>1, <2>3, <2>4, <2>5, <2>6, <2>7, <2>8 DEF Unwinding
<1>4. Reported'
  <2>1. report' = {}
    BY <1>1 DEF CohortInv, Reported
  <2> QED BY <2>1, CohortUnreported
<1> QED BY <1>2, <1>3, <1>4 DEF CohortInv

LEMMA CohortRaises == CohortInv /\ Cohort!Propagate => CohortInv'
<1> SUFFICES ASSUME CohortInv, Cohort!Propagate PROVE CohortInv'
  OBVIOUS
<1>1. /\ cPc = "close" /\ cPc' = "raised" /\ cleanup = <<>> /\ cleanup' = cleanup
      /\ closed' = closed /\ failed' = failed /\ report' = report
      /\ UNCHANGED <<skip, cLength, sums, frames, skipSums, counter, cEpisodes, cSteps>>
  BY DEF Cohort!Propagate
<1>2. CohortTypes' /\ CohortEpisodes'
  <2>1. cPc' \in {"run", "close", "raised", "end"}
    BY <1>1
  <2>2. failed' \in BOOLEAN
    BY <1>1, Zenon DEF CohortInv, CohortTypes
  <2> QED BY <1>1, <2>1, <2>2, CohortKeeps, Zenon
<1>3. Unwinding'
  BY <1>1 DEF CohortInv, Unwinding, Opened
<1>4. Reported'
  <2>1. report' = {}
    BY <1>1 DEF CohortInv, Reported
  <2> QED BY <2>1, CohortUnreported
<1> QED BY <1>2, <1>3, <1>4 DEF CohortInv

\* Without a skipped window an environment has one episode for each time it finished.
LEMMA CohortCounts ==
  ASSUME CohortInv, skip = 0, NEW ids \in Cohort!ArmIds
  PROVE  /\ \A e \in ids : Nths(e) = 0..counter[e] - 1 /\ counter[e] \in Nat
         /\ \A e \in ids : Cohort!FewestOf(ids) <= counter[e]
         /\ Cohort!FewestOf(ids) \in Nat
         /\ Cohort!Min({counter[e] : e \in ids}) = Cohort!FewestOf(ids)
<1> USE CohortConstants
<1>1. ids # {} /\ ids \subseteq Cohort!Envs
  BY CohortArms
<1>2. ASSUME NEW e \in ids
      PROVE  /\ Nths(e) = 0..counter[e] - 1 /\ counter[e] \in 0..Deadline
             /\ LastNth(e) = counter[e] - 1
  <2>1. e \in Cohort!Envs /\ counter[e] \in 0..Deadline
    BY <1>1 DEF CohortInv, CohortTypes
  <2>2. Nths(e) \subseteq 0..counter[e] - 1
    <3>1. ASSUME NEW x \in cEpisodes, x.env = e PROVE x.nth \in 0..counter[e] - 1
      BY <3>1 DEF CohortInv, CohortEpisodes
    <3> QED BY <3>1 DEF Nths
  <2>3. ASSUME NEW n \in 0..counter[e] - 1 PROVE n \in Nths(e)
    <3>1. \E x \in cEpisodes : x.env = e /\ x.nth = n
      BY <2>1, skip = 0 DEF CohortInv, CohortEpisodes
    <3> QED BY <3>1 DEF Nths
  <2>4. Nths(e) = 0..counter[e] - 1
    BY <2>2, <2>3
  <2>5. /\ LastNth(e) \in {-1} \cup Nths(e) /\ LastNth(e) \in -1..Deadline
        /\ \A n \in Nths(e) : n <= LastNth(e)
    BY FewestIs
  <2>6. LastNth(e) <= counter[e] - 1
    BY <2>1, <2>4, <2>5
  <2>7. LastNth(e) >= counter[e] - 1
    <3>1. CASE counter[e] = 0
      BY <2>5, <3>1
    <3>2. CASE counter[e] # 0
      <4>1. counter[e] - 1 \in Nths(e)
        BY <2>1, <2>4, <3>2
      <4> QED BY <2>5, <4>1
    <3> QED BY <3>1, <3>2
  <2> QED BY <2>1, <2>4, <2>5, <2>6, <2>7
<1>3. /\ \E e \in ids : Cohort!FewestOf(ids) = LastNth(e) + 1
      /\ \A e \in ids : Cohort!FewestOf(ids) <= LastNth(e) + 1
  BY FewestIs
<1>4. PICK e \in ids : Cohort!FewestOf(ids) = counter[e]
  <2>1. PICK e \in ids : Cohort!FewestOf(ids) = LastNth(e) + 1
    BY <1>3
  <2>2. Cohort!FewestOf(ids) = counter[e]
    BY <1>2, <2>1
  <2> QED BY <2>2
<1>5. \A d \in ids : Cohort!FewestOf(ids) <= counter[d]
  <2>1. ASSUME NEW d \in ids PROVE Cohort!FewestOf(ids) <= counter[d]
    <3>1. Cohort!FewestOf(ids) <= LastNth(d) + 1
      BY <1>3
    <3>2. LastNth(d) = counter[d] - 1 /\ counter[d] \in 0..Deadline
      BY <1>2
    <3> QED BY <3>1, <3>2
  <2> QED BY <2>1
<1> DEFINE C == {counter[d] : d \in ids}
<1>6. C # {} /\ C \subseteq -1..Deadline
  BY <1>1, <1>2
<1>7. counter[e] \in C /\ \A c \in C : c \in Int /\ counter[e] <= c
  BY <1>2, <1>4, <1>5
<1> HIDE DEF C
<1>8. Cohort!Min(C) \in C /\ \A x \in C : Cohort!Min(C) <= x
  BY <1>6, CohortLeast
<1>9. Cohort!Min(C) = counter[e]
  <2>1. Cohort!Min(C) <= counter[e] /\ counter[e] <= Cohort!Min(C)
    BY <1>7, <1>8
  <2>2. Cohort!Min(C) \in Int /\ counter[e] \in Int
    BY <1>7, <1>8
  <2> QED BY <2>1, <2>2
<1>10. counter[e] \in Nat
  BY <1>2
<1> QED BY <1>2, <1>4, <1>5, <1>9, <1>10 DEF C

LEMMA CohortReports == CohortInv /\ Cohort!Report => CohortInv'
<1> SUFFICES ASSUME CohortInv, Cohort!Report PROVE CohortInv'
  OBVIOUS
<1> USE CohortConstants
<1>1. /\ cPc = "close" /\ cPc' = "end" /\ cleanup = <<>> /\ cleanup' = cleanup
      /\ closed' = closed /\ failed' = failed
      /\ UNCHANGED <<skip, cLength, sums, frames, skipSums, counter, cEpisodes, cSteps>>
  BY DEF Cohort!Report
<1>2. report' = IF \E ids \in Cohort!ArmIds : Cohort!Trimmed(ids) = {} THEN {}
                ELSE UNION {Cohort!Trimmed(ids) : ids \in Cohort!ArmIds}
  BY DEF Cohort!Report
<1>3. CohortTypes' /\ CohortEpisodes'
  <2>1. cPc' \in {"run", "close", "raised", "end"}
    BY <1>1
  <2>2. failed' \in BOOLEAN
    BY <1>1, Zenon DEF CohortInv, CohortTypes
  <2> QED BY <1>1, <2>1, <2>2, CohortKeeps, Zenon
<1>4. Unwinding'
  BY <1>1 DEF CohortInv, Unwinding, Opened
<1>5. ASSUME NEW ids \in Cohort!ArmIds, NEW x \in Cohort!Trimmed(ids)
      PROVE  x \in cEpisodes /\ x.env \in ids /\ x.nth < Cohort!FewestOf(ids)
  BY DEF Cohort!Trimmed
<1>6. report' \subseteq cEpisodes'
  BY <1>1, <1>2, <1>5
<1>7. ASSUME report' # {}, skip = 0, NEW ids \in Cohort!ArmIds, NEW e \in ids
      PROVE  Cohort!NthReported(e)' = 0..Cohort!FewestOf(ids) - 1
  <2>1. /\ Nths(e) = 0..counter[e] - 1 /\ counter[e] \in Nat
        /\ Cohort!FewestOf(ids) <= counter[e] /\ Cohort!FewestOf(ids) \in Nat
    BY <1>7, CohortCounts
  <2>2. report' = UNION {Cohort!Trimmed(i) : i \in Cohort!ArmIds}
    BY <1>2, <1>7
  <2>3. ASSUME NEW x \in report', x.env = e PROVE x.nth \in 0..Cohort!FewestOf(ids) - 1
    <3>1. PICK i \in Cohort!ArmIds : x \in Cohort!Trimmed(i)
      BY <2>2
    <3>2. x \in cEpisodes /\ x.env \in i /\ x.nth < Cohort!FewestOf(i)
      BY <1>5, <3>1
    <3>3. i = ids
      BY <2>3, <3>2, CohortArms
    <3>4. x.nth \in Nths(e)
      BY <2>3, <3>2 DEF Nths
    <3> QED BY <2>1, <3>2, <3>3, <3>4
  <2>4. ASSUME NEW n \in 0..Cohort!FewestOf(ids) - 1
        PROVE  \E x \in report' : x.env = e /\ x.nth = n
    <3>1. n \in Nths(e) /\ n < Cohort!FewestOf(ids)
      BY <2>1
    <3>2. PICK x \in cEpisodes : x.env = e /\ x.nth = n
      BY <3>1 DEF Nths
    <3>3. x \in Cohort!Trimmed(ids)
      BY <3>1, <3>2 DEF Cohort!Trimmed
    <3> QED BY <2>2, <3>2, <3>3
  <2>5. Cohort!NthReported(e)' = {x.nth : x \in {y \in report' : y.env = e}}
    BY DEF Cohort!NthReported
  <2> QED BY <2>3, <2>4, <2>5
<1>8. Cohort!FirstKOfEveryEnv'
  <2>1. ASSUME report' # {}, skip' = 0, NEW ids \in Cohort!ArmIds
        PROVE  \A e \in ids : Cohort!NthReported(e)'
                                = 0..Cohort!Min({counter'[d] : d \in ids}) - 1
    <3>1. skip = 0 /\ {counter'[d] : d \in ids} = {counter[d] : d \in ids}
      BY <1>1, <2>1
    <3>2. Cohort!Min({counter[d] : d \in ids}) = Cohort!FewestOf(ids)
      BY <3>1, CohortCounts
    <3> QED BY <1>7, <2>1, <3>1, <3>2
  <2> QED BY <2>1 DEF Cohort!FirstKOfEveryEnv, Cohort!NthReported
<1>9. Cohort!SurvivorsAreWaitedFor'
  <2>1. ASSUME report' # {}, NEW e \in Cohort!Envs
        PROVE  \E x \in cEpisodes : x.env = e
    <3>1. PICK ids \in Cohort!ArmIds : e \in ids
      BY CohortArms
    <3>2. PICK x : x \in Cohort!Trimmed(ids)
      BY <1>2, <2>1
    <3>3. x \in cEpisodes /\ x.env \in ids /\ x.nth < Cohort!FewestOf(ids)
      BY <1>5, <3>2
    <3>4. x.nth \in Nat
      <4>1. x.env \in Cohort!Envs /\ x.nth \in 0..counter[x.env] - 1
        BY <3>3 DEF CohortInv, CohortEpisodes
      <4> QED BY <4>1
    <3>5. /\ LastNth(e) \in {-1} \cup Nths(e) /\ LastNth(e) \in -1..Deadline
          /\ Cohort!FewestOf(ids) <= LastNth(e) + 1 /\ Cohort!FewestOf(ids) \in Int
      BY <3>1, FewestIs
    <3>6. LastNth(e) # -1
      BY <3>3, <3>4, <3>5
    <3>7. LastNth(e) \in Nths(e)
      BY <3>5, <3>6
    <3> QED BY <3>7 DEF Nths
  <2> QED BY <1>1, <2>1 DEF Cohort!SurvivorsAreWaitedFor
<1>10. Reported'
  BY <1>1, <1>6, <1>8, <1>9 DEF Reported
<1> QED BY <1>3, <1>4, <1>10 DEF CohortInv

LEMMA CohortStutters == CohortInv /\ UNCHANGED cohortVars => CohortInv'
<1> SUFFICES ASSUME CohortInv, UNCHANGED cohortVars PROVE CohortInv'
  OBVIOUS
<1>1. /\ UNCHANGED <<skip, cLength, sums, frames, skipSums, counter, cEpisodes, cSteps>>
      /\ failed' = failed /\ cPc' = cPc /\ cleanup' = cleanup /\ closed' = closed
      /\ report' = report
  BY DEF cohortVars
<1>2. CohortTypes' /\ CohortEpisodes'
  <2>1. cPc' \in {"run", "close", "raised", "end"}
    BY <1>1 DEF CohortInv, CohortTypes
  <2>2. failed' \in BOOLEAN
    BY <1>1, Zenon DEF CohortInv, CohortTypes
  <2> QED BY <1>1, <2>1, <2>2, CohortKeeps, Zenon
<1>3. Unwinding'
  BY <1>1 DEF CohortInv, Unwinding, Opened
<1>4. Reported'
  BY <1>1 DEF CohortInv, Reported, Cohort!FirstKOfEveryEnv, Cohort!SurvivorsAreWaitedFor,
              Cohort!NthReported
<1> QED BY <1>2, <1>3, <1>4 DEF CohortInv

LEMMA CohortNext == CohortInv /\ [Cohort!Next]_cohortVars => CohortInv'
BY CohortSteps, CohortLeaves, CohortCloses, CohortRaises, CohortReports, CohortStutters
   DEF Cohort!Next

LEMMA CohortConclusion == CohortInv => CohortIsFair
<1> SUFFICES ASSUME CohortInv PROVE CohortIsFair
  OBVIOUS
<1> USE CohortConstants
<1>1. CohortTypes /\ CohortEpisodes /\ Unwinding /\ Reported
  BY DEF CohortInv
<1>2. Cohort!TypeOK
  <2>1. \A e \in Cohort!Envs : cLength[e] \in 0..ComparisonCap /\ skip \in Nat
    BY <1>1 DEF CohortTypes
  <2>2. /\ cLength \in [Cohort!Envs -> 0..ComparisonCap]
        /\ sums \in [Cohort!Envs -> 0..ComparisonCap]
        /\ frames \in [Cohort!Envs -> 0..ComparisonCap]
    BY <1>1, <2>1 DEF CohortTypes
  <2>3. skipSums \in [Cohort!Envs -> 0..ComparisonCap]
    <3>1. \A e \in Cohort!Envs :
            (IF skip > 0 /\ cLength[e] >= skip THEN skip ELSE 0) \in 0..ComparisonCap
      BY <2>1
    <3> QED BY <1>1, <3>1 DEF CohortTypes
  <2>4. \A x \in cEpisodes :
          x.env \in Cohort!Envs /\ x.nth \in Nat /\ x.length \in 1..ComparisonCap
    BY <1>1 DEF CohortEpisodes
  <2>5. /\ counter \in [Cohort!Envs -> 0..Deadline] /\ cSteps \in 0..Deadline
        /\ cPc \in {"run", "close", "raised", "end"} /\ report \subseteq cEpisodes
    BY <1>1 DEF CohortTypes, Reported
  <2>6. failed \in BOOLEAN
    BY <1>1, Zenon DEF CohortTypes
  <2>7. {cLength, sums, frames, skipSums} \subseteq [Cohort!Envs -> 0..ComparisonCap]
    BY <2>2, <2>3, Zenon
  <2> QED BY <2>4, <2>5, <2>6, <2>7, Zenon DEF Cohort!TypeOK
<1>3. Cohort!FirstKOfEveryEnv /\ Cohort!SurvivorsAreWaitedFor
  BY <1>1 DEF Reported
<1>4. Cohort!RewardsAreTheWindows
  BY <1>1 DEF CohortEpisodes, Cohort!RewardsAreTheWindows
<1>5. Cohort!HistoryIsOneFramePerStep
  BY <1>1 DEF CohortTypes, Cohort!HistoryIsOneFramePerStep
<1>6. Cohort!ControllersCloseFirst
  <2>1. /\ closed \in Seq(Callbacks) /\ cleanup \in Seq(Callbacks)
        /\ Len(cleanup) + Len(closed) = Len(Opened)
        /\ \A i \in 1..Len(closed) : closed[i] = Opened[Len(Opened) + 1 - i]
        /\ cPc \in {"raised", "end"} => cleanup = <<>>
    BY <1>1 DEF Unwinding
  <2>2. /\ Len(Opened) = Len(Terms) + 1 /\ Len(Terms) \in Nat /\ Opened[1] = "env"
        /\ \A i \in 1..Len(Terms) : Opened[i + 1] = Terms[i] /\ Terms[i] # "env"
    BY OpenedIs
  <2>3. Len(closed) \in 0..Len(Opened)
    BY <2>1, <2>2
  <2>4. ASSUME NEW i \in 1..Len(closed), closed[i] = "env"
        PROVE  i = Len(Opened)
    <3>1. CASE i # Len(Opened)
      <4>1. Len(Opened) - i \in 1..Len(Terms)
            /\ Len(Opened) + 1 - i = (Len(Opened) - i) + 1
        BY <2>2, <2>3, <3>1
      <4>2. closed[i] = Opened[(Len(Opened) - i) + 1]
        BY <2>1, <4>1
      <4> QED BY <2>2, <2>4, <4>1, <4>2
    <3> QED BY <3>1
  <2>5. ASSUME Len(closed) = Len(Opened), NEW j \in 1..Len(Terms)
        PROVE  \E i \in 1..Len(closed) : closed[i] = Terms[j]
    <3>1. Len(Opened) - j \in 1..Len(closed) /\ Len(Opened) + 1 - (Len(Opened) - j) = j + 1
      BY <2>2, <2>5
    <3>2. closed[Len(Opened) - j] = Opened[j + 1]
      BY <2>1, <3>1
    <3> QED BY <2>2, <3>1, <3>2
  <2>6. /\ Cohort!Range(closed) = {closed[i] : i \in 1..Len(closed)}
        /\ Cohort!Range(Terms) = {Terms[i] : i \in 1..Len(Terms)}
    <3>1. DOMAIN closed = 1..Len(closed) /\ DOMAIN Terms = 1..Len(Terms)
      BY <2>1
    <3> QED BY <3>1, Zenon DEF Cohort!Range
  <2>7. "env" \in Cohort!Range(closed) => Cohort!Range(Terms) \subseteq Cohort!Range(closed)
    <3>1. ASSUME "env" \in Cohort!Range(closed) PROVE Len(closed) = Len(Opened)
      <4>1. PICK i \in 1..Len(closed) : closed[i] = "env"
        BY <2>6, <3>1
      <4>2. i = Len(Opened)
        BY <2>4, <4>1
      <4> QED BY <2>2, <2>3, <4>1, <4>2
    <3> QED BY <2>5, <2>6, <3>1
  <2>8. cPc \in {"raised", "end"} => "env" \in Cohort!Range(closed)
    <3>1. ASSUME cPc \in {"raised", "end"} PROVE "env" \in Cohort!Range(closed)
      <4>1. Len(closed) = Len(Opened)
        <5>1. Len(cleanup) = 0 /\ Len(closed) \in Nat
          BY <2>1, <3>1
        <5> QED BY <2>1, <2>2, <5>1
      <4>2. Len(closed) \in 1..Len(closed) /\ Len(Opened) + 1 - Len(closed) = 1
        BY <2>2, <4>1
      <4>3. closed[Len(closed)] = "env"
        BY <2>1, <2>2, <4>2
      <4> QED BY <2>6, <4>2, <4>3
    <3> QED BY <3>1
  <2> QED BY <2>7, <2>8 DEF Cohort!ControllersCloseFirst
<1> QED BY <1>2, <1>3, <1>4, <1>5, <1>6 DEF CohortIsFair

-----------------------------------------------------------------------------
(* The verdicts. *)

\* The elements of a set are summed in the order in which they are chosen from it.
OneOf(s) == CHOOSE x \in s : TRUE
Summed(g, f, T) ==
  [s \in SUBSET T |-> IF s = {} THEN 0 ELSE g[OneOf(s)] + f[s \ {OneOf(s)}]]

\* A sum over a finite set, taken element after element, exists.
LEMMA SumExists ==
  ASSUME NEW T, IsFiniteSet(T), NEW g \in [T -> Int]
  PROVE  \E f : f = Summed(g, f, T)
<1> DEFINE c(s) == OneOf(s)
           Eq(f, s) == f[s] = IF s = {} THEN 0 ELSE g[c(s)] + f[s \ {c(s)}]
           Upto(n) == \E f \in [SUBSET T -> Int] :
                        \A s \in SUBSET T : Cardinality(s) <= n => Eq(f, s)
           Bad == {n \in Nat : ~Upto(n)}
<1>1. ASSUME NEW s \in SUBSET T, s # {}
      PROVE  /\ c(s) \in s /\ c(s) \in T /\ s \ {c(s)} \in SUBSET T
             /\ Cardinality(s) \in Nat /\ Cardinality(s \ {c(s)}) = Cardinality(s) - 1
  <2>1. c(s) \in s
    BY <1>1 DEF OneOf
  <2>2. IsFiniteSet(s)
    BY FS_Subset
  <2> HIDE DEF c
  <2>3. Cardinality(s \ {c(s)}) = Cardinality(s) - 1
    BY <2>1, <2>2, FS_RemoveElement
  <2>4. Cardinality(s) \in Nat
    BY <2>2, FS_CardinalityType
  <2> QED BY <2>1, <2>3, <2>4
<1> HIDE DEF c
<1>2. Upto(0)
  <2> DEFINE f == [s \in SUBSET T |-> 0]
  <2>1. f \in [SUBSET T -> Int]
    OBVIOUS
  <2>2. ASSUME NEW s \in SUBSET T, Cardinality(s) <= 0 PROVE Eq(f, s)
    <3>1. s = {}
      <4>1. IsFiniteSet(s)
        BY FS_Subset
      <4>2. Cardinality(s) = 0
        BY <2>2, <4>1, FS_CardinalityType
      <4> QED BY <4>1, <4>2, FS_EmptySet
    <3> QED BY <3>1
  <2> QED BY <2>1, <2>2
<1>3. ASSUME NEW n \in Nat, Upto(n) PROVE Upto(n + 1)
  <2>1. PICK f \in [SUBSET T -> Int] : \A s \in SUBSET T : Cardinality(s) <= n => Eq(f, s)
    BY <1>3
  <2> DEFINE h == [s \in SUBSET T |-> IF s = {} THEN 0 ELSE g[c(s)] + f[s \ {c(s)}]]
  <2>2. h \in [SUBSET T -> Int]
    <3>1. ASSUME NEW s \in SUBSET T
          PROVE  (IF s = {} THEN 0 ELSE g[c(s)] + f[s \ {c(s)}]) \in Int
      <4>1. CASE s # {}
        <5>1. c(s) \in T /\ s \ {c(s)} \in SUBSET T
          BY <1>1, <4>1
        <5>2. g[c(s)] \in Int /\ f[s \ {c(s)}] \in Int
          BY <5>1
        <5> QED BY <4>1, <5>2
      <4> QED BY <4>1
    <3> QED BY <3>1
  <2>3. ASSUME NEW s \in SUBSET T, Cardinality(s) <= n PROVE h[s] = f[s]
    BY <2>1, <2>3
  <2>4. ASSUME NEW s \in SUBSET T, Cardinality(s) <= n + 1 PROVE Eq(h, s)
    <3>1. CASE s # {}
      <4>1. /\ s \ {c(s)} \in SUBSET T
            /\ Cardinality(s) \in Nat /\ Cardinality(s \ {c(s)}) = Cardinality(s) - 1
        BY <1>1, <3>1
      <4>2. Cardinality(s \ {c(s)}) <= n
        BY <2>4, <4>1
      <4>3. h[s \ {c(s)}] = f[s \ {c(s)}]
        BY <2>3, <4>1, <4>2
      <4> QED BY <3>1, <4>3
    <3>2. CASE s = {}
      BY <3>2
    <3> QED BY <3>1, <3>2
  <2> HIDE DEF h, Eq
  <2> QED BY <2>2, <2>4
<1>4. Bad = {}
  <2> SUFFICES ASSUME Bad # {} PROVE FALSE
    OBVIOUS
  <2>1. PICK m \in Bad : \A k \in Bad : m <= k
    BY LeastNumber
  <2> HIDE DEF Upto
  <2>2. m \in Nat /\ ~Upto(m)
    BY <2>1
  <2>3. m # 0
    BY <1>2, <2>2
  <2>4. m - 1 \in Nat /\ m - 1 \notin Bad
    BY <2>1, <2>2, <2>3
  <2>5. Upto(m - 1)
    BY <2>4
  <2>6. (m - 1) + 1 = m
    BY <2>2
  <2> QED BY <1>3, <2>2, <2>4, <2>5, <2>6
<1>5. Cardinality(T) \in Nat
  BY FS_CardinalityType
<1>6. Upto(Cardinality(T))
  <2> HIDE DEF Upto
  <2> QED BY <1>4, <1>5
<1>7. PICK f \in [SUBSET T -> Int] : \A s \in SUBSET T : Cardinality(s) <= Cardinality(T) => Eq(f, s)
  BY <1>6
<1>8. \A s \in SUBSET T : Cardinality(s) <= Cardinality(T)
  BY FS_Subset
<1>9. \A s \in SUBSET T : f[s] = IF s = {} THEN 0 ELSE g[c(s)] + f[s \ {c(s)}]
  BY <1>7, <1>8
<1>10. f = [s \in SUBSET T |-> f[s]]
  OBVIOUS
<1>11. [s \in SUBSET T |-> f[s]] = [s \in SUBSET T |-> IF s = {} THEN 0 ELSE g[c(s)] + f[s \ {c(s)}]]
  BY <1>9
<1>12. f = [s \in SUBSET T |-> IF s = {} THEN 0 ELSE g[c(s)] + f[s \ {c(s)}]]
  BY <1>10, <1>11, Zenon
<1> QED BY <1>12 DEF c, Summed

\* What is summed so over integers is an integer.
LEMMA SumIsInteger ==
  ASSUME NEW T, IsFiniteSet(T), NEW g \in [T -> Int], NEW iter,
         iter = CHOOSE f : f = Summed(g, f, T)
  PROVE  iter[T] \in Int
<1> DEFINE c(s) == OneOf(s)
           Bad == {Cardinality(s) : s \in {t \in SUBSET T : iter[t] \notin Int}}
<1>1. ASSUME NEW s \in SUBSET T, s # {}
      PROVE  /\ c(s) \in T /\ s \ {c(s)} \in SUBSET T
             /\ Cardinality(s) \in Nat /\ Cardinality(s \ {c(s)}) = Cardinality(s) - 1
  <2>1. c(s) \in s
    BY <1>1 DEF OneOf
  <2>2. IsFiniteSet(s)
    BY FS_Subset
  <2> HIDE DEF c
  <2>3. Cardinality(s \ {c(s)}) = Cardinality(s) - 1
    BY <2>1, <2>2, FS_RemoveElement
  <2>4. Cardinality(s) \in Nat
    BY <2>2, FS_CardinalityType
  <2> QED BY <2>1, <2>3, <2>4
<1>2. iter = [s \in SUBSET T |-> IF s = {} THEN 0 ELSE g[c(s)] + iter[s \ {c(s)}]]
  <2>1. \E f : f = Summed(g, f, T)
    BY SumExists
  <2>2. iter = Summed(g, iter, T)
    BY <2>1, Zenon
  <2> QED BY <2>2, Zenon DEF Summed
<1> HIDE DEF c
<1>3. \A s \in SUBSET T : iter[s] = IF s = {} THEN 0 ELSE g[c(s)] + iter[s \ {c(s)}]
  BY <1>2
<1>4. Bad \subseteq Nat
  <2>1. \A s \in SUBSET T : Cardinality(s) \in Nat
    BY FS_Subset, FS_CardinalityType
  <2> QED BY <2>1
<1>5. Bad = {}
  <2> SUFFICES ASSUME Bad # {} PROVE FALSE
    OBVIOUS
  <2>1. PICK m \in Bad : \A k \in Bad : m <= k
    BY <1>4, LeastNumber
  <2>2. PICK s \in SUBSET T : iter[s] \notin Int /\ Cardinality(s) = m
    BY <2>1
  <2>3. s # {}
    <3>1. ASSUME s = {} PROVE FALSE
      <4>1. iter[s] = 0
        BY <1>3, <3>1
      <4>2. 0 \in Int
        OBVIOUS
      <4> QED BY <2>2, <4>1, <4>2, Zenon
    <3> QED BY <3>1
  <2>4. /\ c(s) \in T /\ s \ {c(s)} \in SUBSET T
        /\ m \in Nat /\ Cardinality(s \ {c(s)}) = m - 1
    BY <1>1, <2>2, <2>3
  <2>5. iter[s \ {c(s)}] \in Int
    <3>1. CASE iter[s \ {c(s)}] \notin Int
      <4>1. m - 1 \in Bad
        BY <2>4, <3>1
      <4>2. m <= m - 1
        BY <2>1, <4>1, Zenon
      <4> HIDE DEF Bad
      <4>3. m \in Int
        BY <2>4
      <4> QED BY <4>2, <4>3
    <3> QED BY <3>1
  <2>6. iter[s] = g[c(s)] + iter[s \ {c(s)}]
    BY <1>3, <2>3
  <2>7. g[c(s)] \in Int
    BY <2>4
  <2>8. g[c(s)] + iter[s \ {c(s)}] \in Int
    <3>1. \A x, y \in Int : x + y \in Int
      OBVIOUS
    <3> QED BY <2>5, <2>7, <3>1, Zenon
  <2> QED BY <2>2, <2>6, <2>8, Zenon
<1> QED BY <1>5

\* The statistics of a sample: over the clusters with a value, an integer sum.
LEMMA StatsAre ==
  ASSUME NEW sample, IsFiniteSet(DOMAIN sample),
         \A c \in DOMAIN sample : sample[c].change \in Int \cup {None}, None \notin Int
  PROVE  /\ Verdict!Stats(sample).n =
              Verdict!Cardinality({c \in DOMAIN sample : sample[c].change # None})
         /\ Verdict!Stats(sample).sum \in Int
<1> DEFINE finite == {c \in DOMAIN sample : sample[c].change # None}
           g == [c \in finite |-> sample[c].change]
<1>1. IsFiniteSet(finite)
  BY FS_Subset
<1>2. g \in [finite -> Int]
  OBVIOUS
<1>3. Verdict!Stats(sample).sum = Verdict!MapThenSumSet(LAMBDA c : g[c], finite)
  BY DEF Verdict!Stats
<1> HIDE DEF finite, g
<1>4. PICK iter :
        /\ iter = CHOOSE f : f = Summed(g, f, finite)
        /\ Verdict!MapThenSumSet(LAMBDA c : g[c], finite) = iter[finite]
  BY Zenon DEF Verdict!MapThenSumSet, Verdict!MapThenFoldSet, Summed, OneOf
<1>5. iter[finite] \in Int
  BY <1>1, <1>2, <1>4, SumIsInteger, Zenon
<1>6. Verdict!Stats(sample).n = Verdict!Cardinality({c \in DOMAIN sample : sample[c].change # None})
  BY DEF Verdict!Stats
<1> QED BY <1>3, <1>4, <1>5, <1>6

\* The clusters of a campaign k, and those of its first n seeds.
Clusters(k) == Verdict!Range1(k.seeds) \X k.envs
Begun(k, n) == {k.seeds[m] : m \in 1..n} \X k.envs

\* What the samples of a scenario s of the campaign k may hold.
Measurable(k, s) ==
  {x \in k.samples : /\ s # "nominal" => ~x.duty
                     /\ s # "robust" => ~x.early}

\* A summary over all the clusters, some of which may have no value.
Sound(k, y) ==
  /\ y.change.sum \in Int /\ y.change.n \in 0..Cardinality(Clusters(k))
  /\ y.over = Clusters(k)
  /\ y.base \subseteq Clusters(k) /\ y.policy \subseteq Clusters(k)

Position ==
  /\ campaign \in Campaigns
  /\ at \in [checkpoint : Nat \ {0}, scenario : Nat \ {0}, seed : Nat \ {0}]
  /\ at.scenario <= Len(campaign.scenarios) /\ at.seed <= Len(campaign.seeds)
  /\ vPc \in {"run", "raised", "written"}

\* The episodes collected are those of the seeds run so far.
Collecting ==
  /\ DOMAIN result \subseteq Clusters(campaign)
  /\ \A c \in DOMAIN result : result[c] \in campaign.samples
  /\ at.seed > 1 =>
       /\ DOMAIN result = Begun(campaign, at.seed - 1)
       /\ \A c \in DOMAIN result :
            result[c] \in Measurable(campaign, campaign.scenarios[at.scenario])

\* The summaries are those of the scenarios run so far.
Summarizing ==
  /\ DOMAIN summaries \subseteq Verdict!Range1(campaign.scenarios)
  /\ at.scenario > 1 =>
       /\ DOMAIN summaries = {campaign.scenarios[m] : m \in 1..at.scenario - 1}
       /\ \A s \in DOMAIN summaries : Sound(campaign, summaries[s])

JudgedOf(k, v) ==
  /\ v.reasons = Verdict!Promotion(v.by).reasons
  /\ DOMAIN v.by = Verdict!Range1(k.scenarios)
  /\ \A s \in DOMAIN v.by : Sound(k, v.by[s])

Judging ==
  /\ DOMAIN verdicts \subseteq Verdict!Range1(campaign.checkpoints)
  /\ \A c \in DOMAIN verdicts : JudgedOf(campaign, verdicts[c])

Selecting ==
  selected # None =>
    /\ vPc = "written" /\ selected \in DOMAIN verdicts /\ Verdict!Eligible(verdicts[selected])
    /\ \A c \in DOMAIN verdicts :
         Verdict!Eligible(verdicts[c]) => ~Verdict!Better(verdicts[c], verdicts[selected])

VerdictInv == Position /\ Collecting /\ Summarizing /\ Judging /\ Selecting

LEMMA VerdictConstants ==
  ASSUME NEW k \in Campaigns
  PROVE  /\ None \notin Int
         /\ k.checkpoints \in Seq(Nat) /\ k.seeds \in Seq(Nat) /\ Len(k.seeds) \in Nat \ {0}
         /\ Len(k.scenarios) \in Nat \ {0} /\ Len(k.checkpoints) \in Nat \ {0}
         /\ DOMAIN k.seeds = 1..Len(k.seeds) /\ DOMAIN k.scenarios = 1..Len(k.scenarios)
         /\ DOMAIN k.checkpoints = 1..Len(k.checkpoints)
         /\ IsFiniteSet(k.envs) /\ \A x \in k.samples : x.change \in Int \cup {None}
<1>1. Verdict!VerdictAssumption
  BY SuiteAssumption
<1>2. /\ None \notin Int
      /\ k.checkpoints \in Seq(Nat) /\ k.seeds \in Seq(Nat)
      /\ k.scenarios \in Seq({"nominal", "current_kick", "finite_impulse", "robust"})
      /\ <<>> \notin {k.checkpoints, k.seeds, k.scenarios}
      /\ Verdict!IsFiniteSet(k.envs) /\ k.samples \subseteq Verdict!AllSamples
  BY <1>1 DEF Verdict!VerdictAssumption
<1>3. IsFiniteSet(k.envs)
  BY <1>2, Zenon DEF Verdict!IsFiniteSet, IsFiniteSet
<1>4. \A x \in k.samples : x.change \in Int \cup {None}
  <2>1. \A x \in Verdict!AllSamples : x.change \in Int \cup {None}
    BY DEF Verdict!AllSamples
  <2> QED BY <1>2, <2>1
<1>5. \A S : \A q \in Seq(S) : q # <<>> => Len(q) \in Nat \ {0} /\ DOMAIN q = 1..Len(q)
  OBVIOUS
<1>6. k.checkpoints # <<>> /\ k.seeds # <<>> /\ k.scenarios # <<>>
  BY <1>2, Zenon
<1> QED BY <1>2, <1>3, <1>4, <1>5, <1>6, Zenon

\* The clusters are as many as the seeds and the environments multiply to.
LEMMA ClustersAre ==
  ASSUME NEW k \in Campaigns
  PROVE  /\ IsFiniteSet(Clusters(k)) /\ Cardinality(Clusters(k)) \in Nat
         /\ Clusters(k) = Begun(k, Len(k.seeds))
         /\ Cardinality(Clusters(k))
              = Cardinality(Verdict!Range1(k.seeds)) * Cardinality(k.envs)
<1> DEFINE n == Len(k.seeds)
           R == Verdict!Range1(k.seeds)
           f == [m \in 1..n |-> k.seeds[m]]
<1>1. n \in Nat \ {0} /\ DOMAIN k.seeds = 1..n /\ IsFiniteSet(k.envs)
  BY VerdictConstants
<1>2. R = {k.seeds[m] : m \in 1..n}
  BY <1>1 DEF Verdict!Range1
<1> HIDE DEF n, R
<1>3. f \in Surjection(1..n, R)
  BY <1>2 DEF Surjection
<1>4. IsFiniteSet(1..n)
  <2>1. 1 \in Int /\ n \in Int
    BY <1>1
  <2> QED BY <2>1, FS_Interval
<1>5. IsFiniteSet(R)
  <2> HIDE DEF f
  <2> QED BY <1>3, <1>4, FS_Surjection
<1>6. IsFiniteSet(R \X k.envs) /\ Cardinality(R \X k.envs) = Cardinality(R) * Cardinality(k.envs)
  BY <1>1, <1>5, FS_Product
<1>7. Clusters(k) = R \X k.envs /\ Clusters(k) = Begun(k, n)
  BY <1>2 DEF Clusters, Begun, R
<1>8. Cardinality(Clusters(k)) \in Nat
  BY <1>6, <1>7, FS_CardinalityType
<1> QED BY <1>6, <1>7, <1>8 DEF R, n

LEMMA SummaryIsSound ==
  ASSUME NEW k \in Campaigns, NEW s, NEW sample, DOMAIN sample = Clusters(k),
         \A c \in DOMAIN sample : sample[c] \in Measurable(k, s)
  PROVE  Sound(k, Verdict!Summary(sample))
<1> DEFINE finite == {c \in DOMAIN sample : sample[c].change # None}
           y == Verdict!Summary(sample)
<1>1. /\ IsFiniteSet(DOMAIN sample) /\ None \notin Int
      /\ \A c \in DOMAIN sample : sample[c].change \in Int \cup {None}
  <2>1. \A c \in DOMAIN sample : sample[c] \in k.samples
    BY DEF Measurable
  <2> QED BY <2>1, VerdictConstants, ClustersAre
<1>2. /\ Verdict!Stats(sample).n = Verdict!Cardinality(finite)
      /\ Verdict!Stats(sample).sum \in Int
  BY <1>1, StatsAre
<1>3. \A S : Verdict!Cardinality(S) = Cardinality(S)
  BY Zenon DEF Verdict!Cardinality, Cardinality, Verdict!IsFiniteSet, IsFiniteSet
<1>4. Cardinality(finite) \in 0..Cardinality(Clusters(k))
  <2>1. finite \in SUBSET Clusters(k)
    OBVIOUS
  <2> HIDE DEF finite
  <2>2. IsFiniteSet(finite) /\ Cardinality(finite) <= Cardinality(Clusters(k))
    BY <2>1, ClustersAre, FS_Subset
  <2>3. Cardinality(finite) \in Nat /\ Cardinality(Clusters(k)) \in Nat
    BY <2>2, ClustersAre, FS_CardinalityType
  <2> QED BY <2>2, <2>3
<1>5. y.over = Clusters(k)
  BY DEF Verdict!Summary
<1>6. y.change = Verdict!Stats(sample)
  BY DEF Verdict!Summary
<1>7. y.base \subseteq Clusters(k) /\ y.policy \subseteq Clusters(k)
  BY DEF Verdict!Summary
<1> HIDE DEF finite, y
<1>8. y.change.n = Cardinality(finite) /\ y.change.sum \in Int
  BY <1>2, <1>3, <1>6
<1>9. Sound(k, y)
  BY <1>4, <1>5, <1>7, <1>8 DEF Sound
<1> QED BY <1>9 DEF y

LEMMA VerdictStarts == QualificationInit => VerdictInv
<1> SUFFICES ASSUME QualificationInit PROVE VerdictInv
  OBVIOUS
<1>1. /\ campaign \in Campaigns /\ at = [checkpoint |-> 1, scenario |-> 1, seed |-> 1]
      /\ result = <<>> /\ summaries = <<>> /\ verdicts = <<>>
      /\ selected = None /\ vPc = "run"
  BY DEF QualificationInit, Verdict!Init
<1>2. Len(campaign.scenarios) \in Nat \ {0} /\ Len(campaign.seeds) \in Nat \ {0}
  BY <1>1, VerdictConstants
<1>3. Position
  BY <1>1, <1>2 DEF Position
<1>4. DOMAIN <<>> = {}
  OBVIOUS
<1>5. Collecting /\ Summarizing /\ Judging
  BY <1>1, <1>4 DEF Collecting, Summarizing, Judging
<1>6. Selecting
  BY <1>1 DEF Selecting
<1> QED BY <1>3, <1>5, <1>6 DEF VerdictInv

\* A run adds the episodes of its seed.
LEMMA VerdictCollects ==
  ASSUME VerdictInv,
         NEW measured \in [campaign.envs ->
                             Verdict!MayMeasure(Verdict!Scenarios[at.scenario])]
  PROVE  /\ DOMAIN Verdict!Collected(measured) = Begun(campaign, at.seed)
         /\ \A c \in DOMAIN Verdict!Collected(measured) :
              Verdict!Collected(measured)[c]
                \in Measurable(campaign, campaign.scenarios[at.scenario])
<1> DEFINE mine == {<<campaign.seeds[at.seed], e>> : e \in campaign.envs}
           kept == IF at.seed = 1 THEN {} ELSE DOMAIN result
           M == Measurable(campaign, campaign.scenarios[at.scenario])
<1>1. Verdict!Collected(measured) =
        [c \in kept \cup mine |-> IF c \in mine THEN measured[c[2]] ELSE result[c]]
  BY DEF Verdict!Collected, Verdict!Cluster, Verdict!Seeds
<1>2. at.seed \in Nat \ {0}
  BY DEF VerdictInv, Position
<1>3. at.seed # 1 => DOMAIN result = Begun(campaign, at.seed - 1)
                       /\ \A c \in DOMAIN result : result[c] \in M
  BY <1>2 DEF VerdictInv, Collecting
<1>4. Verdict!MayMeasure(Verdict!Scenarios[at.scenario]) = M
  BY DEF Verdict!MayMeasure, Verdict!Scenarios, Measurable
<1>5. \A c \in mine : measured[c[2]] \in M
  BY <1>4
<1>6. \A c \in kept : result[c] \in M
  BY <1>3
<1>7. kept \cup mine = Begun(campaign, at.seed)
  <2>1. CASE at.seed = 1
    BY <2>1 DEF Begun
  <2>2. CASE at.seed # 1
    <3>1. 1..at.seed = (1..at.seed - 1) \cup {at.seed}
      BY <1>2
    <3>2. {campaign.seeds[m] : m \in 1..at.seed}
            = {campaign.seeds[m] : m \in 1..at.seed - 1} \cup {campaign.seeds[at.seed]}
      BY <3>1
    <3>3. Begun(campaign, at.seed) = Begun(campaign, at.seed - 1) \cup mine
      BY <3>2 DEF Begun
    <3> QED BY <1>3, <2>2, <3>3
  <2> QED BY <2>1, <2>2
<1> HIDE DEF mine, kept, M
<1>8. \A c \in DOMAIN Verdict!Collected(measured) : Verdict!Collected(measured)[c] \in M
  BY <1>1, <1>5, <1>6
<1> QED BY <1>1, <1>7, <1>8 DEF M

\* After the last seed of a scenario the summary of the scenario is that of a full sample.
LEMMA VerdictSummarizes ==
  ASSUME VerdictInv, at.seed = Len(campaign.seeds),
         DOMAIN result' = Begun(campaign, at.seed),
         \A c \in DOMAIN result' :
           result'[c] \in Measurable(campaign, campaign.scenarios[at.scenario])
  PROVE  /\ DOMAIN Verdict!Summarized = {campaign.scenarios[m] : m \in 1..at.scenario}
         /\ \A s \in DOMAIN Verdict!Summarized : Sound(campaign, Verdict!Summarized[s])
<1> DEFINE scenario == campaign.scenarios[at.scenario]
           begun == IF at.scenario = 1 THEN <<>> ELSE summaries
           y == Verdict!Summary(result')
<1>1. campaign \in Campaigns /\ at.scenario \in Nat \ {0}
  BY DEF VerdictInv, Position
<1>2. Sound(campaign, y)
  <2>1. DOMAIN result' = Clusters(campaign)
    BY <1>1, ClustersAre
  <2> QED BY <1>1, <2>1, SummaryIsSound
<1>3. Verdict!Summarized =
        [s \in DOMAIN begun \cup {scenario} |-> IF s = scenario THEN y ELSE begun[s]]
  BY DEF Verdict!Summarized, Verdict!Scenarios
<1> HIDE DEF y
<1>4. /\ DOMAIN begun = {campaign.scenarios[m] : m \in 1..at.scenario - 1}
      /\ \A s \in DOMAIN begun : Sound(campaign, begun[s])
  <2>1. CASE at.scenario = 1
    <3>1. DOMAIN <<>> = {}
      OBVIOUS
    <3> QED BY <2>1, <3>1
  <2>2. CASE at.scenario # 1
    BY <1>1, <2>2 DEF VerdictInv, Summarizing
  <2> QED BY <2>1, <2>2
<1>5. {campaign.scenarios[m] : m \in 1..at.scenario}
        = {campaign.scenarios[m] : m \in 1..at.scenario - 1} \cup {scenario}
  <2>1. 1..at.scenario = (1..at.scenario - 1) \cup {at.scenario}
    BY <1>1
  <2> QED BY <2>1
<1> HIDE DEF begun, scenario
<1>6. DOMAIN Verdict!Summarized = DOMAIN begun \cup {scenario}
  BY <1>3
<1>7. ASSUME NEW s \in DOMAIN begun \cup {scenario}
      PROVE  Sound(campaign, Verdict!Summarized[s])
  <2>1. CASE s = scenario
    <3>1. Verdict!Summarized[s] = y
      BY <1>3, <2>1
    <3> QED BY <1>2, <2>1, <3>1
  <2>2. CASE s # scenario
    <3>1. Verdict!Summarized[s] = begun[s] /\ s \in DOMAIN begun
      BY <1>3, <2>2
    <3> QED BY <1>4, <3>1
  <2> QED BY <2>1, <2>2
<1> QED BY <1>4, <1>5, <1>6, <1>7

LEMMA VerdictRuns == VerdictInv /\ Verdict!RunSeed => VerdictInv'
<1> SUFFICES ASSUME VerdictInv, Verdict!RunSeed PROVE VerdictInv'
  OBVIOUS
<1> DEFINE k == campaign
           M == Measurable(k, k.scenarios[at.scenario])
<1>1. /\ vPc = "run" /\ at.checkpoint <= Len(k.checkpoints)
      /\ campaign' = k /\ selected' = selected
  BY DEF Verdict!RunSeed, Verdict!Checkpoints
<1>2. PICK measured \in [k.envs -> Verdict!MayMeasure(Verdict!Scenarios[at.scenario])] :
        result' = Verdict!Collected(measured)
  BY DEF Verdict!RunSeed
<1>3. DOMAIN result' = Begun(k, at.seed) /\ \A c \in DOMAIN result' : result'[c] \in M
  BY <1>2, VerdictCollects
<1>4. /\ k \in Campaigns
      /\ at \in [checkpoint : Nat \ {0}, scenario : Nat \ {0}, seed : Nat \ {0}]
      /\ at.scenario <= Len(k.scenarios) /\ at.seed <= Len(k.seeds)
  BY DEF VerdictInv, Position
<1>5. /\ at.checkpoint \in Nat \ {0} /\ at.scenario \in Nat \ {0} /\ at.seed \in Nat \ {0}
      /\ at = [checkpoint |-> at.checkpoint, scenario |-> at.scenario, seed |-> at.seed]
  BY <1>4
<1>6. /\ Len(k.seeds) \in Nat \ {0} /\ Len(k.scenarios) \in Nat \ {0}
      /\ DOMAIN k.seeds = 1..Len(k.seeds) /\ DOMAIN k.scenarios = 1..Len(k.scenarios)
      /\ Len(k.checkpoints) \in Nat \ {0} /\ DOMAIN k.checkpoints = 1..Len(k.checkpoints)
  BY <1>4, VerdictConstants
<1>7. /\ DOMAIN result' \subseteq Clusters(k)
      /\ \A c \in DOMAIN result' : result'[c] \in k.samples
  <2>1. {k.seeds[m] : m \in 1..at.seed} \subseteq {k.seeds[m] : m \in 1..Len(k.seeds)}
    BY <1>4, <1>5, <1>6
  <2>2. Begun(k, at.seed) \subseteq Begun(k, Len(k.seeds))
    BY <2>1 DEF Begun
  <2>3. Clusters(k) = Begun(k, Len(k.seeds))
    BY <1>4, ClustersAre
  <2> QED BY <1>3, <2>2, <2>3 DEF Measurable
<1>8. Selecting'
  <2>1. selected = None
    BY <1>1 DEF VerdictInv, Selecting
  <2> QED BY <1>1, <2>1 DEF Selecting
<1> HIDE DEF k, M
<1>9. CASE Verdict!SeedDone
  <2>1. /\ at.seed < Len(k.seeds)
        /\ at' = [checkpoint |-> at.checkpoint, scenario |-> at.scenario, seed |-> at.seed + 1]
        /\ summaries' = summaries /\ verdicts' = verdicts /\ vPc' = vPc
    BY <1>5, <1>9 DEF Verdict!SeedDone, Verdict!Seeds, k
  <2>2. Position'
    BY <1>1, <1>4, <1>5, <1>6, <2>1 DEF Position, k
  <2>3. Collecting'
    <3>1. at'.seed - 1 = at.seed /\ at'.scenario = at.scenario
      BY <1>5, <2>1
    <3> QED BY <1>1, <1>3, <1>7, <3>1 DEF Collecting, k, M
  <2>4. Summarizing' /\ Judging'
    BY <1>1, <2>1 DEF VerdictInv, Summarizing, Judging, k
  <2> QED BY <1>8, <2>2, <2>3, <2>4 DEF VerdictInv
<1>10. CASE Verdict!ScenarioDone
  <2>1. /\ at.seed = Len(k.seeds) /\ at.scenario < Len(k.scenarios)
        /\ at' = [checkpoint |-> at.checkpoint, scenario |-> at.scenario + 1, seed |-> 1]
        /\ summaries' = Verdict!Summarized /\ verdicts' = verdicts /\ vPc' = vPc
    BY <1>5, <1>10 DEF Verdict!ScenarioDone, Verdict!Seeds, Verdict!Scenarios, k
  <2>2. Position'
    BY <1>1, <1>4, <1>5, <1>6, <2>1 DEF Position, k
  <2>3. Collecting'
    <3>1. at'.seed = 1
      BY <2>1
    <3> QED BY <1>1, <1>7, <3>1 DEF Collecting, k
  <2>4. /\ DOMAIN summaries' = {k.scenarios[m] : m \in 1..at.scenario}
        /\ \A s \in DOMAIN summaries' : Sound(k, summaries'[s])
    BY <1>3, <2>1, VerdictSummarizes DEF k, M
  <2>5. Summarizing'
    <3>1. at'.scenario - 1 = at.scenario
      BY <1>5, <2>1
    <3>2. DOMAIN summaries' \subseteq Verdict!Range1(k.scenarios)
      <4>1. 1..at.scenario \subseteq DOMAIN k.scenarios
        BY <1>4, <1>5, <1>6
      <4> QED BY <2>4, <4>1 DEF Verdict!Range1
    <3>3. campaign' = k
      BY <1>1 DEF k
    <3> QED BY <2>4, <3>1, <3>2, <3>3 DEF Summarizing
  <2>6. Judging'
    BY <1>1, <2>1 DEF VerdictInv, Judging, k
  <2> QED BY <1>8, <2>2, <2>3, <2>5, <2>6 DEF VerdictInv
<1>11. CASE Verdict!CheckpointDone
  <2> DEFINE judged == k.checkpoints[at.checkpoint]
  <2>1. /\ at.seed = Len(k.seeds) /\ at.scenario = Len(k.scenarios)
        /\ at' = [checkpoint |-> at.checkpoint + 1, scenario |-> 1, seed |-> 1]
        /\ summaries' = Verdict!Summarized
        /\ \/ vPc' = "raised" /\ verdicts' = verdicts
           \/ /\ vPc' = vPc
              /\ verdicts' = [c \in DOMAIN verdicts \cup {judged} |->
                                IF c = judged THEN Verdict!Promotion(summaries')
                                ELSE verdicts[c]]
    BY <1>11 DEF Verdict!CheckpointDone, Verdict!Seeds, Verdict!Scenarios,
                 Verdict!Checkpoints, k
  <2>2. Position'
    BY <1>1, <1>4, <1>5, <1>6, <2>1 DEF Position, k
  <2>3. Collecting'
    <3>1. at'.seed = 1
      BY <2>1
    <3> QED BY <1>1, <1>7, <3>1 DEF Collecting, k
  <2>4. /\ DOMAIN summaries' = Verdict!Range1(k.scenarios)
        /\ \A s \in DOMAIN summaries' : Sound(k, summaries'[s])
    <3>1. /\ DOMAIN summaries' = {k.scenarios[m] : m \in 1..at.scenario}
          /\ \A s \in DOMAIN summaries' : Sound(k, summaries'[s])
      BY <1>3, <2>1, VerdictSummarizes DEF k, M
    <3> QED BY <1>6, <2>1, <3>1 DEF Verdict!Range1
  <2>5. Summarizing'
    <3>1. at'.scenario = 1
      BY <2>1
    <3> QED BY <1>1, <2>4, <3>1 DEF Summarizing, k
  <2>6. JudgedOf(k, Verdict!Promotion(summaries'))
    <3>1. Verdict!Promotion(summaries').by = summaries'
      BY DEF Verdict!Promotion
    <3> QED BY <2>4, <3>1, Zenon DEF JudgedOf
  <2>7. Judging'
    <3>1. judged \in Verdict!Range1(k.checkpoints)
      BY <1>1, <1>5, <1>6 DEF Verdict!Range1, k
    <3>2. /\ DOMAIN verdicts \subseteq Verdict!Range1(k.checkpoints)
          /\ \A c \in DOMAIN verdicts : JudgedOf(k, verdicts[c])
      BY DEF VerdictInv, Judging, k
    <3> HIDE DEF judged
    <3>3. CASE verdicts' = verdicts
      BY <1>1, <3>2, <3>3 DEF Judging, k
    <3>4. CASE verdicts' = [c \in DOMAIN verdicts \cup {judged} |->
                              IF c = judged THEN Verdict!Promotion(summaries')
                              ELSE verdicts[c]]
      <4>1. DOMAIN verdicts' = DOMAIN verdicts \cup {judged}
        BY <3>4
      <4>2. \A c \in DOMAIN verdicts' : JudgedOf(k, verdicts'[c])
        BY <2>6, <3>2, <3>4, Zenon
      <4> QED BY <1>1, <3>1, <3>2, <4>1, <4>2 DEF Judging, k
    <3> QED BY <2>1, <3>3, <3>4 DEF judged
  <2> QED BY <1>8, <2>2, <2>3, <2>5, <2>7 DEF VerdictInv
<1> QED BY <1>9, <1>10, <1>11 DEF Verdict!RunSeed

LEMMA VerdictSelects == VerdictInv /\ Verdict!Select => VerdictInv'
<1> SUFFICES ASSUME VerdictInv, Verdict!Select PROVE VerdictInv'
  OBVIOUS
<1> DEFINE eligible == {c \in DOMAIN verdicts : Verdict!Eligible(verdicts[c])}
<1>1. /\ vPc = "run" /\ vPc' = "written"
      /\ campaign' = campaign /\ at' = at /\ result' = result
      /\ summaries' = summaries /\ verdicts' = verdicts
      /\ \/ selected' = selected
         \/ selected' \in {c \in eligible : \A d \in eligible :
                             ~Verdict!Better(verdicts[d], verdicts[c])}
  BY DEF Verdict!Select
<1>2. Position' /\ Collecting' /\ Summarizing' /\ Judging'
  BY <1>1 DEF VerdictInv, Position, Collecting, Summarizing, Judging
<1>3. selected = None
  BY <1>1 DEF VerdictInv, Selecting
<1>4. Selecting'
  BY <1>1, <1>3 DEF Selecting, Verdict!Eligible, Verdict!Better, Verdict!Gain, Verdict!Share
<1> QED BY <1>2, <1>4 DEF VerdictInv

LEMMA VerdictStutters == VerdictInv /\ UNCHANGED verdictVars => VerdictInv'
BY DEF verdictVars, VerdictInv, Position, Collecting, Summarizing, Judging, Selecting,
       Verdict!Eligible, Verdict!Better, Verdict!Gain, Verdict!Share

LEMMA VerdictNext == VerdictInv /\ [Verdict!Next]_verdictVars => VerdictInv'
BY VerdictRuns, VerdictSelects, VerdictStutters DEF Verdict!Next

\* Which part of the reasons a gate comes from.
LEMMA ReasonsAre ==
  ASSUME NEW by, NEW s, NEW g
  PROVE  <<s, g>> \in Verdict!Promotion(by).reasons <=>
           \/ <<s, g>> \in Verdict!Safety(by) \/ <<s, g>> \in Verdict!Nominal(by)
           \/ <<s, g>> \in Verdict!Recovery(by) \/ <<s, g>> \in Verdict!Hazard(by)
BY DEF Verdict!Promotion

LEMMA SafetyGates ==
  ASSUME NEW by, NEW r \in Verdict!Safety(by)
  PROVE  \E s \in DOMAIN by : \E g \in {"worker", "unsafe"} : r = <<s, g>>
BY Zenon DEF Verdict!Safety, Verdict!Invalid

LEMMA NominalGates ==
  ASSUME NEW by, NEW r \in Verdict!Nominal(by)
  PROVE  \E s \in DOMAIN by : \E g \in {"duty", "com", "early"} : r = <<s, g>>
BY Zenon DEF Verdict!Nominal

LEMMA GatesAre ==
  ASSUME NEW by, NEW r
  PROVE  /\ r \in Verdict!Safety(by) =>
              \E s \in DOMAIN by : \E g \in {"worker", "unsafe"} : r = <<s, g>>
         /\ r \in Verdict!Nominal(by) =>
              \E s \in DOMAIN by : \E g \in {"duty", "com", "early"} : r = <<s, g>>
         /\ r \in Verdict!Recovery(by) =>
              /\ "finite_impulse" \in DOMAIN by
              /\ \E g \in {"unreadable", "below", "unresolved"} : r = <<"finite_impulse", g>>
         /\ r \in Verdict!Hazard(by) =>
              \/ \E s \in DOMAIN by \ Verdict!Invalid(by) : r = <<s, "scenario hazard">>
              \/ r = <<"overall", "hazard ratio">>
<1>1. r \in Verdict!Safety(by) =>
        \E s \in DOMAIN by : \E g \in {"worker", "unsafe"} : r = <<s, g>>
  BY Zenon DEF Verdict!Safety, Verdict!Invalid
<1>2. r \in Verdict!Nominal(by) =>
        \E s \in DOMAIN by : \E g \in {"duty", "com", "early"} : r = <<s, g>>
  BY Zenon DEF Verdict!Nominal
<1>3. r \in Verdict!Recovery(by) =>
        /\ "finite_impulse" \in DOMAIN by
        /\ \E g \in {"unreadable", "below", "unresolved"} : r = <<"finite_impulse", g>>
  BY DEF Verdict!Recovery
<1>4. r \in Verdict!Hazard(by) =>
        \/ \E s \in DOMAIN by \ Verdict!Invalid(by) : r = <<s, "scenario hazard">>
        \/ r = <<"overall", "hazard ratio">>
  BY Zenon DEF Verdict!Hazard, Verdict!ScoredScenarios
<1> QED BY <1>1, <1>2, <1>3, <1>4

\* The falls counted over the valid scenarios are finitely many.
LEMMA TotalsAreFinite ==
  ASSUME NEW k \in Campaigns, NEW v, JudgedOf(k, v)
  PROVE  /\ Cardinality(Verdict!TotalBase(v.by)) \in Nat
         /\ Cardinality(Verdict!TotalPolicy(v.by)) \in Nat
         /\ Cardinality(Verdict!TotalBase(v.by)) = 0 <=> Verdict!TotalBase(v.by) = {}
<1> DEFINE D == Verdict!Range1(k.scenarios)
           n == Len(k.scenarios)
           f == [m \in 1..n |-> k.scenarios[m]]
<1>1. /\ DOMAIN v.by = D /\ \A s \in D : /\ v.by[s].base \subseteq Clusters(k)
                                         /\ v.by[s].policy \subseteq Clusters(k)
  BY DEF JudgedOf, Sound
<1>2. n \in Nat \ {0} /\ DOMAIN k.scenarios = 1..n
  BY VerdictConstants
<1>3. D = {k.scenarios[m] : m \in 1..n}
  BY <1>2 DEF Verdict!Range1
<1> HIDE DEF n, D
<1>4. f \in Surjection(1..n, D)
  BY <1>3 DEF Surjection
<1>5. IsFiniteSet(1..n)
  <2>1. 1 \in Int /\ n \in Int
    BY <1>2
  <2> QED BY <2>1, FS_Interval
<1>6. IsFiniteSet(D)
  <2> HIDE DEF f
  <2> QED BY <1>4, <1>5, FS_Surjection
<1>7. IsFiniteSet(D \X Clusters(k))
  BY <1>6, ClustersAre, FS_Product
<1>8. /\ Verdict!TotalBase(v.by) \in SUBSET (D \X Clusters(k))
      /\ Verdict!TotalPolicy(v.by) \in SUBSET (D \X Clusters(k))
  BY <1>1 DEF Verdict!TotalBase, Verdict!TotalPolicy, Verdict!ScoredScenarios
<1>9. IsFiniteSet(Verdict!TotalBase(v.by)) /\ IsFiniteSet(Verdict!TotalPolicy(v.by))
  BY <1>7, <1>8, FS_Subset
<1> QED BY <1>9, FS_CardinalityType, FS_EmptySet

\* The overall ratio is refused unless fewer policies fell.
LEMMA ExceedsIs ==
  ASSUME NEW base, NEW policy, Cardinality(base) \in Nat, Cardinality(policy) \in Nat,
         Cardinality(base) = 0 <=> base = {}
  PROVE  /\ Verdict!Exceeds(base, policy, 9) =>
              10 * Cardinality(policy) >= 9 * Cardinality(base)
         /\ ~Verdict!Exceeds(base, policy, 9) =>
              base # {} /\ Cardinality(policy) < Cardinality(base)
<1>1. \A S : Verdict!Cardinality(S) = Cardinality(S)
  BY Zenon DEF Verdict!Cardinality, Cardinality, Verdict!IsFiniteSet, IsFiniteSet
<1>2. Verdict!Exceeds(base, policy, 9) <=>
        IF base = {} THEN TRUE ELSE 10 * Cardinality(policy) > 9 * Cardinality(base)
  BY <1>1 DEF Verdict!Exceeds
<1> QED BY <1>2

\* What a checkpoint without a reason against it has shown.
EarnedBy(by) ==
  /\ \A s \in DOMAIN by : ~by[s].worker
  /\ "nominal" \in DOMAIN by => by["nominal"].change.n # 1
  /\ "finite_impulse" \in DOMAIN by =>
       \A st \in {by["finite_impulse"].change} :
         st.n > 1 /\ st.sum <= -st.n /\ Verdict!UpperBelow(st, 0)
  /\ Cardinality(Verdict!TotalPolicy(by)) < Cardinality(Verdict!TotalBase(by))

LEMMA EligibleEarns ==
  ASSUME NEW k \in Campaigns, NEW v, JudgedOf(k, v), Verdict!Eligible(v)
  PROVE  EarnedBy(v.by)
<1> DEFINE by == v.by
           N == Cardinality(Clusters(k))
<1>1. Verdict!Promotion(by).reasons = {}
  BY DEF JudgedOf, Verdict!Eligible
<1>2. /\ Verdict!Safety(by) = {} /\ Verdict!Nominal(by) = {}
      /\ Verdict!Recovery(by) = {} /\ Verdict!Hazard(by) = {}
  BY <1>1 DEF Verdict!Promotion
<1>3. \A s \in DOMAIN by :
        /\ by[s].change.sum \in Int /\ by[s].change.n \in 0..N
        /\ by[s].base \subseteq Clusters(k)
  BY DEF JudgedOf, Sound
<1>4. DOMAIN by # {} /\ N \in Nat
  <2>1. Len(k.scenarios) \in Nat \ {0} /\ DOMAIN k.scenarios = 1..Len(k.scenarios)
    BY VerdictConstants
  <2>2. k.scenarios[1] \in Verdict!Range1(k.scenarios)
    BY <2>1 DEF Verdict!Range1
  <2> QED BY <2>2, ClustersAre DEF JudgedOf
<1>5. /\ Cardinality(Verdict!TotalBase(by)) \in Nat
      /\ Cardinality(Verdict!TotalPolicy(by)) \in Nat
      /\ Cardinality(Verdict!TotalBase(by)) = 0 <=> Verdict!TotalBase(by) = {}
  BY TotalsAreFinite
<1> HIDE DEF by, N
<1>6. \A s \in DOMAIN by : ~by[s].worker
  <2>1. ASSUME NEW s \in DOMAIN by, by[s].worker PROVE FALSE
    <3>1. s \in Verdict!Invalid(by)
      BY <2>1 DEF Verdict!Invalid
    <3>2. <<s, "worker">> \in Verdict!Safety(by)
      BY <3>1 DEF Verdict!Safety
    <3> QED BY <1>2, <3>2
  <2> QED BY <2>1
<1>7. Verdict!ScoredScenarios(by) = DOMAIN by
  BY <1>6 DEF Verdict!ScoredScenarios, Verdict!Invalid
<1>8. ~Verdict!Exceeds(Verdict!TotalBase(by), Verdict!TotalPolicy(by), 9)
  <2>1. ASSUME Verdict!Exceeds(Verdict!TotalBase(by), Verdict!TotalPolicy(by), 9) PROVE FALSE
    <3>1. <<"overall", "hazard ratio">> \in Verdict!Hazard(by)
      BY <1>4, <1>7, <2>1 DEF Verdict!Hazard
    <3> QED BY <1>2, <3>1
  <2> QED BY <2>1
<1>9. /\ Verdict!TotalBase(by) # {}
      /\ Cardinality(Verdict!TotalPolicy(by)) < Cardinality(Verdict!TotalBase(by))
  BY <1>5, <1>8, ExceedsIs
<1>11. ASSUME "finite_impulse" \in DOMAIN by
       PROVE  LET st == by["finite_impulse"].change IN
              st.n > 1 /\ st.sum <= -st.n /\ Verdict!UpperBelow(st, 0)
  <2> DEFINE st == by["finite_impulse"].change
  <2>1. ~by["finite_impulse"].worker
    BY <1>6, <1>11
  <2>2. ~(st.n > 0 /\ -st.sum < st.n) /\ Verdict!UpperBelow(st, 0)
    <3>1. (IF st.n > 0 /\ -st.sum < st.n THEN {<<"finite_impulse", "below">>}
           ELSE IF ~Verdict!UpperBelow(st, 0) THEN {<<"finite_impulse", "unresolved">>} ELSE {})
            = {}
      BY <1>2, <1>11, <2>1 DEF Verdict!Recovery
    <3> HIDE DEF st
    <3> QED BY <3>1
  <2>3. st.sum \in Int /\ st.n \in Int
    BY <1>3, <1>11
  <2>4. st.n > 1
    BY <2>2 DEF Verdict!UpperBelow
  <2> HIDE DEF st
  <2>5. st.sum <= -st.n
    BY <2>2, <2>3, <2>4
  <2> QED BY <2>2, <2>4, <2>5 DEF st
<1>12. ASSUME "nominal" \in DOMAIN by
       PROVE  by["nominal"].change.n # 1
  <2> DEFINE st == by["nominal"].change
  <2>1. ~Verdict!UpperAtLeast(st, 1)
    <3>1. ASSUME Verdict!UpperAtLeast(st, 1) PROVE FALSE
      <4>1. <<"nominal", "com">> \in Verdict!Nominal(by)
        BY <1>12, <3>1 DEF Verdict!Nominal
      <4> QED BY <1>2, <4>1
    <3> QED BY <3>1
  <2>2. st.n \in Int
    BY <1>3, <1>12
  <2> HIDE DEF st
  <2>3. st.n # 1
    BY <2>1, <2>2 DEF Verdict!UpperAtLeast, Verdict!UpperBelow
  <2> QED BY <2>3 DEF st
<1>14. EarnedBy(by)
  BY <1>6, <1>9, <1>11, <1>12 DEF EarnedBy
<1> QED BY <1>14 DEF by

LEMMA VerdictConclusion == VerdictInv => SelectionIsEarned
<1> SUFFICES ASSUME VerdictInv PROVE SelectionIsEarned
  OBVIOUS
<1> DEFINE k == campaign
<1>1. Position /\ Collecting /\ Summarizing /\ Judging /\ Selecting
  BY DEF VerdictInv
<1>2. k \in Campaigns /\ vPc \in {"run", "raised", "written"}
  BY <1>1 DEF Position
<1>3. /\ DOMAIN verdicts \subseteq Verdict!Range1(k.checkpoints)
      /\ \A c \in DOMAIN verdicts : JudgedOf(k, verdicts[c])
  BY <1>1 DEF Judging
<1>4. \A S : Verdict!Cardinality(S) = Cardinality(S)
  BY Zenon DEF Verdict!Cardinality, Cardinality, Verdict!IsFiniteSet, IsFiniteSet
<1>5. Verdict!TypeOK
  <2>1. /\ DOMAIN result \subseteq Verdict!Range1(k.seeds) \X k.envs
        /\ Verdict!Range1(result) \subseteq k.samples
    BY <1>1 DEF Collecting, Clusters, Verdict!Range1
  <2>2. DOMAIN summaries \subseteq Verdict!Range1(k.scenarios)
    BY <1>1 DEF Summarizing
  <2>3. ASSUME NEW c \in DOMAIN verdicts
        PROVE  verdicts[c].reasons
                 \subseteq (Verdict!Range1(k.scenarios) \cup {"overall"}) \X Verdict!Gates
    <3> DEFINE v == verdicts[c]
               by == verdicts[c].by
    <3>1. DOMAIN by = Verdict!Range1(k.scenarios)
          /\ v.reasons = Verdict!Promotion(by).reasons
      BY <1>3 DEF JudgedOf
    <3>2. v.reasons = Verdict!Safety(by) \cup Verdict!Nominal(by)
                        \cup Verdict!Recovery(by) \cup Verdict!Hazard(by)
      BY <3>1 DEF Verdict!Promotion
    <3>3. {"worker", "unsafe", "duty", "com", "early", "unreadable", "below", "unresolved",
           "scenario hazard", "hazard ratio"} \subseteq Verdict!Gates
      BY DEF Verdict!Gates, Verdict!Ratios
    <3> HIDE DEF v, by
    <3>8. ASSUME NEW r \in v.reasons
          PROVE  r \in (Verdict!Range1(k.scenarios) \cup {"overall"}) \X Verdict!Gates
      <4>1. CASE r \in Verdict!Safety(by)
        <5>1. \E t \in DOMAIN by : \E h \in {"worker", "unsafe"} : r = <<t, h>>
          BY <4>1, SafetyGates
        <5>2. PICK t \in DOMAIN by : \E h \in {"worker", "unsafe"} : r = <<t, h>>
          BY <5>1
        <5>3. PICK h \in {"worker", "unsafe"} : r = <<t, h>>
          BY <5>2
        <5> QED BY <3>1, <3>3, <5>3
      <4>2. CASE r \in Verdict!Nominal(by)
        <5>1. \E t \in DOMAIN by : \E h \in {"duty", "com", "early"} : r = <<t, h>>
          BY <4>2, NominalGates
        <5>2. PICK t \in DOMAIN by : \E h \in {"duty", "com", "early"} : r = <<t, h>>
          BY <5>1
        <5>3. PICK h \in {"duty", "com", "early"} : r = <<t, h>>
          BY <5>2
        <5> QED BY <3>1, <3>3, <5>3
      <4>3. CASE r \in Verdict!Recovery(by)
        <5>1. /\ "finite_impulse" \in DOMAIN by
              /\ \E g \in {"unreadable", "below", "unresolved"} : r = <<"finite_impulse", g>>
          BY <4>3, GatesAre
        <5>2. PICK g \in {"unreadable", "below", "unresolved"} : r = <<"finite_impulse", g>>
          BY <5>1
        <5> QED BY <3>1, <3>3, <5>1, <5>2
      <4>4. CASE r \in Verdict!Hazard(by)
        <5>1. \/ \E s \in DOMAIN by \ Verdict!Invalid(by) : r = <<s, "scenario hazard">>
              \/ r = <<"overall", "hazard ratio">>
          BY <4>4, GatesAre
        <5>2. ASSUME NEW s \in DOMAIN by \ Verdict!Invalid(by), r = <<s, "scenario hazard">>
              PROVE  r \in (Verdict!Range1(k.scenarios) \cup {"overall"}) \X Verdict!Gates
          BY <3>1, <3>3, <5>2
        <5>3. ASSUME r = <<"overall", "hazard ratio">>
              PROVE  r \in (Verdict!Range1(k.scenarios) \cup {"overall"}) \X Verdict!Gates
          BY <3>3, <5>3
        <5> QED BY <5>1, <5>2, <5>3, Zenon
      <4> QED BY <3>2, <4>1, <4>2, <4>3, <4>4
    <3> QED BY <3>8 DEF v
  <2>4. selected \in Verdict!Range1(k.checkpoints) \cup {None}
    BY <1>1, <1>3 DEF Selecting
  <2> QED BY <1>2, <1>3, <2>1, <2>2, <2>3, <2>4
          DEF Verdict!TypeOK, Verdict!Seeds, Verdict!Scenarios, Verdict!Checkpoints
<1>6. Verdict!ClustersAreSeedEnvironments
  <2>1. ASSUME NEW c \in DOMAIN verdicts, NEW s \in DOMAIN verdicts[c].by
        PROVE  /\ verdicts[c].by[s].over = Verdict!Range1(k.seeds) \X k.envs
               /\ verdicts[c].by[s].change.n <= Cardinality(verdicts[c].by[s].over)
    <3>1. Sound(k, verdicts[c].by[s])
      BY <1>3, <2>1 DEF JudgedOf
    <3>2. Cardinality(Clusters(k)) \in Nat
      BY <1>2, ClustersAre
    <3> QED BY <3>1, <3>2 DEF Sound, Clusters
  <2> QED BY <1>4, <2>1 DEF Verdict!ClustersAreSeedEnvironments, Verdict!Seeds
<1>7. Verdict!InvalidRecoveryIsNotRead
  <2>1. ASSUME NEW c \in DOMAIN verdicts, NEW s \in Verdict!Invalid(verdicts[c].by),
               NEW g \in {"below", "unresolved", "scenario hazard"},
               <<s, g>> \in verdicts[c].reasons
        PROVE  FALSE
    <3> DEFINE by == verdicts[c].by
    <3>1. <<s, g>> \in Verdict!Promotion(by).reasons
      BY <1>3, <2>1 DEF JudgedOf
    <3>2. s \in DOMAIN by /\ by[s].worker
      BY DEF Verdict!Invalid
    <3>3. <<s, g>> \notin Verdict!Safety(by) /\ <<s, g>> \notin Verdict!Nominal(by)
      <4> HIDE DEF by
      <4>1. g \notin {"worker", "unsafe", "duty", "com", "early"}
        BY <2>1
      <4>2. ASSUME <<s, g>> \in Verdict!Safety(by) PROVE FALSE
        <5>1. PICK t \in DOMAIN by : \E h \in {"worker", "unsafe"} : <<s, g>> = <<t, h>>
          BY <4>2, GatesAre
        <5> QED BY <4>1, <5>1
      <4>3. ASSUME <<s, g>> \in Verdict!Nominal(by) PROVE FALSE
        <5>1. PICK t \in DOMAIN by : \E h \in {"duty", "com", "early"} : <<s, g>> = <<t, h>>
          BY <4>3, GatesAre
        <5> QED BY <4>1, <5>1
      <4> QED BY <4>2, <4>3
    <3>4. <<s, g>> \notin Verdict!Recovery(by)
      <4>1. CASE <<s, g>> \in Verdict!Recovery(by)
        <5>1. s = "finite_impulse" /\ g # "scenario hazard"
          <6>1. \E h \in {"unreadable", "below", "unresolved"} :
                  <<s, g>> = <<"finite_impulse", h>>
            BY <4>1, GatesAre
          <6> QED BY <6>1
        <5>2. Verdict!Recovery(by) = {<<"finite_impulse", "unreadable">>}
          BY <3>2, <5>1 DEF Verdict!Recovery
        <5> QED BY <4>1, <5>1, <5>2
      <4> QED BY <4>1
    <3>5. <<s, g>> \notin Verdict!Hazard(by)
      <4>1. ASSUME <<s, g>> \in Verdict!Hazard(by) PROVE FALSE
        <5> HIDE DEF by
        <5>1. \/ \E t \in DOMAIN by \ Verdict!Invalid(by) : <<s, g>> = <<t, "scenario hazard">>
              \/ <<s, g>> = <<"overall", "hazard ratio">>
          BY <4>1, GatesAre
        <5>2. s \in Verdict!Invalid(by) /\ g # "hazard ratio"
          BY <2>1 DEF by
        <5> QED BY <5>1, <5>2
      <4> QED BY <4>1
    <3> QED BY <3>1, <3>3, <3>4, <3>5, ReasonsAre
  <2>2. ASSUME NEW c \in DOMAIN verdicts, NEW s \in Verdict!Invalid(verdicts[c].by)
        PROVE  verdicts[c].reasons \cap ({s} \X {"below", "unresolved", "scenario hazard"}) = {}
    <3>1. ASSUME NEW r \in verdicts[c].reasons,
                 r \in {s} \X {"below", "unresolved", "scenario hazard"}
          PROVE  FALSE
      <4> DEFINE B == {"below", "unresolved", "scenario hazard"}
      <4>1. \E q \in {s} : \E g \in B : r = <<q, g>>
        <5>1. \A A, C : \A p \in A \X C : \E q \in A : \E g \in C : p = <<q, g>>
          OBVIOUS
        <5>2. r \in {s} \X B
          BY <3>1
        <5> HIDE DEF B
        <5> QED BY <5>1, <5>2
      <4>2. PICK g \in {"below", "unresolved", "scenario hazard"} : r = <<s, g>>
        BY <4>1
      <4> QED BY <2>1, <3>1, <4>2
    <3> QED BY <3>1
  <2> QED BY <2>2 DEF Verdict!InvalidRecoveryIsNotRead
<1>8. Verdict!RatioIsOverValidScenarios
  <2>1. ASSUME NEW c \in DOMAIN verdicts, <<"overall", "hazard ratio">> \in verdicts[c].reasons
        PROVE  LET by == verdicts[c].by
                   valid == {s \in DOMAIN by : ~by[s].worker}
               IN  /\ valid # {}
                   /\ 10 * Cardinality(UNION {{s} \X by[s].policy : s \in valid})
                        >= 9 * Cardinality(UNION {{s} \X by[s].base : s \in valid})
    <3> DEFINE by == verdicts[c].by
               valid == {s \in DOMAIN by : ~by[s].worker}
    <3>1. JudgedOf(k, verdicts[c])
      BY <1>3
    <3>2. <<"overall", "hazard ratio">> \in Verdict!Promotion(by).reasons
      BY <2>1, <3>1 DEF JudgedOf
    <3>3. <<"overall", "hazard ratio">> \in Verdict!Hazard(by)
      <4> DEFINE r == <<"overall", "hazard ratio">>
      <4> HIDE DEF by
      <4>1. r \notin Verdict!Safety(by) /\ r \notin Verdict!Nominal(by)
            /\ r \notin Verdict!Recovery(by)
        <5>1. ASSUME r \in Verdict!Safety(by) PROVE FALSE
          <6>1. PICK t \in DOMAIN by : \E h \in {"worker", "unsafe"} : r = <<t, h>>
            BY <5>1, GatesAre
          <6> QED BY <6>1
        <5>2. ASSUME r \in Verdict!Nominal(by) PROVE FALSE
          <6>1. PICK t \in DOMAIN by : \E h \in {"duty", "com", "early"} : r = <<t, h>>
            BY <5>2, GatesAre
          <6> QED BY <6>1
        <5>3. ASSUME r \in Verdict!Recovery(by) PROVE FALSE
          <6>1. \E h \in {"unreadable", "below", "unresolved"} : r = <<"finite_impulse", h>>
            BY <5>3, GatesAre
          <6> QED BY <6>1
        <5> QED BY <5>1, <5>2, <5>3
      <4> QED BY <3>2, <4>1, ReasonsAre
    <3>4. valid = Verdict!ScoredScenarios(by)
      BY DEF Verdict!ScoredScenarios, Verdict!Invalid
    <3>5. /\ Verdict!ScoredScenarios(by) # {}
          /\ Verdict!Exceeds(Verdict!TotalBase(by), Verdict!TotalPolicy(by), 9)
      BY <3>3 DEF Verdict!Hazard
    <3>6. 10 * Cardinality(Verdict!TotalPolicy(by)) >= 9 * Cardinality(Verdict!TotalBase(by))
      BY <1>2, <3>1, <3>5, TotalsAreFinite, ExceedsIs
    <3> QED BY <3>4, <3>5, <3>6 DEF Verdict!TotalBase, Verdict!TotalPolicy
  <2> QED BY <1>4, <2>1 DEF Verdict!RatioIsOverValidScenarios
<1>9. Verdict!SelectedIsTheBest
  <2>1. ASSUME selected # None, NEW c \in DOMAIN verdicts, Verdict!Eligible(verdicts[c]),
               "finite_impulse" \in Verdict!Range1(k.scenarios)
        PROVE  Verdict!Gain(verdicts[c]) * Verdict!Share(verdicts[selected])
                 <= Verdict!Gain(verdicts[selected]) * Verdict!Share(verdicts[c])
    <3>1. selected \in DOMAIN verdicts /\ ~Verdict!Better(verdicts[c], verdicts[selected])
      BY <1>1, <2>1 DEF Selecting
    <3>2. ASSUME NEW d \in DOMAIN verdicts
          PROVE  /\ "finite_impulse" \in DOMAIN verdicts[d].by
                 /\ Verdict!Gain(verdicts[d]) \in Int /\ Verdict!Share(verdicts[d]) \in Int
      <4>1. "finite_impulse" \in DOMAIN verdicts[d].by
            /\ Sound(k, verdicts[d].by["finite_impulse"])
        BY <1>3, <2>1 DEF JudgedOf
      <4> QED BY <4>1 DEF Sound, Verdict!Gain, Verdict!Share
    <3>3. /\ Verdict!Gain(verdicts[c]) \in Int /\ Verdict!Share(verdicts[c]) \in Int
          /\ Verdict!Gain(verdicts[selected]) \in Int
          /\ Verdict!Share(verdicts[selected]) \in Int
      BY <3>1, <3>2
    <3>4. ~(Verdict!Gain(verdicts[c]) * Verdict!Share(verdicts[selected])
              > Verdict!Gain(verdicts[selected]) * Verdict!Share(verdicts[c]))
      BY <3>1, <3>2 DEF Verdict!Better
    <3>5. \A x, y \in Int : ~(x > y) => x <= y
      OBVIOUS
    <3>6. \A x, y \in Int : x * y \in Int
      OBVIOUS
    <3>7. /\ Verdict!Gain(verdicts[c]) * Verdict!Share(verdicts[selected]) \in Int
          /\ Verdict!Gain(verdicts[selected]) * Verdict!Share(verdicts[c]) \in Int
      BY <3>3, <3>6, Zenon
    <3> QED BY <3>4, <3>5, <3>7, Zenon
  <2>2. selected # None => Verdict!Eligible(verdicts[selected])
    BY <1>1 DEF Selecting
  <2> QED BY <2>1, <2>2 DEF Verdict!SelectedIsTheBest, Verdict!Scenarios
<1>10. Verdict!EligibleIsEarned
  <2>1. ASSUME NEW c \in DOMAIN verdicts, Verdict!Eligible(verdicts[c])
        PROVE  EarnedBy(verdicts[c].by)
    BY <1>2, <1>3, <2>1, EligibleEarns
  <2> QED BY <1>4, <2>1 DEF Verdict!EligibleIsEarned, EarnedBy
<1> QED BY <1>5, <1>6, <1>7, <1>8, <1>9, <1>10 DEF SelectionIsEarned

-----------------------------------------------------------------------------
(* The evaluations move one part at a time. *)

EachSuiteIsItsOwn ==
  /\ [Pairs!Next]_pairVars /\ [Cohort!Next]_cohortVars /\ [Verdict!Next]_verdictVars

LEMMA SuitesTakeTheirSteps == [QualificationNext]_qualificationVars => EachSuiteIsItsOwn
<1> SUFFICES ASSUME [QualificationNext]_qualificationVars PROVE EachSuiteIsItsOwn
  OBVIOUS
<1>1. CASE UNCHANGED qualificationVars
  BY <1>1 DEF qualificationVars, EachSuiteIsItsOwn
<1>2. CASE suite = "pairs" /\ Pairs!Next /\ UNCHANGED <<suite, cohortVars, verdictVars>>
  BY <1>2 DEF EachSuiteIsItsOwn
<1>3. CASE suite = "cohort" /\ Cohort!Next /\ UNCHANGED <<suite, pairVars, verdictVars>>
  BY <1>3 DEF EachSuiteIsItsOwn
<1>4. CASE suite = "verdict" /\ Verdict!Next /\ UNCHANGED <<suite, pairVars, cohortVars>>
  BY <1>4 DEF EachSuiteIsItsOwn
<1> QED BY <1>1, <1>2, <1>3, <1>4 DEF QualificationNext

\* For every number of pairs, schedule, recovery window, cap and set of durations: both
\* arms of a pair live through the same pushes, every pair ends up with both arms, the
\* wrench of a push acts for the same steps in both, and every step and every fall is
\* booked once (evaluation/paired.py).
THEOREM PairsStayComparable == QualificationSpec => []PairsAreComparable
<1>1. QualificationInit => PairInv
  BY PairInit DEF QualificationInit
<1>2. PairInv /\ [QualificationNext]_qualificationVars => PairInv'
  BY SuitesTakeTheirSteps, PairNext DEF EachSuiteIsItsOwn
<1>3. PairInv => PairsAreComparable
  BY PairConclusion
<1> QED BY <1>1, <1>2, <1>3, PTL DEF QualificationSpec

\* For every number of environments, skipped window, cap, deadline and order of the terms:
\* the report takes the same number of episodes of every environment of an arm and waits for
\* each of them, a reward is that of the steps behind the window, the history is one frame
\* a step, and the controllers are closed before their environment (compare_to_baseline.py,
\* evaluation/rollout.py).
THEOREM CohortStaysFair == QualificationSpec => []CohortIsFair
<1>1. QualificationInit => CohortInv
  BY CohortStarts
<1>2. CohortInv /\ [QualificationNext]_qualificationVars => CohortInv'
  BY SuitesTakeTheirSteps, CohortNext DEF EachSuiteIsItsOwn
<1>3. CohortInv => CohortIsFair
  BY CohortConclusion
<1> QED BY <1>1, <1>2, <1>3, PTL DEF QualificationSpec

\* For every list of checkpoints, scenarios and seeds and any samples: an eligible checkpoint
\* lost no worker, resolved its recovery and had fewer falls than the baseline, a scenario is
\* judged on as many clusters as seeds and environments multiply to, a recovery that is not
\* valid is not read, and no passing checkpoint recovers better than the selected one
\* (qualify_checkpoints.py, evaluation/qualification.py).
THEOREM SelectionsAreEarned == QualificationSpec => []SelectionIsEarned
<1>1. QualificationInit => VerdictInv
  BY VerdictStarts
<1>2. VerdictInv /\ [QualificationNext]_qualificationVars => VerdictInv'
  BY SuitesTakeTheirSteps, VerdictNext DEF EachSuiteIsItsOwn
<1>3. VerdictInv => SelectionIsEarned
  BY VerdictConclusion
<1> QED BY <1>1, <1>2, <1>3, PTL DEF QualificationSpec
=============================================================================
