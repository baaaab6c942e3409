---------------------- MODULE AchievementCurriculum_proofs ----------------------
(***************************************************************************)
(* First what apply_qualification does to the hysteresis state, for every  *)
(* sequence of reports; then the curriculum built on it, for any number of *)
(* lives, checkpoints and reports.                                         *)
(***************************************************************************)
EXTENDS AchievementCurriculum, TLAPS

USE StagesAssumption

-----------------------------------------------------------------------------
(***************************************************************************)
(* One more report in the list of the processed ones.                      *)
(***************************************************************************)

\* A fresh identity keeps the identities distinct.
LEMMA FreshIsCountedOnce ==
  ASSUME NEW s, NEW t, NEW e \in Evidence,
         s.processed \in Seq(Evidence),
         t.processed = Append(s.processed, e),
         CountedOnce(s), ~IsDuplicate(s, e)
  PROVE  CountedOnce(t)
<1>1. /\ Len(t.processed) = Len(s.processed) + 1
      /\ \A i \in 1 .. Len(s.processed) : t.processed[i] = s.processed[i]
      /\ t.processed[Len(s.processed) + 1] = e
      /\ Len(s.processed) \in Nat
  OBVIOUS
<1> SUFFICES ASSUME NEW i \in 1 .. Len(t.processed), NEW j \in 1 .. Len(t.processed),
                    Identity(t.processed[i]) = Identity(t.processed[j])
             PROVE  i = j
  BY DEF CountedOnce
<1>2. CASE i <= Len(s.processed) /\ j <= Len(s.processed)
  <2>1. i \in 1 .. Len(s.processed) /\ j \in 1 .. Len(s.processed)
    BY <1>1, <1>2
  <2>2. Identity(s.processed[i]) = Identity(s.processed[j])
    BY <1>1, <2>1
  <2> QED BY <2>1, <2>2 DEF CountedOnce
<1>3. CASE i <= Len(s.processed) /\ j > Len(s.processed)
  <2>1. i \in 1 .. Len(s.processed) /\ j = Len(s.processed) + 1
    BY <1>1, <1>3
  <2>2. Identity(s.processed[i]) = Identity(e)
    BY <1>1, <2>1
  <2> QED BY <2>1, <2>2 DEF IsDuplicate
<1>4. CASE i > Len(s.processed) /\ j <= Len(s.processed)
  <2>1. j \in 1 .. Len(s.processed) /\ i = Len(s.processed) + 1
    BY <1>1, <1>4
  <2>2. Identity(s.processed[j]) = Identity(e)
    BY <1>1, <2>1
  <2> QED BY <2>1, <2>2 DEF IsDuplicate
<1>5. CASE i > Len(s.processed) /\ j > Len(s.processed)
  BY <1>1, <1>5
<1> QED BY <1>1, <1>2, <1>3, <1>4, <1>5

\* A run of reports that passed a stage stays in the list.
LEMMA EarnedStaysEarned ==
  ASSUME NEW s, NEW t, NEW e \in Evidence, NEW stage,
         s.processed \in Seq(Evidence),
         t.processed = Append(s.processed, e),
         t.qualified[stage] = s.qualified[stage],
         StageIsEarned(s, stage)
  PROVE  StageIsEarned(t, stage)
<1>1. /\ Len(t.processed) = Len(s.processed) + 1
      /\ \A i \in 1 .. Len(s.processed) : t.processed[i] = s.processed[i]
      /\ Len(s.processed) \in Nat
  OBVIOUS
<1>2. PICK last \in 1 .. Len(s.processed) :
        /\ StreakEndsAt(s, last, RequiredPasses, stage, TRUE)
        /\ s.qualified[stage] # None
        /\ s.qualified[stage].checkpoint = s.processed[last].checkpoint
  BY DEF StageIsEarned
<1>3. last \in 1 .. Len(t.processed)
  BY <1>1
<1>4. StreakEndsAt(t, last, RequiredPasses, stage, TRUE)
  BY <1>1, <1>2 DEF StreakEndsAt
<1> QED BY <1>1, <1>2, <1>3, <1>4 DEF StageIsEarned

\* A report with the says of the streak lengthens it.
LEMMA StreakGrows ==
  ASSUME NEW s, NEW t, NEW e \in Evidence, NEW stage, NEW says, NEW length \in Nat,
         s.processed \in Seq(Evidence),
         t.processed = Append(s.processed, e),
         e.stage = stage, e.eligible = says,
         StreakEndsAt(s, Len(s.processed), length, stage, says)
  PROVE  StreakEndsAt(t, Len(t.processed), length + 1, stage, says)
<1>1. /\ Len(t.processed) = Len(s.processed) + 1
      /\ \A i \in 1 .. Len(s.processed) : t.processed[i] = s.processed[i]
      /\ t.processed[Len(s.processed) + 1] = e
      /\ Len(s.processed) \in Nat
  OBVIOUS
<1>2. length <= Len(s.processed)
  BY DEF StreakEndsAt
<1>3. ASSUME NEW i \in (Len(t.processed) - (length + 1) + 1) .. Len(t.processed)
      PROVE  t.processed[i].stage = stage /\ t.processed[i].eligible = says
  <2>1. CASE i = Len(s.processed) + 1
    BY <1>1, <2>1
  <2>2. CASE i <= Len(s.processed)
    <3>1. i \in (Len(s.processed) - length + 1) .. Len(s.processed)
      BY <1>1, <1>2, <2>2
    <3>2. i \in 1 .. Len(s.processed)
      BY <1>1, <1>2, <3>1
    <3> QED BY <1>1, <3>1, <3>2 DEF StreakEndsAt
  <2>3. i = Len(s.processed) + 1 \/ i <= Len(s.processed)
    BY <1>1
  <2> QED BY <2>1, <2>2, <2>3
<1> QED BY <1>1, <1>2, <1>3 DEF StreakEndsAt

LEMMA NoStreak ==
  ASSUME NEW s, NEW stage, NEW says, s.processed \in Seq(Evidence)
  PROVE  StreakEndsAt(s, Len(s.processed), 0, stage, says)
<1>1. Len(s.processed) \in Nat
  OBVIOUS
<1> QED BY <1>1 DEF StreakEndsAt

-----------------------------------------------------------------------------
(***************************************************************************)
(* The outcomes of a report about the active stage.                        *)
(***************************************************************************)

\* What an update of the streaks, of the levels or of a qualified checkpoint
\* leaves in place.  The truth values are a set like the others here.
LEMMA StreakUpdate ==
  ASSUME NEW r \in AchievementStates, NEW p \in Nat, NEW n \in Nat
  PROVE  /\ WithStreaks(r, p, n) \in AchievementStates
         /\ WithStreaks(r, p, n).current = r.current
         /\ WithStreaks(r, p, n).highest = r.highest
         /\ WithStreaks(r, p, n).passes = p
         /\ WithStreaks(r, p, n).regressions = n
         /\ WithStreaks(r, p, n).mastered = r.mastered
         /\ WithStreaks(r, p, n).processed = r.processed
         /\ WithStreaks(r, p, n).qualified = r.qualified
         /\ WithStreaks(r, p, n).lastGood = r.lastGood
<1> DEFINE B == BOOLEAN
<1>1. AchievementStates =
        [current : Stages, highest : -1 .. LastStage, passes : Nat, regressions : Nat,
         mastered : B, processed : Seq(Evidence),
         qualified : [Stages -> Paths \cup {None}],
         lastReport : Evidence \cup {None}, lastGood : Paths \cup {None}]
  BY DEF AchievementStates
<1> HIDE DEF B
<1> QED BY <1>1 DEF WithStreaks

LEMMA LevelUpdate ==
  ASSUME NEW r \in AchievementStates, NEW c \in Stages, NEW h \in -1 .. LastStage,
         NEW m \in BOOLEAN, NEW g \in Paths \cup {None}
  PROVE  /\ AtLevel(r, c, h, m, g) \in AchievementStates
         /\ AtLevel(r, c, h, m, g).current = c
         /\ AtLevel(r, c, h, m, g).highest = h
         /\ AtLevel(r, c, h, m, g).passes = 0
         /\ AtLevel(r, c, h, m, g).regressions = 0
         /\ AtLevel(r, c, h, m, g).mastered = m
         /\ AtLevel(r, c, h, m, g).processed = r.processed
         /\ AtLevel(r, c, h, m, g).qualified = r.qualified
         /\ AtLevel(r, c, h, m, g).lastGood = g
<1> DEFINE B == BOOLEAN
<1>1. AchievementStates =
        [current : Stages, highest : -1 .. LastStage, passes : Nat, regressions : Nat,
         mastered : B, processed : Seq(Evidence),
         qualified : [Stages -> Paths \cup {None}],
         lastReport : Evidence \cup {None}, lastGood : Paths \cup {None}]
  BY DEF AchievementStates
<1>2. m \in B
  OBVIOUS
<1> HIDE DEF B
<1> QED BY <1>1, <1>2 DEF AtLevel

LEMMA QualifiedUpdate ==
  ASSUME NEW r \in AchievementStates, NEW q \in [Stages -> Paths \cup {None}]
  PROVE  /\ [r EXCEPT !.qualified = q] \in AchievementStates
         /\ [r EXCEPT !.qualified = q].processed = r.processed
         /\ [r EXCEPT !.qualified = q].qualified = q
<1> DEFINE B == BOOLEAN
<1>1. AchievementStates =
        [current : Stages, highest : -1 .. LastStage, passes : Nat, regressions : Nat,
         mastered : B, processed : Seq(Evidence),
         qualified : [Stages -> Paths \cup {None}],
         lastReport : Evidence \cup {None}, lastGood : Paths \cup {None}]
  BY DEF AchievementStates
<1> HIDE DEF B
<1> QED BY <1>1

LEMMA RecordedFields ==
  ASSUME NEW s \in AchievementStates, NEW e \in Evidence
  PROVE  /\ Recorded(s, e) \in AchievementStates
         /\ Recorded(s, e).processed = Append(s.processed, e)
         /\ Recorded(s, e).current = s.current
         /\ Recorded(s, e).highest = s.highest
         /\ Recorded(s, e).passes = s.passes
         /\ Recorded(s, e).regressions = s.regressions
         /\ Recorded(s, e).mastered = s.mastered
         /\ Recorded(s, e).qualified = s.qualified
         /\ Recorded(s, e).lastGood = s.lastGood
<1>1. s.processed \in Seq(Evidence)
  BY DEF AchievementStates
<1>2. Append(s.processed, e) \in Seq(Evidence)
  BY <1>1
<1> QED BY <1>2 DEF Recorded, AchievementStates

LEMMA PassPendingIsEarned ==
  ASSUME NEW s \in AchievementStates, IsEarned(s), NEW e \in Evidence,
         e.stage = s.current, ~IsDuplicate(s, e), e.eligible, ~Qualifies(s, e)
  PROVE  PassPending(s, e) \in AchievementStates /\ IsEarned(PassPending(s, e))
<1> DEFINE t == PassPending(s, e)
<1>1. /\ t \in AchievementStates
      /\ t.processed = Append(s.processed, e)
      /\ t.current = s.current /\ t.highest = s.highest
      /\ t.passes = s.passes + 1 /\ t.regressions = 0
      /\ t.mastered = s.mastered /\ t.qualified = s.qualified
      /\ t.lastGood = s.lastGood
  <2> DEFINE r == Recorded(s, e)
             p == s.passes + 1
             n == 0
  <2>1. p \in Nat /\ n \in Nat
    BY DEF AchievementStates
  <2>2. r \in AchievementStates
    BY RecordedFields
  <2>3. t = WithStreaks(r, p, n)
    BY DEF PassPending
  <2> HIDE DEF r, t, p, n
  <2>4. /\ t \in AchievementStates
        /\ t.current = r.current /\ t.highest = r.highest
        /\ t.passes = p /\ t.regressions = n
        /\ t.mastered = r.mastered /\ t.processed = r.processed
        /\ t.qualified = r.qualified /\ t.lastGood = r.lastGood
    BY <2>1, <2>2, <2>3, StreakUpdate
  <2> QED BY <2>4, RecordedFields DEF r, p, n
<1>2. /\ s.processed \in Seq(Evidence) /\ t.processed \in Seq(Evidence)
      /\ s.passes \in Nat
  BY <1>1 DEF AchievementStates
<1> HIDE DEF t
<1>3. CountedOnce(t)
  BY <1>1, <1>2, FreshIsCountedOnce DEF IsEarned
<1>4. StreaksAreEarned(t)
  <2>1. t.passes < RequiredPasses /\ t.regressions < RequiredRegressions
    BY <1>1, <1>2 DEF Qualifies
  <2>2. StreakEndsAt(s, Len(s.processed), s.passes, s.current, TRUE)
    BY DEF IsEarned, StreaksAreEarned
  <2>3. e.eligible = TRUE
    BY DEF Evidence
  <2>4. StreakEndsAt(t, Len(t.processed), s.passes + 1, s.current, TRUE)
    BY <1>1, <1>2, <2>2, <2>3, StreakGrows
  <2>5. StreakEndsAt(t, Len(t.processed), 0, t.current, FALSE)
    BY <1>2, NoStreak
  <2> QED BY <1>1, <2>1, <2>4, <2>5 DEF StreaksAreEarned
<1>5. LevelsAgree(t)
  BY <1>1 DEF IsEarned, LevelsAgree
<1>6. \A stage \in 0 .. t.highest : StageIsEarned(t, stage)
  BY <1>1, <1>2, EarnedStaysEarned DEF IsEarned
<1>7. IsEarned(t)
  BY <1>3, <1>4, <1>5, <1>6 DEF IsEarned
<1> QED BY <1>1, <1>7 DEF t

LEMMA RegressionPendingIsEarned ==
  ASSUME NEW s \in AchievementStates, IsEarned(s), NEW e \in Evidence,
         e.stage = s.current, ~IsDuplicate(s, e), ~e.eligible, ~Demotes(s, e)
  PROVE  /\ RegressionPending(s, e) \in AchievementStates
         /\ IsEarned(RegressionPending(s, e))
<1> DEFINE t == RegressionPending(s, e)
<1>1. /\ t \in AchievementStates
      /\ t.processed = Append(s.processed, e)
      /\ t.current = s.current /\ t.highest = s.highest
      /\ t.passes = 0 /\ t.regressions = s.regressions + 1
      /\ t.mastered = s.mastered /\ t.qualified = s.qualified
      /\ t.lastGood = s.lastGood
  <2> DEFINE r == Recorded(s, e)
             p == 0
             n == s.regressions + 1
  <2>1. p \in Nat /\ n \in Nat
    BY DEF AchievementStates
  <2>2. r \in AchievementStates
    BY RecordedFields
  <2>3. t = WithStreaks(r, p, n)
    BY DEF RegressionPending
  <2> HIDE DEF r, t, p, n
  <2>4. /\ t \in AchievementStates
        /\ t.current = r.current /\ t.highest = r.highest
        /\ t.passes = p /\ t.regressions = n
        /\ t.mastered = r.mastered /\ t.processed = r.processed
        /\ t.qualified = r.qualified /\ t.lastGood = r.lastGood
    BY <2>1, <2>2, <2>3, StreakUpdate
  <2> QED BY <2>4, RecordedFields DEF r, p, n
<1>2. /\ s.processed \in Seq(Evidence) /\ t.processed \in Seq(Evidence)
      /\ s.regressions \in Nat
  BY <1>1 DEF AchievementStates
<1> HIDE DEF t
<1>3. CountedOnce(t)
  BY <1>1, <1>2, FreshIsCountedOnce DEF IsEarned
<1>4. StreaksAreEarned(t)
  <2>1. t.passes < RequiredPasses /\ t.regressions < RequiredRegressions
    BY <1>1, <1>2 DEF Demotes
  <2>2. StreakEndsAt(s, Len(s.processed), s.regressions, s.current, FALSE)
    BY DEF IsEarned, StreaksAreEarned
  <2>3. e.eligible = FALSE
    BY DEF Evidence
  <2>4. StreakEndsAt(t, Len(t.processed), s.regressions + 1, s.current, FALSE)
    BY <1>1, <1>2, <2>2, <2>3, StreakGrows
  <2>5. StreakEndsAt(t, Len(t.processed), 0, t.current, TRUE)
    BY <1>2, NoStreak
  <2> QED BY <1>1, <2>1, <2>4, <2>5 DEF StreaksAreEarned
<1>5. LevelsAgree(t)
  BY <1>1 DEF IsEarned, LevelsAgree
<1>6. \A stage \in 0 .. t.highest : StageIsEarned(t, stage)
  BY <1>1, <1>2, EarnedStaysEarned DEF IsEarned
<1>7. IsEarned(t)
  BY <1>3, <1>4, <1>5, <1>6 DEF IsEarned
<1> QED BY <1>1, <1>7 DEF t

\* A promotion that files the checkpoint of its last report under any path: the
\* one evaluated, or the copy preserved of it.
AdvancedWith(s, e, path) ==
  AtLevel([Recorded(s, e) EXCEPT !.qualified[s.current] = path],
          NextStage(s.current), s.current, s.current = LastStage, path)

LEMMA AdvancedIsEarned ==
  ASSUME NEW s \in AchievementStates, IsEarned(s), NEW e \in Evidence,
         e.stage = s.current, ~IsDuplicate(s, e), Qualifies(s, e),
         NEW path \in Paths, path.checkpoint = e.checkpoint
  PROVE  /\ AdvancedWith(s, e, path) \in AchievementStates
         /\ IsEarned(AdvancedWith(s, e, path))
         /\ AdvancedWith(s, e, path).highest = s.current
         /\ AdvancedWith(s, e, path).processed = Append(s.processed, e)
         /\ AdvancedWith(s, e, path).qualified = [s.qualified EXCEPT ![s.current] = path]
<1> DEFINE t == AdvancedWith(s, e, path)
<1>1. /\ s.current \in Stages /\ s.passes \in Nat
      /\ s.qualified \in [Stages -> Paths \cup {None}]
      /\ s.highest \in -1 .. LastStage
      /\ s.processed \in Seq(Evidence)
  BY DEF AchievementStates
<1>2. path \in Paths /\ path.checkpoint = e.checkpoint /\ path # None
  BY NoneAssumption
<1>3. /\ t \in AchievementStates
      /\ t.processed = Append(s.processed, e)
      /\ t.current = IF s.current = LastStage THEN LastStage ELSE s.current + 1
      /\ t.highest = s.current
      /\ t.passes = 0 /\ t.regressions = 0
      /\ t.mastered = (s.current = LastStage)
      /\ t.qualified = [s.qualified EXCEPT ![s.current] = path]
      /\ t.lastGood = path
  <2> DEFINE r == Recorded(s, e)
             q == [s.qualified EXCEPT ![s.current] = path]
             f == [r EXCEPT !.qualified = q]
             m == s.current = LastStage
  <2>1. /\ r \in AchievementStates /\ r.processed = Append(s.processed, e)
        /\ r.qualified = s.qualified
    BY RecordedFields
  <2>2. q \in [Stages -> Paths \cup {None}] /\ path \in Paths \cup {None}
    BY <1>1, <1>2
  <2>3. NextStage(s.current) \in Stages /\ s.current \in -1 .. LastStage
    BY <1>1 DEF Stages, NextStage
  <2>4. m \in BOOLEAN
    OBVIOUS
  <2>5. t = AtLevel(f, NextStage(s.current), s.current, m, path)
    BY <2>1 DEF AdvancedWith
  <2> HIDE DEF r, q, m
  <2>6. f \in AchievementStates /\ f.processed = r.processed /\ f.qualified = q
    BY <2>1, <2>2, QualifiedUpdate
  <2> HIDE DEF f, t
  <2>7. /\ t \in AchievementStates
        /\ t.current = NextStage(s.current) /\ t.highest = s.current
        /\ t.passes = 0 /\ t.regressions = 0
        /\ t.mastered = m /\ t.processed = f.processed
        /\ t.qualified = f.qualified /\ t.lastGood = path
    BY <2>2, <2>3, <2>4, <2>5, <2>6, LevelUpdate
  <2> QED BY <2>1, <2>6, <2>7 DEF m, q, NextStage
<1>4. t.processed \in Seq(Evidence)
  BY <1>3 DEF AchievementStates
<1> HIDE DEF t
<1>5. CountedOnce(t)
  BY <1>1, <1>3, FreshIsCountedOnce DEF IsEarned
<1>6. StreaksAreEarned(t)
  <2>1. StreakEndsAt(t, Len(t.processed), 0, t.current, TRUE)
    BY <1>4, NoStreak
  <2>2. StreakEndsAt(t, Len(t.processed), 0, t.current, FALSE)
    BY <1>4, NoStreak
  <2>3. t.passes = 0 /\ t.regressions = 0
    BY <1>3
  <2>4. t.passes < RequiredPasses /\ t.regressions < RequiredRegressions
    BY <2>3
  <2> QED BY <2>1, <2>2, <2>3, <2>4 DEF StreaksAreEarned
<1>7. LevelsAgree(t)
  <2>1. t.highest \in {t.current - 1, t.current}
    BY <1>1, <1>3 DEF Stages
  <2>2. t.mastered <=> t.highest = LastStage
    BY <1>3, Zenon
  <2>3. t.lastGood = t.qualified[t.highest] /\ t.highest # -1
    BY <1>1, <1>3 DEF Stages
  <2> QED BY <2>1, <2>2, <2>3 DEF LevelsAgree
<1>8. ASSUME NEW stage \in 0 .. t.highest
      PROVE  StageIsEarned(t, stage)
  <2>1. CASE stage = s.current
    <3>1. RequiredPasses = s.passes + 1
      BY <1>1 DEF IsEarned, StreaksAreEarned, Qualifies
    <3>2. StreakEndsAt(s, Len(s.processed), s.passes, s.current, TRUE)
      BY DEF IsEarned, StreaksAreEarned
    <3>3. e.eligible = TRUE
      BY DEF Evidence, Qualifies
    <3>4. StreakEndsAt(t, Len(t.processed), s.passes + 1, s.current, TRUE)
      BY <1>1, <1>3, <3>2, <3>3, StreakGrows
    <3>5. /\ Len(t.processed) \in 1 .. Len(t.processed)
          /\ t.processed[Len(t.processed)] = e
      BY <1>1, <1>3
    <3>6. t.qualified[stage] = path
      BY <1>1, <1>3, <2>1
    <3> QED BY <1>2, <2>1, <3>1, <3>4, <3>5, <3>6 DEF StageIsEarned
  <2>2. CASE stage # s.current
    <3>1. stage \in 0 .. s.highest
      BY <1>1, <1>3, <2>2 DEF IsEarned, LevelsAgree, Stages
    <3>2. t.qualified[stage] = s.qualified[stage]
      BY <1>1, <1>3, <2>2, <3>1 DEF Stages
    <3>3. StageIsEarned(s, stage) /\ t.processed = Append(s.processed, e)
      BY <1>3, <3>1 DEF IsEarned
    <3> QED BY <1>1, <3>2, <3>3, EarnedStaysEarned
  <2> QED BY <2>1, <2>2
<1>9. IsEarned(t)
  BY <1>5, <1>6, <1>7, <1>8 DEF IsEarned
<1> QED BY <1>1, <1>3, <1>9 DEF t

LEMMA DemotedIsEarned ==
  ASSUME NEW s \in AchievementStates, IsEarned(s), NEW e \in Evidence,
         e.stage = s.current, ~IsDuplicate(s, e), Demotes(s, e)
  PROVE  Demoted(s, e) \in AchievementStates /\ IsEarned(Demoted(s, e))
<1> DEFINE t == Demoted(s, e)
           target == IF s.current = 0 THEN 0 ELSE s.current - 1
           highest == IF s.current = 0 THEN -1 ELSE s.current - 1
<1>1. /\ s.current \in Stages
      /\ s.qualified \in [Stages -> Paths \cup {None}]
      /\ s.highest \in -1 .. LastStage
      /\ s.processed \in Seq(Evidence)
      /\ s.highest \in {s.current - 1, s.current}
  BY DEF AchievementStates, IsEarned, LevelsAgree
<1>2. /\ target \in Stages
      /\ highest \in -1 .. LastStage
      /\ highest <= s.highest
      /\ s.qualified[target] \in Paths \cup {None}
  BY <1>1 DEF Stages
<1>3. /\ t \in AchievementStates
      /\ t.processed = Append(s.processed, e)
      /\ t.current = target
      /\ t.highest = highest
      /\ t.passes = 0 /\ t.regressions = 0
      /\ t.mastered = FALSE
      /\ t.qualified = s.qualified
      /\ t.lastGood = IF highest >= target THEN s.qualified[target] ELSE None
  <2> DEFINE r == Recorded(s, e)
             good == IF highest >= target THEN s.qualified[target] ELSE None
             m == FALSE
  <2>1. /\ r \in AchievementStates /\ r.processed = Append(s.processed, e)
        /\ r.qualified = s.qualified
    BY RecordedFields
  <2>2. highest = IF s.current = 0 THEN -1
                  ELSE IF s.highest < target THEN s.highest ELSE target
    BY <1>1 DEF Stages
  <2>3. good \in Paths \cup {None}
    BY <1>2
  <2>4. m \in BOOLEAN
    OBVIOUS
  <2>5. t = AtLevel(r, target, highest, m, good)
    BY <2>2 DEF Demoted, PreviousStage
  <2> HIDE DEF r, t, good, target, highest, m
  <2>6. /\ t \in AchievementStates
        /\ t.current = target /\ t.highest = highest
        /\ t.passes = 0 /\ t.regressions = 0
        /\ t.mastered = m /\ t.processed = r.processed
        /\ t.qualified = r.qualified /\ t.lastGood = good
    BY <1>2, <2>1, <2>3, <2>4, <2>5, LevelUpdate
  <2> QED BY <2>1, <2>6 DEF good, m
<1>4. t.processed \in Seq(Evidence)
  BY <1>3 DEF AchievementStates
<1>5. CountedOnce(t)
  BY <1>1, <1>3, FreshIsCountedOnce DEF IsEarned
<1>6. StreaksAreEarned(t)
  <2>1. StreakEndsAt(t, Len(t.processed), 0, t.current, TRUE)
    BY <1>4, NoStreak
  <2>2. StreakEndsAt(t, Len(t.processed), 0, t.current, FALSE)
    BY <1>4, NoStreak
  <2>3. t.passes = 0 /\ t.regressions = 0
    BY <1>3
  <2>4. t.passes < RequiredPasses /\ t.regressions < RequiredRegressions
    BY <2>3
  <2> QED BY <2>1, <2>2, <2>3, <2>4 DEF StreaksAreEarned
<1>7. LevelsAgree(t)
  BY <1>1, <1>3 DEF LevelsAgree, Stages
<1>8. \A stage \in 0 .. t.highest : StageIsEarned(t, stage)
  <2>1. SUFFICES ASSUME NEW stage \in 0 .. t.highest PROVE StageIsEarned(t, stage)
    OBVIOUS
  <2>2. stage \in 0 .. s.highest
    BY <1>1, <1>2, <1>3
  <2> QED BY <1>1, <1>3, <2>2, EarnedStaysEarned DEF IsEarned
<1>9. IsEarned(t)
  BY <1>5, <1>6, <1>7, <1>8 DEF IsEarned
<1> QED BY <1>3, <1>9

\* apply_qualification keeps a state earned, whatever the report.
LEMMA ApplyKeepsEarned ==
  ASSUME NEW s \in AchievementStates, IsEarned(s), NEW e \in Evidence,
         e.stage = s.current
  PROVE  /\ ApplyQualification(s, e) \in AchievementStates
         /\ IsEarned(ApplyQualification(s, e))
<1>1. CASE IsDuplicate(s, e)
  BY <1>1 DEF ApplyQualification
<1>2. CASE ~IsDuplicate(s, e) /\ Qualifies(s, e)
  <2> DEFINE path == ModelPath(e.checkpoint)
  <2>1. path \in Paths /\ path.checkpoint = e.checkpoint
    BY DEF ModelPath, Paths, Evidence
  <2>2. ApplyQualification(s, e) = AdvancedWith(s, e, path)
    BY <1>2 DEF ApplyQualification, Qualifies, Demotes, Advanced, AdvancedWith
  <2> HIDE DEF path
  <2>3. /\ AdvancedWith(s, e, path) \in AchievementStates
        /\ IsEarned(AdvancedWith(s, e, path))
    BY <1>2, <2>1, AdvancedIsEarned
  <2> QED BY <2>2, <2>3
<1>3. CASE ~IsDuplicate(s, e) /\ Demotes(s, e)
  <2>1. ApplyQualification(s, e) = Demoted(s, e)
    BY <1>3 DEF ApplyQualification, Qualifies, Demotes
  <2> QED BY <1>3, <2>1, DemotedIsEarned
<1>4. CASE ~IsDuplicate(s, e) /\ e.eligible /\ ~Qualifies(s, e)
  <2>1. ApplyQualification(s, e) = PassPending(s, e)
    BY <1>4 DEF ApplyQualification, Qualifies, Demotes
  <2> QED BY <1>4, <2>1, PassPendingIsEarned
<1>5. CASE ~IsDuplicate(s, e) /\ ~e.eligible /\ ~Demotes(s, e)
  <2>1. ApplyQualification(s, e) = RegressionPending(s, e)
    BY <1>5 DEF ApplyQualification, Qualifies, Demotes
  <2> QED BY <1>5, <2>1, RegressionPendingIsEarned
<1> QED BY <1>1, <1>2, <1>3, <1>4, <1>5

LEMMA InitialIsEarned ==
  InitialState \in AchievementStates /\ IsEarned(InitialState)
<1>1. InitialState \in AchievementStates
  <2>1. <<>> \in Seq(Evidence)
    OBVIOUS
  <2> QED BY <2>1 DEF InitialState, AchievementStates, Stages
<1>2. /\ InitialState.processed = <<>> /\ Len(InitialState.processed) = 0
      /\ InitialState.highest = -1 /\ InitialState.current = 0
      /\ InitialState.passes = 0 /\ InitialState.regressions = 0
      /\ InitialState.mastered = FALSE /\ InitialState.lastGood = None
  BY DEF InitialState
<1>3. CountedOnce(InitialState)
  BY <1>2 DEF CountedOnce
<1>4. StreaksAreEarned(InitialState)
  BY <1>2 DEF StreaksAreEarned, StreakEndsAt
<1>5. LevelsAgree(InitialState)
  BY <1>2 DEF LevelsAgree
<1>6. \A stage \in 0 .. InitialState.highest : StageIsEarned(InitialState, stage)
  BY <1>2
<1> QED BY <1>1, <1>3, <1>4, <1>5, <1>6 DEF IsEarned

-----------------------------------------------------------------------------
(***************************************************************************)
(* The hysteresis.                                                         *)
(***************************************************************************)

LEMMA HysteresisIsEarned == HysteresisSpec => [](StateOK /\ IsEarned(state))
<1>1. HysteresisInit => StateOK /\ IsEarned(state)
  BY InitialIsEarned DEF HysteresisInit, StateOK
<1>2. StateOK /\ IsEarned(state) /\ [HysteresisNext]_state
        => (StateOK /\ IsEarned(state))'
  BY ApplyKeepsEarned DEF HysteresisNext, Qualification, StateOK
<1> QED BY <1>1, <1>2, PTL DEF HysteresisSpec

\* The state stays one that from_dict accepts.
THEOREM StateTypeCorrect == HysteresisSpec => []StateOK
BY HysteresisIsEarned, PTL

\* The same evidence never counts twice.
THEOREM NoEvidenceCountsTwice == HysteresisSpec => []EvidenceCountsOnce
<1>1. IsEarned(state) => EvidenceCountsOnce
  BY DEF IsEarned, EvidenceCountsOnce
<1> QED BY <1>1, HysteresisIsEarned, PTL

\* Both streaks are made of the newest reports about the active stage.
THEOREM StreaksAreExact == HysteresisSpec => []StreaksFollowReports
<1>1. IsEarned(state) => StreaksFollowReports
  BY DEF IsEarned, StreaksFollowReports
<1> QED BY <1>1, HysteresisIsEarned, PTL

\* Every stage that counts as passed has its own run of passing reports.
THEOREM PromotionsAreEarned == HysteresisSpec => []PromotionIsEarned
<1>1. IsEarned(state) => PromotionIsEarned
  BY DEF IsEarned, PromotionIsEarned
<1> QED BY <1>1, HysteresisIsEarned, PTL

\* Promotion and rollback leave the four level fields in agreement.
THEOREM LevelsStayConsistent == HysteresisSpec => []RollbackIsConsistent
<1>1. IsEarned(state) => RollbackIsConsistent
  BY DEF IsEarned, RollbackIsConsistent
<1> QED BY <1>1, HysteresisIsEarned, PTL

\* No report counts twice or for another stage.
THEOREM ReportsAreExact == HysteresisSpec => []EvidenceIsExact
BY NoEvidenceCountsTwice, StreaksAreExact, PTL DEF EvidenceIsExact

\* Levels are earned and agree, however often the curriculum went up and down.
THEOREM LevelsStayEarned == HysteresisSpec => []LevelsAreEarned
BY PromotionsAreEarned, LevelsStayConsistent, PTL DEF LevelsAreEarned
-----------------------------------------------------------------------------
USE StagesAssumption, RunAssumption

-----------------------------------------------------------------------------
(***************************************************************************)
(* States and what they name.                                              *)
(***************************************************************************)

\* The newest counted report is among the counted ones.
LastIsCounted(s) ==
  s.lastReport # None =>
    \E i \in 1 .. Len(s.processed) : s.processed[i] = s.lastReport

StateIsSound(s) == s \in AchievementStates /\ IsEarned(s) /\ LastIsCounted(s)

\* Every path a state names is that of a finished copy in c.
NamesFinished(s, c) ==
  \A stage \in Stages :
    s.qualified[stage] # None =>
      /\ s.qualified[stage].stage = stage
      /\ c[<<stage, s.qualified[stage].checkpoint>>] \notin {None, Torn}

LEMMA InitialIsSound ==
  ASSUME NEW c
  PROVE  StateIsSound(InitialState) /\ NamesFinished(InitialState, c)
<1>1. \A stage \in Stages : InitialState.qualified[stage] = None
  BY DEF InitialState
<1>2. InitialState.lastReport = None
  BY DEF InitialState
<1> QED BY <1>1, <1>2, InitialIsEarned DEF StateIsSound, NamesFinished, LastIsCounted

\* What the last conjunct of a new state is about: the report it recorded.
LEMMA RecordedIsCounted ==
  ASSUME NEW s, NEW t, NEW e \in Evidence, s.processed \in Seq(Evidence),
         t.processed = Append(s.processed, e)
  PROVE  /\ IsDuplicate(t, e)
         /\ t.lastReport = e => LastIsCounted(t)
<1>1. /\ Len(s.processed) + 1 \in 1 .. Len(t.processed)
      /\ t.processed[Len(s.processed) + 1] = e
  OBVIOUS
<1> QED BY <1>1 DEF IsDuplicate, LastIsCounted

\* The fields of a new state the counting does not decide.
LEMMA ApplyRecords ==
  ASSUME NEW s \in AchievementStates, NEW e \in Evidence, ~IsDuplicate(s, e)
  PROVE  /\ ApplyQualification(s, e).processed = Append(s.processed, e)
         /\ ApplyQualification(s, e).lastReport = e
         /\ ~Qualifies(s, e) => ApplyQualification(s, e).qualified = s.qualified
<1> DEFINE r == Recorded(s, e)
<1>1. r.processed = Append(s.processed, e) /\ r.lastReport = e /\ r.qualified = s.qualified
  BY DEF Recorded, AchievementStates
<1>2. r \in AchievementStates
  BY RecordedFields
<1> HIDE DEF r
<1>3. \A p, n : /\ WithStreaks(r, p, n).processed = r.processed
                /\ WithStreaks(r, p, n).lastReport = r.lastReport
                /\ WithStreaks(r, p, n).qualified = r.qualified
  BY <1>2 DEF WithStreaks, AchievementStates
<1>4. \A c, h, m, g : /\ AtLevel(r, c, h, m, g).processed = r.processed
                      /\ AtLevel(r, c, h, m, g).lastReport = r.lastReport
                      /\ AtLevel(r, c, h, m, g).qualified = r.qualified
  BY <1>2 DEF AtLevel, AchievementStates
<1>5. CASE Qualifies(s, e)
  <2> DEFINE f == [r EXCEPT !.qualified[s.current] = ModelPath(e.checkpoint)]
  <2>1. f.processed = r.processed /\ f.lastReport = r.lastReport
    BY <1>2 DEF AchievementStates
  <2>3. ApplyQualification(s, e)
          = AtLevel(f, NextStage(s.current), s.current, s.current = LastStage,
                    ModelPath(e.checkpoint))
    BY <1>5 DEF ApplyQualification, Advanced, Qualifies, Demotes, r
  <2>4. \A c, h, m, g : /\ AtLevel(f, c, h, m, g).processed = f.processed
                        /\ AtLevel(f, c, h, m, g).lastReport = f.lastReport
    BY <1>2 DEF AtLevel, AchievementStates
  <2> HIDE DEF f
  <2> QED BY <1>1, <1>5, <2>1, <2>3, <2>4
<1>6. CASE Demotes(s, e)
  <2>1. ApplyQualification(s, e) = Demoted(s, e)
    BY <1>6 DEF ApplyQualification, Qualifies, Demotes
  <2>2. \E c, h, m, g : Demoted(s, e) = AtLevel(r, c, h, m, g)
    BY DEF Demoted, r
  <2> QED BY <1>1, <1>4, <2>1, <2>2
<1>7. CASE e.eligible /\ ~Qualifies(s, e)
  <2>1. ApplyQualification(s, e) = WithStreaks(r, s.passes + 1, 0)
    BY <1>7 DEF ApplyQualification, Qualifies, Demotes, PassPending, r
  <2> QED BY <1>1, <1>3, <2>1
<1>8. CASE ~e.eligible /\ ~Demotes(s, e)
  <2>1. ApplyQualification(s, e) = WithStreaks(r, 0, s.regressions + 1)
    BY <1>8 DEF ApplyQualification, Qualifies, Demotes, RegressionPending, r
  <2> QED BY <1>1, <1>3, <2>1
<1> QED BY <1>5, <1>6, <1>7, <1>8 DEF Qualifies, Demotes

\* A report that does not qualify the stage.
LEMMA CountKeepsSound ==
  ASSUME NEW s, StateIsSound(s), NEW e \in Evidence, NEW c,
         e.stage = s.current, NamesFinished(s, c),
         IsDuplicate(s, e) \/ ~Qualifies(s, e)
  PROVE  /\ StateIsSound(ApplyQualification(s, e))
         /\ NamesFinished(ApplyQualification(s, e), c)
         /\ IsDuplicate(ApplyQualification(s, e), e)
<1> DEFINE t == ApplyQualification(s, e)
<1>1. t \in AchievementStates /\ IsEarned(t)
  BY ApplyKeepsEarned DEF StateIsSound
<1>2. CASE IsDuplicate(s, e)
  <2>1. t = s
    BY <1>2 DEF ApplyQualification
  <2> QED BY <1>2, <2>1
<1>3. CASE ~IsDuplicate(s, e)
  <2>1. /\ t.processed = Append(s.processed, e) /\ t.lastReport = e
        /\ t.qualified = s.qualified
    BY <1>3, ApplyRecords DEF StateIsSound
  <2>2. s.processed \in Seq(Evidence)
    BY DEF StateIsSound, AchievementStates
  <2> HIDE DEF t
  <2>3. LastIsCounted(t) /\ IsDuplicate(t, e)
    BY <2>1, <2>2, RecordedIsCounted
  <2>4. NamesFinished(t, c)
    BY <2>1 DEF NamesFinished
  <2>5. StateIsSound(t)
    BY <1>1, <2>3 DEF StateIsSound
  <2> QED BY <2>3, <2>4, <2>5 DEF t
<1> QED BY <1>2, <1>3

\* The preserved path takes the place the evaluated one would have had.
LEMMA PathIsReplaced ==
  ASSUME NEW s \in AchievementStates, NEW e \in Evidence,
         ~IsDuplicate(s, e), Qualifies(s, e)
  PROVE  WithPreservedPath(s, e)
           = AdvancedWith(s, e, QualifiedPath(s.current, e.checkpoint))
<1> DEFINE r == Recorded(s, e)
           path == QualifiedPath(s.current, e.checkpoint)
           model == ModelPath(e.checkpoint)
           next == NextStage(s.current)
           m == s.current = LastStage
           B == BOOLEAN
<1>1. r \in AchievementStates /\ s.current \in Stages
  BY RecordedFields DEF AchievementStates
<1>2. AchievementStates =
        [current : Stages, highest : -1 .. LastStage, passes : Nat, regressions : Nat,
         mastered : B, processed : Seq(Evidence),
         qualified : [Stages -> Paths \cup {None}],
         lastReport : Evidence \cup {None}, lastGood : Paths \cup {None}]
  BY DEF AchievementStates
<1>3. ApplyQualification(s, e)
        = AtLevel([r EXCEPT !.qualified[s.current] = model], next, s.current, m, model)
  BY DEF ApplyQualification, Advanced, Qualifies, Demotes
<1>4. WithPreservedPath(s, e)
        = [ApplyQualification(s, e) EXCEPT !.qualified[s.current] = path, !.lastGood = path]
  BY DEF WithPreservedPath
<1>5. AdvancedWith(s, e, path)
        = AtLevel([r EXCEPT !.qualified[s.current] = path], next, s.current, m, path)
  BY DEF AdvancedWith
<1> HIDE DEF r, path, model, next, m, B
<1>6. [AtLevel([r EXCEPT !.qualified[s.current] = model], next, s.current, m, model)
         EXCEPT !.qualified[s.current] = path, !.lastGood = path]
        = AtLevel([r EXCEPT !.qualified[s.current] = path], next, s.current, m, path)
  BY <1>1, <1>2 DEF AtLevel
<1> QED BY <1>3, <1>4, <1>5, <1>6 DEF path

LEMMA QualifyKeepsSound ==
  ASSUME NEW s, StateIsSound(s), NEW e \in Evidence, NEW c,
         e.stage = s.current, NamesFinished(s, c),
         ~IsDuplicate(s, e), Qualifies(s, e),
         c[<<s.current, e.checkpoint>>] \notin {None, Torn}
  PROVE  /\ StateIsSound(WithPreservedPath(s, e))
         /\ NamesFinished(WithPreservedPath(s, e), c)
         /\ IsDuplicate(WithPreservedPath(s, e), e)
<1> DEFINE t == WithPreservedPath(s, e)
           path == QualifiedPath(s.current, e.checkpoint)
<1>1. /\ s \in AchievementStates /\ s.processed \in Seq(Evidence)
      /\ s.current \in Stages /\ s.qualified \in [Stages -> Paths \cup {None}]
  BY DEF StateIsSound, AchievementStates
<1>2. path \in Paths /\ path.checkpoint = e.checkpoint /\ path.stage = s.current
  BY <1>1 DEF QualifiedPath, Paths, Evidence
<1>3. t = AdvancedWith(s, e, path)
  BY <1>1, PathIsReplaced
<1>4. t.lastReport = e
  <2>1. ApplyQualification(s, e).lastReport = e
    BY <1>1, ApplyRecords
  <2>2. ApplyQualification(s, e) \in AchievementStates
    BY <1>1, ApplyKeepsEarned DEF StateIsSound
  <2> DEFINE a == ApplyQualification(s, e)
  <2>3. t = [a EXCEPT !.qualified[s.current] = path, !.lastGood = path]
    BY DEF WithPreservedPath
  <2> HIDE DEF a, t, path
  <2>4. a \in AchievementStates /\ a.lastReport = e
    BY <2>1, <2>2 DEF a
  <2> QED BY <2>3, <2>4 DEF AchievementStates
<1> HIDE DEF t, path
<1>5. /\ t \in AchievementStates /\ IsEarned(t)
      /\ t.processed = Append(s.processed, e)
      /\ t.qualified = [s.qualified EXCEPT ![s.current] = path]
      /\ t.lastReport = e
  BY <1>1, <1>2, <1>3, <1>4, AdvancedIsEarned DEF StateIsSound
<1>6. LastIsCounted(t) /\ IsDuplicate(t, e)
  BY <1>1, <1>5, RecordedIsCounted
<1>7. NamesFinished(t, c)
  <2> SUFFICES ASSUME NEW stage \in Stages, t.qualified[stage] # None
               PROVE  /\ t.qualified[stage].stage = stage
                      /\ c[<<stage, t.qualified[stage].checkpoint>>] \notin {None, Torn}
    BY DEF NamesFinished
  <2>1. CASE stage = s.current
    BY <1>1, <1>2, <1>5, <2>1
  <2>2. CASE stage # s.current
    <3>1. t.qualified[stage] = s.qualified[stage]
      BY <1>1, <1>5, <2>2
    <3> QED BY <3>1 DEF NamesFinished
  <2> QED BY <2>1, <2>2
<1>8. StateIsSound(t)
  BY <1>5, <1>6 DEF StateIsSound
<1> QED BY <1>6, <1>7, <1>8 DEF t

\* More finished copies break no name.
LEMMA NamesSurvive ==
  ASSUME NEW s, NEW c, NEW d, s \in AchievementStates, NamesFinished(s, c),
         \A target \in Stages \X Checkpoints :
           c[target] \notin {None, Torn} => d[target] = c[target]
  PROVE  NamesFinished(s, d)
<1> SUFFICES ASSUME NEW stage \in Stages, s.qualified[stage] # None
             PROVE  /\ s.qualified[stage].stage = stage
                    /\ d[<<stage, s.qualified[stage].checkpoint>>] \notin {None, Torn}
  BY DEF NamesFinished
<1>1. s.qualified[stage] \in Paths
  BY DEF AchievementStates
<1>2. <<stage, s.qualified[stage].checkpoint>> \in Stages \X Checkpoints
  BY <1>1 DEF Paths
<1> QED BY <1>2 DEF NamesFinished

-----------------------------------------------------------------------------
(***************************************************************************)
(* The inductive invariant.                                                *)
(***************************************************************************)

SoundWith(s, c) == StateIsSound(s) /\ NamesFinished(s, c)

\* The trainer's state and every one a later trainer can load.
AllAreSound ==
  /\ SoundWith(state, copies)
  /\ \A n \in Checkpoints : models[n] # None => SoundWith(models[n].snapshot, copies)

\* Between the decision to preserve and the outcome, the report still qualifies
\* the stage, and the file being written is the trainer's own.
PreservesForStage ==
  /\ pc \in {"preserving", "copying"} =>
       /\ evidence \in Evidence
       /\ evidence.stage = state.current
       /\ QualifiesStage(evidence)
       /\ models[evidence.checkpoint] # None
  /\ pc = "copying" => copies[Target] = Torn

\* The request lags behind the state only where the trainer is about to
\* publish, or does not exist.
StagesFollow ==
  /\ termStage = state.current
  /\ pc \notin {"dead", "attached", "restored", "decided"} => request = state.current

\* What the trainer has looked at is counted or answered, once it is done.
ObservedIsSettled ==
  pc \in {"restored", "boundary", "decided", "logged", "saving", "saved"}
    /\ observed \in Evidence =>
      IsDuplicate(state, observed) \/ observed \in answered

\* A live trainer has a number, and saves a checkpoint it has begun.
TrainerIsNumbered ==
  /\ pc # "dead" => life \in Weights
  /\ pc = "saving" => models[iteration] # None

IInv ==
  /\ TypeOK
  /\ AllAreSound
  /\ PreservesForStage
  /\ StagesFollow
  /\ ObservedIsSettled
  /\ TrainerIsNumbered

LEMMA InitIInv == Init => IInv
<1> SUFFICES ASSUME Init PROVE IInv
  OBVIOUS
<1> USE DEF Init
<1>1. InitialState \in AchievementStates /\ InitialState.current = 0
  BY InitialIsEarned DEF InitialState
<1>2. TypeOK
  BY <1>1 DEF TypeOK, StateOK, Locations, Stages
<1>3. AllAreSound
  BY InitialIsSound DEF AllAreSound, SoundWith
<1>4. PreservesForStage /\ TrainerIsNumbered /\ ObservedIsSettled
  BY DEF PreservesForStage, TrainerIsNumbered, ObservedIsSettled
<1>5. StagesFollow
  BY <1>1 DEF StagesFollow
<1> QED BY <1>2, <1>3, <1>4, <1>5 DEF IInv

\* The file a report is preserved from is neither missing nor unfinished.
LEMMA SourceIsWhole ==
  ASSUME IInv, pc \in {"preserving", "copying"}
  PROVE  /\ Source \in [whole : BOOLEAN, weights : Weights]
         /\ Source \notin {None, Torn}
         /\ Target \in Stages \X Checkpoints
         /\ evidence \in Evidence /\ evidence.stage = state.current
         /\ QualifiesStage(evidence)
         /\ StateIsSound(state) /\ NamesFinished(state, copies)
<1>1. evidence \in Evidence /\ models[evidence.checkpoint] # None
  BY DEF IInv, PreservesForStage
<1>2. evidence.checkpoint \in Checkpoints
  BY <1>1 DEF Evidence
<1>3. models[evidence.checkpoint] \in Models
  BY <1>1, <1>2 DEF IInv, TypeOK
<1>4. Source \in [whole : BOOLEAN, weights : Weights]
  BY <1>3 DEF Source, Contents, Models
<1>5. state.current \in Stages
  BY DEF IInv, AllAreSound, SoundWith, StateIsSound, AchievementStates
<1> QED
  BY <1>1, <1>2, <1>4, <1>5, FilesAssumption
  DEF Target, IInv, PreservesForStage, AllAreSound, SoundWith

\* The outcome of preserving, once the copy is there.
LEMMA PreservedIsSound ==
  ASSUME IInv, pc \in {"preserving", "copying"}, NEW c,
         c[Target] \notin {None, Torn}, NamesFinished(state, c)
  PROVE  /\ SoundWith(WithPreservedPath(state, evidence), c)
         /\ IsDuplicate(WithPreservedPath(state, evidence), evidence)
<1>1. /\ StateIsSound(state) /\ evidence \in Evidence
      /\ evidence.stage = state.current
      /\ ~IsDuplicate(state, evidence) /\ Qualifies(state, evidence)
  BY SourceIsWhole DEF QualifiesStage
<1>2. c[<<state.current, evidence.checkpoint>>] \notin {None, Torn}
  BY DEF Target
<1> QED BY <1>1, <1>2, QualifyKeepsSound DEF SoundWith

\* The outcome of a report that is only counted.
LEMMA CountedIsSound ==
  ASSUME IInv, CountReport
  PROVE  /\ report \in Evidence
         /\ SoundWith(ApplyQualification(state, report), copies)
         /\ IsDuplicate(ApplyQualification(state, report), report)
<1>1. /\ report \in Evidence /\ report.stage = state.current
      /\ IsDuplicate(state, report) \/ ~Qualifies(state, report)
  BY DEF CountReport, Acceptable, QualifiesStage
<1>2. StateIsSound(state) /\ NamesFinished(state, copies)
  BY DEF IInv, AllAreSound, SoundWith
<1> QED BY <1>1, <1>2, CountKeepsSound DEF SoundWith

\* A finished copy stays what it is.
LEMMA FinishedStays ==
  ASSUME IInv, [Next]_vars
  PROVE  /\ \A target \in Stages \X Checkpoints :
              copies[target] \notin {None, Torn} => copies'[target] = copies[target]
         /\ copies' \in [Stages \X Checkpoints ->
                           [whole : BOOLEAN, weights : Weights] \cup {None, Torn}]
<1>1. copies \in [Stages \X Checkpoints ->
                    [whole : BOOLEAN, weights : Weights] \cup {None, Torn}]
  BY DEF IInv, TypeOK
<1>2. CASE BeginCopy
  <2>1. /\ pc \in {"preserving", "copying"} /\ copies[Target] = None
        /\ copies' = [copies EXCEPT ![Target] = Torn]
    BY <1>2 DEF BeginCopy
  <2> QED BY <1>1, <2>1
<1>3. CASE EndCopy
  <2>1. /\ pc \in {"preserving", "copying"} /\ copies[Target] = Torn
        /\ copies' = [copies EXCEPT ![Target] = Source]
    BY <1>3 DEF EndCopy, IInv, PreservesForStage
  <2> QED BY <1>1, <2>1, SourceIsWhole
<1>4. CASE UNCHANGED copies
  BY <1>1, <1>4
<1> QED
  BY <1>2, <1>3, <1>4
  DEF Next, vars, files, Attach, ExistingReportToken,
      PublishInitial, StartAfresh, PublishRestored, Crash,
      Restore, NothingNew, ReadToken, RejectReport, CountReport, QualifyReport,
      AlreadyPreserved, Collision, PublishDecision, BeginSave, EndSave, NextIteration,
      Complete, Evaluate, BeginReport, EndReport, QualifierDies

LEMMA SoundSurvives ==
  ASSUME IInv, [Next]_vars, NEW s, SoundWith(s, copies)
  PROVE  SoundWith(s, copies')
BY FinishedStays, NamesSurvive DEF SoundWith, StateIsSound

LEMMA StepAllAreSound == IInv /\ [Next]_vars => AllAreSound'
<1> SUFFICES ASSUME IInv, [Next]_vars PROVE AllAreSound'
  OBVIOUS
<1>1. SoundWith(state, copies')
  BY SoundSurvives DEF IInv, AllAreSound
<1>2. \A n \in Checkpoints : models[n] # None => SoundWith(models[n].snapshot, copies')
  BY SoundSurvives DEF IInv, AllAreSound
<1>3. SoundWith(state', copies')
  <2>1. CASE \E n \in Checkpoints : Restore(n)
    BY <1>2, <2>1 DEF Restore
  <2>2. CASE Crash \/ Complete
    BY <2>2, InitialIsSound DEF Crash, Complete, Forgotten, SoundWith
  <2>3. CASE CountReport
    BY <2>3, CountedIsSound DEF CountReport, Accept, files
  <2>4. CASE AlreadyPreserved
    <3>1. copies[Target] \notin {None, Torn}
      BY <2>4, SourceIsWhole DEF AlreadyPreserved
    <3>2. SoundWith(WithPreservedPath(state, evidence), copies)
      BY <2>4, <3>1, PreservedIsSound DEF AlreadyPreserved, IInv, AllAreSound, SoundWith
    <3> QED BY <2>4, <3>2 DEF AlreadyPreserved, Accept, files
  <2>5. CASE EndCopy
    <3>1. copies'[Target] = Source
      <4>1. Target \in Stages \X Checkpoints
        BY <2>5, SourceIsWhole DEF EndCopy
      <4>2. copies \in [Stages \X Checkpoints ->
                          [whole : BOOLEAN, weights : Weights] \cup {None, Torn}]
        BY DEF IInv, TypeOK
      <4> QED BY <2>5, <4>1, <4>2 DEF EndCopy
    <3>2. SoundWith(WithPreservedPath(state, evidence), copies')
      BY <1>1, <2>5, <3>1, SourceIsWhole, PreservedIsSound DEF EndCopy, SoundWith
    <3> QED BY <2>5, <3>2 DEF EndCopy, Accept
  <2>6. CASE UNCHANGED state
    BY <1>1, <2>6
  <2> QED
    BY <2>1, <2>2, <2>3, <2>4, <2>5, <2>6
    DEF Next, vars, Attach, ExistingReportToken,
        PublishInitial, StartAfresh, PublishRestored, NothingNew,
        ReadToken, RejectReport, Reject, QualifyReport, Collision, BeginCopy,
        PublishDecision, BeginSave, EndSave, NextIteration, Evaluate, BeginReport,
        EndReport, QualifierDies
<1>4. ASSUME NEW n \in Checkpoints, models'[n] # None
      PROVE  SoundWith(models'[n].snapshot, copies')
  <2>0. models \in [Checkpoints -> Models \cup {None}] /\ iteration \in Checkpoints
    BY DEF IInv, TypeOK
  <2>1. CASE BeginSave
    <3>1. CASE n = iteration
      BY <1>1, <2>0, <2>1, <3>1 DEF BeginSave
    <3>2. CASE n # iteration
      BY <1>2, <1>4, <2>0, <2>1, <3>2 DEF BeginSave
    <3> QED BY <3>1, <3>2
  <2>2. CASE EndSave
    <3>1. /\ models' = [models EXCEPT ![iteration].whole = TRUE]
          /\ models[iteration] # None
      BY <2>2 DEF EndSave, IInv, TrainerIsNumbered
    <3>2. models[n] # None
      BY <1>4, <2>0, <3>1
    <3>3. models[n] \in Models
      BY <2>0, <3>2
    <3>4. models'[n].snapshot = models[n].snapshot
      BY <2>0, <3>1, <3>3 DEF Models
    <3> QED BY <1>2, <3>2, <3>4
  <2>3. CASE UNCHANGED models
    BY <1>2, <1>4, <2>3
  <2> QED
    BY <2>1, <2>2, <2>3
    DEF Next, vars, files, Attach, ExistingReportToken,
        PublishInitial, StartAfresh, PublishRestored, Crash,
        Restore, NothingNew, ReadToken, RejectReport, CountReport, QualifyReport,
        AlreadyPreserved, Collision, BeginCopy, EndCopy, PublishDecision,
        NextIteration, Complete, Evaluate, BeginReport, EndReport, QualifierDies
<1> QED BY <1>3, <1>4 DEF AllAreSound

LEMMA StepPreservesForStage == IInv /\ [Next]_vars => PreservesForStage'
<1> SUFFICES ASSUME IInv, [Next]_vars PROVE PreservesForStage'
  OBVIOUS
<1>1. CASE QualifyReport
  BY <1>1 DEF QualifyReport, Acceptable, QualifiesStage, PreservesForStage, files
<1>2. CASE BeginCopy
  <2>1. /\ pc = "preserving" /\ pc' = "copying"
        /\ copies' = [copies EXCEPT ![Target] = Torn]
        /\ UNCHANGED <<state, evidence, models>>
    BY <1>2 DEF BeginCopy, memory
  <2>2. /\ evidence \in Evidence /\ evidence.stage = state.current
        /\ QualifiesStage(evidence) /\ models[evidence.checkpoint] # None
    BY <2>1 DEF IInv, PreservesForStage
  <2>3. copies'[Target] = Torn
    <3>1. Target \in Stages \X Checkpoints
      BY <2>1, SourceIsWhole
    <3> QED BY <2>1, <3>1 DEF IInv, TypeOK
  <2>4. Target' = Target
    BY <2>1 DEF Target
  <2> QED BY <2>1, <2>2, <2>3, <2>4 DEF PreservesForStage, QualifiesStage
<1>3. CASE UNCHANGED <<state, pc, evidence, models, copies>>
  BY <1>3 DEF IInv, PreservesForStage, QualifiesStage, Target
<1>4. CASE pc' \notin {"preserving", "copying"}
  BY <1>4 DEF PreservesForStage
<1> QED
  BY <1>1, <1>2, <1>3, <1>4
  DEF Next, vars, files, memory, Attach, ExistingReportToken,
      PublishInitial, StartAfresh, PublishRestored,
      Crash, Restore, NothingNew, ReadToken, RejectReport, CountReport,
      AlreadyPreserved, Collision, EndCopy, PublishDecision, BeginSave, EndSave,
      NextIteration, Complete, Forgotten, Accept, Reject, Evaluate, BeginReport,
      EndReport, QualifierDies

LEMMA StepStagesFollow == IInv /\ [Next]_vars => StagesFollow'
<1> SUFFICES ASSUME IInv, [Next]_vars PROVE StagesFollow'
  OBVIOUS
<1>1. termStage' = state'.current
  <2>1. InitialState.current = 0
    BY DEF InitialState
  <2>2. CASE UNCHANGED <<state, termStage>>
    BY <2>2 DEF IInv, StagesFollow
  <2> QED
    BY <2>1, <2>2
    DEF Next, vars, memory, Attach, ExistingReportToken,
        PublishInitial, StartAfresh, PublishRestored, Crash,
        Restore, NothingNew, ReadToken, RejectReport, CountReport, QualifyReport,
        AlreadyPreserved, Collision, BeginCopy, EndCopy, PublishDecision, BeginSave,
        EndSave, NextIteration, Complete, Forgotten, Accept, Reject, Evaluate,
        BeginReport, EndReport, QualifierDies
<1>2. ASSUME pc' \notin {"dead", "attached", "restored", "decided"}
      PROVE  request' = state'.current
  <2>1. CASE UNCHANGED <<state, request>> /\ pc \notin {"dead", "attached", "restored", "decided"}
    BY <2>1 DEF IInv, StagesFollow
  <2>2. CASE PublishInitial \/ PublishRestored \/ PublishDecision
    BY <2>2 DEF PublishInitial, PublishRestored, PublishDecision
  <2> QED
    BY <1>2, <2>1, <2>2
    DEF Next, vars, files, Attach, ExistingReportToken, StartAfresh, Crash,
        Restore, NothingNew, ReadToken, RejectReport, CountReport, QualifyReport,
        AlreadyPreserved, Collision, BeginCopy, EndCopy, BeginSave,
        EndSave, NextIteration, Complete, Forgotten, Accept, Reject, Evaluate,
        BeginReport, EndReport, QualifierDies
<1> QED BY <1>1, <1>2 DEF StagesFollow

LEMMA StepObservedIsSettled == IInv /\ [Next]_vars => ObservedIsSettled'
<1> SUFFICES ASSUME IInv, [Next]_vars, observed' \in Evidence,
                    pc' \in {"restored", "boundary", "decided", "logged", "saving", "saved"}
             PROVE  IsDuplicate(state', observed') \/ observed' \in answered'
  BY DEF ObservedIsSettled
<1>1. CASE \E n \in Checkpoints : Restore(n)
  <2>1. PICK n \in Checkpoints : Restore(n)
    BY <1>1
  <2>2. /\ state' = models[n].snapshot /\ models[n] # None
        /\ observed' = RestoredToken(models[n].snapshot, observed)
    BY <2>1 DEF Restore
  <2>3. observed' = state'.lastReport
    BY <2>2, NoneAssumption DEF RestoredToken
  <2>4. LastIsCounted(state')
    BY <2>2 DEF IInv, AllAreSound, SoundWith, StateIsSound
  <2>5. PICK i \in 1 .. Len(state'.processed) : state'.processed[i] = observed'
    BY <2>3, <2>4, NoneAssumption DEF LastIsCounted
  <2> QED BY <2>5 DEF IsDuplicate
<1>2. CASE StartAfresh
  BY <1>2 DEF StartAfresh, memory
<1>3. CASE RejectReport \/ Collision
  BY <1>3 DEF RejectReport, Collision, Reject
<1>4. CASE CountReport
  <2>1. IsDuplicate(state', report)
    BY <1>4, CountedIsSound DEF CountReport, Accept
  <2> QED BY <1>4, <2>1 DEF CountReport, Accept
<1>5. CASE AlreadyPreserved
  <2>1. pc \in {"preserving", "copying"} /\ copies[Target] \notin {None, Torn}
    BY <1>5, SourceIsWhole DEF AlreadyPreserved
  <2>2. NamesFinished(state, copies)
    BY <2>1, SourceIsWhole
  <2>3. IsDuplicate(state', evidence)
    BY <1>5, <2>1, <2>2, PreservedIsSound DEF AlreadyPreserved, Accept
  <2> QED BY <1>5, <2>3 DEF AlreadyPreserved, Accept
<1>6. CASE EndCopy
  <2>1. /\ pc \in {"preserving", "copying"}
        /\ StateIsSound(state) /\ evidence \in Evidence
        /\ evidence.stage = state.current
        /\ ~IsDuplicate(state, evidence) /\ Qualifies(state, evidence)
        /\ Target \in Stages \X Checkpoints /\ Source \notin {None, Torn}
    BY <1>6, SourceIsWhole DEF EndCopy, QualifiesStage
  <2>2. copies'[Target] \notin {None, Torn}
    BY <1>6, <2>1 DEF EndCopy, IInv, TypeOK
  <2>3. NamesFinished(state, copies')
    BY SoundSurvives DEF IInv, AllAreSound, SoundWith
  <2>4. IsDuplicate(state', evidence)
    BY <1>6, <2>1, <2>2, <2>3, PreservedIsSound DEF EndCopy, Accept
  <2> QED BY <1>6, <2>4 DEF EndCopy, Accept
<1>7. CASE /\ UNCHANGED <<state, observed, answered>>
           /\ pc \in {"restored", "boundary", "decided", "logged", "saving", "saved"}
  BY <1>7 DEF IInv, ObservedIsSettled
<1> QED
  BY <1>1, <1>2, <1>3, <1>4, <1>5, <1>6, <1>7
  DEF Next, vars, memory, Attach, ExistingReportToken, PublishInitial, PublishRestored, Crash,
      NothingNew, ReadToken, QualifyReport, BeginCopy, PublishDecision, BeginSave,
      EndSave, NextIteration, Complete, Forgotten, Evaluate, BeginReport, EndReport,
      QualifierDies

LEMMA StepTrainerIsNumbered == IInv /\ [Next]_vars => TrainerIsNumbered'
<1> SUFFICES ASSUME IInv, [Next]_vars PROVE TrainerIsNumbered'
  OBVIOUS
<1>1. pc' # "dead" => life' \in Weights
  <2>1. CASE Attach
    BY <2>1 DEF Attach, ExistingReportToken, IInv, TypeOK
  <2>2. CASE pc # "dead" /\ UNCHANGED life
    BY <2>2 DEF IInv, TrainerIsNumbered
  <2>3. CASE UNCHANGED <<pc, life>>
    BY <2>3 DEF IInv, TrainerIsNumbered
  <2> QED
    BY <2>1, <2>2, <2>3
    DEF Next, vars, PublishInitial, StartAfresh, PublishRestored, Crash,
        Restore, NothingNew, ReadToken, RejectReport, CountReport, QualifyReport,
        AlreadyPreserved, Collision, BeginCopy, EndCopy, PublishDecision, BeginSave,
        EndSave, NextIteration, Complete, Evaluate, BeginReport, EndReport, QualifierDies
<1>2. pc' = "saving" => models'[iteration'] # None
  <2>1. CASE BeginSave
    <3>1. /\ iteration \in Checkpoints /\ iteration' = iteration
          /\ models \in [Checkpoints -> Models \cup {None}]
          /\ models' = [models EXCEPT ![iteration] =
                          [whole |-> FALSE, weights |-> life, snapshot |-> state]]
      BY <2>1 DEF BeginSave, memory, IInv, TypeOK
    <3>2. [whole |-> FALSE, weights |-> life, snapshot |-> state] # None
      <4>1. life \in Weights /\ state \in AchievementStates
        BY <2>1 DEF BeginSave, IInv, TrainerIsNumbered, TypeOK, StateOK
      <4>2. [whole |-> FALSE, weights |-> life, snapshot |-> state] \in Models
        BY <4>1, Zenon DEF Models
      <4> QED BY <4>2, FilesAssumption
    <3> QED BY <3>1, <3>2
  <2>2. CASE UNCHANGED <<pc, iteration, models>>
    BY <2>2 DEF IInv, TrainerIsNumbered
  <2>3. CASE pc' # "saving"
    BY <2>3
  <2> QED
    BY <2>1, <2>2, <2>3
    DEF Next, vars, files, memory, Attach, ExistingReportToken,
        PublishInitial, StartAfresh, PublishRestored,
        Crash, Restore, NothingNew, ReadToken, RejectReport, CountReport, QualifyReport,
        AlreadyPreserved, Collision, BeginCopy, EndCopy, PublishDecision,
        EndSave, NextIteration, Complete, Forgotten, Accept, Reject, Evaluate,
        BeginReport, EndReport, QualifierDies
<1> QED BY <1>1, <1>2 DEF TrainerIsNumbered

LEMMA StepTypeOK == IInv /\ [Next]_vars => TypeOK'
<1> SUFFICES ASSUME IInv, [Next]_vars PROVE TypeOK'
  OBVIOUS
<1> USE DEF IInv
<1>1. StateOK'
  BY StepAllAreSound DEF AllAreSound, SoundWith, StateIsSound, StateOK
<1>2. report' \in Evidence \cup {None, Torn} /\ job' \in Evidence \cup {None}
  <2>1. CASE \E n \in Checkpoints, seeds \in SeedSets, eligible \in BOOLEAN :
               Evaluate(n, seeds, eligible)
    <3>1. PICK n \in Checkpoints, seeds \in SeedSets, eligible \in BOOLEAN :
            Evaluate(n, seeds, eligible)
      BY <2>1
    <3>2. models[n] \in Models /\ request \in Stages
      BY <3>1 DEF Evaluate, TypeOK
    <3>3. models[n].weights \in Weights
      BY <3>2 DEF Models
    <3>4. [stage |-> request, checkpoint |-> n, seeds |-> seeds,
           weights |-> models[n].weights, eligible |-> eligible] \in Evidence
      <4> DEFINE B == BOOLEAN
      <4>1. eligible \in B
        BY <3>1
      <4>2. Evidence = [stage : Stages, checkpoint : Checkpoints, seeds : SeedSets,
                        weights : Weights, eligible : B]
        BY DEF Evidence
      <4> HIDE DEF B
      <4> QED BY <3>1, <3>2, <3>3, <4>1, <4>2
    <3> QED BY <3>1, <3>4 DEF Evaluate, files, TypeOK
  <2>2. CASE BeginReport \/ EndReport \/ QualifierDies
    BY <2>2 DEF BeginReport, EndReport, QualifierDies, files, TypeOK
  <2>3. CASE UNCHANGED <<report, job>>
    BY <2>3 DEF TypeOK
  <2> QED
    BY <2>1, <2>2, <2>3
    DEF Next, vars, files, qualifierVars, Attach, ExistingReportToken,
        PublishInitial, StartAfresh,
        PublishRestored, Crash, Restore, NothingNew, ReadToken, RejectReport,
        CountReport, QualifyReport, AlreadyPreserved, Collision, BeginCopy, EndCopy,
        PublishDecision, BeginSave, EndSave, NextIteration, Complete
<1>3. request' \in Stages \cup {None}
  <2>1. state.current \in Stages
    BY DEF TypeOK, StateOK, AchievementStates
  <2>2. CASE PublishInitial \/ PublishRestored \/ PublishDecision
    BY <2>1, <2>2 DEF PublishInitial, PublishRestored, PublishDecision
  <2>3. CASE UNCHANGED request
    BY <2>3 DEF TypeOK
  <2> QED
    BY <2>2, <2>3
    DEF Next, vars, files, Attach, ExistingReportToken,
        StartAfresh, Crash, Restore, NothingNew, ReadToken,
        RejectReport, CountReport, QualifyReport, AlreadyPreserved, Collision,
        BeginCopy, EndCopy, BeginSave, EndSave, NextIteration, Complete, Evaluate,
        BeginReport, EndReport, QualifierDies
<1>4. models' \in [Checkpoints -> Models \cup {None}]
  <2> DEFINE B == BOOLEAN
  <2>1. FALSE \in B /\ TRUE \in B
    OBVIOUS
  <2>2. Models = [whole : B, weights : Weights, snapshot : AchievementStates]
    BY DEF Models
  <2> HIDE DEF B
  <2>3. CASE BeginSave
    <3>1. life \in Weights /\ state \in AchievementStates
      BY <2>3 DEF BeginSave, TrainerIsNumbered, TypeOK, StateOK
    <3>2. [whole |-> FALSE, weights |-> life, snapshot |-> state] \in Models
      BY <3>1, <2>1, <2>2
    <3> QED BY <2>3, <3>2 DEF BeginSave, TypeOK
  <2>4. CASE EndSave
    <3>1. /\ models[iteration] \in Models
          /\ models' = [models EXCEPT ![iteration].whole = TRUE]
          /\ models \in [Checkpoints -> Models \cup {None}]
      BY <2>4 DEF EndSave, TrainerIsNumbered, TypeOK
    <3>2. [models[iteration] EXCEPT !.whole = TRUE] \in Models
      <4> DEFINE b == TRUE
      <4>1. b \in B
        BY <2>1
      <4> HIDE DEF b
      <4>2. [models[iteration] EXCEPT !.whole = b] \in Models
        BY <2>2, <3>1, <4>1
      <4> QED BY <4>2 DEF b
    <3> QED BY <3>1, <3>2
  <2>5. CASE UNCHANGED models
    BY <2>5 DEF TypeOK
  <2> QED
    BY <2>3, <2>4, <2>5
    DEF Next, vars, files, Attach, ExistingReportToken,
        PublishInitial, StartAfresh, PublishRestored, Crash,
        Restore, NothingNew, ReadToken, RejectReport, CountReport, QualifyReport,
        AlreadyPreserved, Collision, BeginCopy, EndCopy, PublishDecision,
        NextIteration, Complete, Evaluate, BeginReport, EndReport, QualifierDies
<1>5. copies' \in [Stages \X Checkpoints ->
                     [whole : BOOLEAN, weights : Weights] \cup {None, Torn}]
  BY FinishedStays
<1>6. pc' \in Locations /\ qualifier' \in {"idle", "evaluating", "writing"}
  BY DEF TypeOK, Locations, Next, vars, qualifierVars, Attach, ExistingReportToken,
      PublishInitial,
      StartAfresh, PublishRestored, Crash, Restore, NothingNew, ReadToken, RejectReport,
      CountReport, QualifyReport, AlreadyPreserved, Collision, BeginCopy, EndCopy,
      PublishDecision, BeginSave, EndSave, NextIteration, Complete, Forgotten, Accept,
      Reject, Evaluate, BeginReport, EndReport, QualifierDies
<1>7. life' \in 0 .. MaxLives /\ evaluations' \in 0 .. MaxReports
  BY DEF TypeOK, Next, vars, qualifierVars, Attach, ExistingReportToken, PublishInitial,
      StartAfresh, PublishRestored, Crash, Restore, NothingNew, ReadToken, RejectReport,
      CountReport, QualifyReport, AlreadyPreserved, Collision, BeginCopy, EndCopy,
      PublishDecision, BeginSave, EndSave, NextIteration, Complete,
      Evaluate, BeginReport, EndReport, QualifierDies
<1>8. iteration' \in Checkpoints
  BY DEF TypeOK, Next, vars, memory, Attach, ExistingReportToken, PublishInitial,
      StartAfresh, PublishRestored, Crash, Restore, NothingNew, ReadToken, RejectReport,
      CountReport, QualifyReport, AlreadyPreserved, Collision, BeginCopy, EndCopy,
      PublishDecision, BeginSave, EndSave, NextIteration, Complete, Forgotten,
      Evaluate, BeginReport, EndReport, QualifierDies
<1>9. /\ observed' \in Evidence \cup {None, Torn}
      /\ evidence' \in Evidence \cup {None}
      /\ verdict' \in {None, "accepted", "rejected"}
      /\ answered' \subseteq Evidence \cup {None, Torn}
  BY DEF TypeOK, Next, vars, memory, Attach, ExistingReportToken, PublishInitial,
      StartAfresh, PublishRestored, Crash, Restore, RestoredToken, NothingNew, ReadToken,
      RejectReport, CountReport, QualifyReport, Acceptable, AlreadyPreserved, Collision,
      BeginCopy, EndCopy, PublishDecision, BeginSave, EndSave, NextIteration, Complete,
      Forgotten, Accept, Reject, Evaluate, BeginReport, EndReport, QualifierDies
<1>10. termStage' \in Stages
  BY StepStagesFollow, <1>1 DEF StagesFollow, StateOK, AchievementStates
<1> QED
  BY <1>1, <1>2, <1>3, <1>4, <1>5, <1>6, <1>7, <1>8, <1>9, <1>10 DEF TypeOK

THEOREM IInvHolds == Spec => []IInv
<1>1. IInv /\ [Next]_vars => IInv'
  BY StepTypeOK, StepAllAreSound, StepPreservesForStage, StepStagesFollow,
     StepObservedIsSettled, StepTrainerIsNumbered
  DEF IInv
<1> QED BY InitIInv, <1>1, PTL DEF Spec

-----------------------------------------------------------------------------
(***************************************************************************)
(* What follows.                                                           *)
(***************************************************************************)

\* The memories of the three parties and the files hold what they should.
THEOREM CurriculumTypeCorrect == Spec => []TypeOK
<1>1. IInv => TypeOK
  BY DEF IInv
<1> QED BY <1>1, IInvHolds, PTL

\* Through crashes, restarts from any checkpoint and reports that change while
\* they are read, every state there is was earned report by report.
THEOREM EveryLifeIsEarned == Spec => []StagesAreEarned
<1>1. IInv => StagesAreEarned
  BY DEF IInv, AllAreSound, SoundWith, StateIsSound, StagesAreEarned, Snapshots
<1> QED BY <1>1, IInvHolds, PTL

\* No state names a preserved checkpoint that was not written to its end.
THEOREM NamedCopiesAreFinished == Spec => []QualifiedFilesExist
<1>1. IInv => QualifiedFilesExist
  BY DEF IInv, AllAreSound, SoundWith, NamesFinished, QualifiedFilesExist, Snapshots
<1> QED BY <1>1, IInvHolds, PTL

\* A preserved checkpoint is never overwritten.
THEOREM CopiesStayKept == Spec => CopiesAreKept
<1>1. IInv /\ [Next]_vars =>
        [\A target \in Stages \X Checkpoints :
           copies[target] \notin {None, Torn} => copies'[target] = copies[target]]_copies
  BY FinishedStays
<1> QED BY <1>1, IInvHolds, PTL DEF Spec, CopiesAreKept

\* The disturbances and the request follow the curriculum into every iteration.
THEOREM StageStaysAgreed == Spec => []StageIsAgreed
<1>1. IInv => StageIsAgreed
  BY DEF IInv, StagesFollow, StageIsAgreed
<1> QED BY <1>1, IInvHolds, PTL

\* A report is only passed over once it is counted or answered.
THEOREM ReportsAreSettled == Spec => []NothingIsDropped
<1>1. IInv => NothingIsDropped
  BY DEF IInv, ObservedIsSettled, NothingIsDropped
<1> QED BY <1>1, IInvHolds, PTL

\* Files and disturbances follow the state of the curriculum.
THEOREM FilesAreTheStates == Spec => []FilesFollowTheState
BY NamedCopiesAreFinished, StageStaysAgreed, PTL DEF FilesFollowTheState
=============================================================================
