--------------------------- MODULE TrainingRun_proofs ---------------------------
(***************************************************************************)
(* The parts of a training run for every value of their parameters: an     *)
(* inductive invariant of each part, then the suite's properties, which    *)
(* follow because the parts share no state.                                *)
(***************************************************************************)
EXTENDS TrainingRun, RuntimeLemmas, SequenceTheorems

-----------------------------------------------------------------------------
(***************************************************************************)
(* The rollouts of PPO.                                                    *)
(***************************************************************************)

LEMMA PpoConstants ==
  /\ Ranks \in Nat \ {0} /\ Length \in Nat \ {0}
  /\ FastestRate \in Nat /\ FirstRate \in 0..FastestRate /\ Masked \in BOOLEAN
  /\ 0 \in Ppo!Rank
BY PartsAssumption DEF Ppo!PpoAssumption, Ppo!Rank

\* A rate moves by a step at most and stays within its bounds.
LEMMA RateMoves ==
  ASSUME NEW e \in 0..FastestRate, NEW mean
  PROVE  Ppo!NextRate(e, mean) \in 0..FastestRate /\ Ppo!NextRate(e, mean) - e \in {-1, 0, 1}
<1> USE PpoConstants
<1>1. ASSUME NEW a \in Int, NEW b \in Int
      PROVE  /\ Ppo!Max({a, b}) \in {a, b} /\ Ppo!Max({a, b}) >= a /\ Ppo!Max({a, b}) >= b
             /\ Ppo!Min({a, b}) \in {a, b} /\ Ppo!Min({a, b}) <= a /\ Ppo!Min({a, b}) <= b
  <2>1. \E x \in {a, b} : \A y \in {a, b} : x >= y
    OBVIOUS
  <2>2. \E x \in {a, b} : \A y \in {a, b} : x <= y
    OBVIOUS
  <2>3. Ppo!Max({a, b}) \in {a, b} /\ \A y \in {a, b} : Ppo!Max({a, b}) >= y
    BY <2>1 DEF Ppo!Max
  <2>4. Ppo!Min({a, b}) \in {a, b} /\ \A y \in {a, b} : Ppo!Min({a, b}) <= y
    BY <2>2 DEF Ppo!Min
  <2> QED BY <2>3, <2>4
<1> DEFINE slow == Ppo!Max({0, e - 1})
           quick == Ppo!Min({FastestRate, e + 1})
<1>2. slow \in {0, e - 1} /\ slow >= 0 /\ slow >= e - 1
  BY <1>1
<1>3. quick \in {FastestRate, e + 1} /\ quick <= FastestRate /\ quick <= e + 1
  <2> DEFINE up == e + 1
  <2>1. FastestRate \in Int /\ up \in Int
    OBVIOUS
  <2> HIDE DEF up
  <2>2. Ppo!Min({FastestRate, up}) \in {FastestRate, up} /\ Ppo!Min({FastestRate, up}) <= FastestRate
          /\ Ppo!Min({FastestRate, up}) <= up
    BY <1>1, <2>1
  <2> QED BY <2>2 DEF up
<1>4. Ppo!NextRate(e, mean) \in {slow, quick, e}
  BY DEF Ppo!NextRate
<1> HIDE DEF slow, quick
<1>5. slow \in 0..FastestRate /\ slow - e \in {-1, 0, 1}
  BY <1>2
<1>6. quick \in 0..FastestRate /\ quick - e \in {-1, 0, 1}
  BY <1>3
<1> QED BY <1>4, <1>5, <1>6

\* Where a rank is in its update decides what its storage holds.
RolloutAt(r) ==
  /\ pPc[r] = "rollout" => cursor[r] < Length
  /\ pPc[r] \in {"returns", "update"} => cursor[r] = Length
  /\ pPc[r] \in {"reduce", "adapt"} => cursor[r] = 0
  /\ pPc[r] \in {"rollout", "returns", "update"} /\ Masked =>
       /\ maskSteps[r] = cursor[r]
       /\ \A i \in 1..cursor[r] : masks[r][i] = 1 <=> authority[r][i] > 0
  /\ pPc[r] = "update" /\ Masked => chosen[r] = {i \in 1..Length : authority[r][i] > 0}

OneRate == \A q, r \in Ppo!Rank : used[q] = rate[q] /\ rate[q] = rate[r]

PpoInv ==
  /\ Ppo!TypeOK /\ authority \in [Ppo!Rank -> Seq(0..2)]
  /\ OneRate
  /\ \A r \in Ppo!Rank : RolloutAt(r)
  /\ \A q, r \in Ppo!Rank : pPc[q] = "adapt" => pPc[r] = "adapt"

\* A step of one rank leaves the others as they are.
LEMMA OthersKept ==
  ASSUME NEW q, RolloutAt(q),
         authority'[q] = authority[q], pPc'[q] = pPc[q], cursor'[q] = cursor[q],
         maskSteps'[q] = maskSteps[q], masks'[q] = masks[q], chosen'[q] = chosen[q]
  PROVE  RolloutAt(q)'
BY DEF RolloutAt

PpoTypes ==
  /\ pPc \in [Ppo!Rank -> {"rollout", "returns", "update", "reduce", "adapt"}]
  /\ cursor \in [Ppo!Rank -> 0..Length] /\ maskSteps \in [Ppo!Rank -> 0..Length]
  /\ masks \in [Ppo!Rank -> [1..Length -> 0..1]]
  /\ authority \in [Ppo!Rank -> Seq(0..2)]
  /\ \A q \in Ppo!Rank : Len(authority[q]) = cursor[q]
  /\ chosen \in [Ppo!Rank -> SUBSET (1..Length)]
  /\ rate \in [Ppo!Rank -> 0..FastestRate] /\ used \in [Ppo!Rank -> 0..FastestRate]

LEMMA PpoTypesAre == PpoTypes <=> Ppo!TypeOK /\ authority \in [Ppo!Rank -> Seq(0..2)]
BY Zenon DEF PpoTypes, Ppo!TypeOK

LEMMA PpoInvIs ==
  ASSUME PpoTypes', OneRate', \A r \in Ppo!Rank : RolloutAt(r)',
         \A p, q \in Ppo!Rank : pPc'[p] = "adapt" => pPc'[q] = "adapt"
  PROVE  PpoInv'
<1>1. Ppo!TypeOK' /\ authority' \in [Ppo!Rank -> Seq(0..2)]
  BY DEF PpoTypes, Ppo!TypeOK
<1> QED BY <1>1 DEF PpoInv

LEMMA PpoRecords ==
  ASSUME PpoInv, NEW r \in Ppo!Rank, Ppo!ProcessEnvStep(r)
  PROVE  PpoInv'
<1> USE PpoConstants
<1>1. PICK gate \in 0..2 :
        /\ authority' = [authority EXCEPT ![r] = Append(@, gate)]
        /\ IF Masked THEN /\ masks' = [masks EXCEPT ![r] = Ppo!Recorded(r, gate)]
                          /\ maskSteps' = [maskSteps EXCEPT ![r] = @ + 1]
           ELSE UNCHANGED <<masks, maskSteps>>
  BY DEF Ppo!ProcessEnvStep
<1>2. /\ pPc[r] = "rollout" /\ cursor[r] < Length /\ cursor' = [cursor EXCEPT ![r] = @ + 1]
      /\ pPc' = [pPc EXCEPT ![r] = IF cursor'[r] = Length THEN "returns" ELSE @]
      /\ chosen' = chosen /\ rate' = rate /\ used' = used
  BY DEF Ppo!ProcessEnvStep
<1>3. PpoTypes /\ OneRate /\ \A q \in Ppo!Rank : RolloutAt(q)
  BY PpoTypesAre DEF PpoInv
<1>4. Masked => maskSteps[r] = cursor[r]
  BY <1>2, <1>3 DEF RolloutAt
<1>5. PpoTypes'
  <2>1. cursor' \in [Ppo!Rank -> 0..Length]
    BY <1>2, <1>3 DEF PpoTypes
  <2>2. pPc' \in [Ppo!Rank -> {"rollout", "returns", "update", "reduce", "adapt"}]
    BY <1>2, <1>3 DEF PpoTypes
  <2>3. /\ masks' \in [Ppo!Rank -> [1..Length -> 0..1]]
        /\ maskSteps' \in [Ppo!Rank -> 0..Length]
    <3>1. CASE Masked
      <4>1. Ppo!Recorded(r, gate) \in [1..Length -> 0..1]
        <5>1. masks[r] \in [1..Length -> 0..1] /\ (IF gate > 0 THEN 1 ELSE 0) \in 0..1
          BY <1>3 DEF PpoTypes
        <5> QED BY <5>1 DEF Ppo!Recorded
      <4>2. maskSteps[r] + 1 \in 0..Length
        BY <1>2, <1>3, <1>4, <3>1 DEF PpoTypes
      <4>3. masks \in [Ppo!Rank -> [1..Length -> 0..1]] /\ maskSteps \in [Ppo!Rank -> 0..Length]
        BY <1>3 DEF PpoTypes
      <4> HIDE DEF Ppo!Recorded
      <4> QED BY <1>1, <3>1, <4>1, <4>2, <4>3
    <3>2. CASE ~Masked
      BY <1>1, <1>3, <3>2 DEF PpoTypes
    <3> QED BY <3>1, <3>2
  <2>4. authority' \in [Ppo!Rank -> Seq(0..2)] /\ \A q \in Ppo!Rank : Len(authority'[q]) = cursor'[q]
    <3>1. /\ authority \in [Ppo!Rank -> Seq(0..2)] /\ cursor \in [Ppo!Rank -> 0..Length]
          /\ \A q \in Ppo!Rank : Len(authority[q]) = cursor[q]
      BY <1>3 DEF PpoTypes
    <3>2. Append(authority[r], gate) \in Seq(0..2) /\ Len(Append(authority[r], gate)) = cursor[r] + 1
      BY <3>1
    <3> QED BY <1>1, <1>2, <3>1, <3>2
  <2> QED BY <1>2, <1>3, <2>1, <2>2, <2>3, <2>4 DEF PpoTypes
<1>6. RolloutAt(r)'
  <2>1. cursor'[r] = cursor[r] + 1 /\ cursor[r] \in 0..Length - 1
    BY <1>2, <1>3 DEF PpoTypes
  <2>2. pPc'[r] = IF cursor'[r] = Length THEN "returns" ELSE "rollout"
    BY <1>2, <1>3 DEF PpoTypes
  <2>3. ASSUME Masked
        PROVE  /\ maskSteps'[r] = cursor'[r]
               /\ \A i \in 1..cursor'[r] : masks'[r][i] = 1 <=> authority'[r][i] > 0
    <3>1. /\ masks'[r] = [masks[r] EXCEPT ![cursor[r] + 1] = IF gate > 0 THEN 1 ELSE 0]
          /\ maskSteps'[r] = cursor[r] + 1
      BY <1>1, <1>3, <1>4, <2>3 DEF PpoTypes, Ppo!Recorded
    <3>2. /\ authority[r] \in Seq(0..2) /\ Len(authority[r]) = cursor[r]
          /\ masks[r] \in [1..Length -> 0..1]
          /\ authority'[r] = Append(authority[r], gate)
      BY <1>1, <1>3 DEF PpoTypes
    <3>3. \A i \in 1..cursor[r] : masks[r][i] = 1 <=> authority[r][i] > 0
      BY <1>2, <1>3, <2>3 DEF RolloutAt
    <3>4. ASSUME NEW i \in 1..cursor[r] + 1
          PROVE  masks'[r][i] = 1 <=> authority'[r][i] > 0
      <4>1. CASE i = cursor[r] + 1
        <5>1. masks'[r][i] = IF gate > 0 THEN 1 ELSE 0
          BY <2>1, <3>1, <3>2, <4>1
        <5>2. authority'[r][i] = gate
          BY <2>1, <3>2, <4>1
        <5> QED BY <5>1, <5>2
      <4>2. CASE i # cursor[r] + 1
        <5>1. i \in 1..cursor[r]
          BY <2>1, <4>2
        <5>2. masks'[r][i] = masks[r][i]
          BY <2>1, <3>1, <3>2, <4>2
        <5>3. authority'[r][i] = authority[r][i]
          BY <2>1, <3>2, <5>1
        <5> QED BY <3>3, <5>1, <5>2, <5>3
      <4> QED BY <4>1, <4>2
    <3> QED BY <2>1, <3>1, <3>4
  <2> QED BY <2>1, <2>2, <2>3 DEF RolloutAt
<1>7. ASSUME NEW q \in Ppo!Rank, q # r PROVE RolloutAt(q)'
  <2>1. /\ authority'[q] = authority[q] /\ pPc'[q] = pPc[q] /\ cursor'[q] = cursor[q]
        /\ maskSteps'[q] = maskSteps[q] /\ masks'[q] = masks[q] /\ chosen'[q] = chosen[q]
    BY <1>1, <1>2, <1>3, <1>7 DEF PpoTypes
  <2> QED BY <1>3, <2>1, OthersKept
<1>8. \A p, q \in Ppo!Rank : pPc'[p] = "adapt" => pPc'[q] = "adapt"
  BY <1>2, <1>3 DEF PpoInv, PpoTypes
<1>9. OneRate'
  BY <1>2, <1>3 DEF OneRate
<1> QED BY <1>5, <1>6, <1>7, <1>8, <1>9, PpoInvIs

LEMMA PpoSelects ==
  ASSUME PpoInv, NEW r \in Ppo!Rank, Ppo!ComputeReturns(r)
  PROVE  PpoInv'
<1> USE PpoConstants
<1>1. /\ pPc[r] = "returns" /\ pPc' = [pPc EXCEPT ![r] = "update"]
      /\ chosen' = [chosen EXCEPT ![r] = {i \in 1..Length : Masked => masks[r][i] = 1}]
      /\ cursor' = cursor /\ maskSteps' = maskSteps /\ masks' = masks /\ authority' = authority
      /\ rate' = rate /\ used' = used
  BY DEF Ppo!ComputeReturns
<1>2. PpoTypes /\ OneRate /\ \A q \in Ppo!Rank : RolloutAt(q)
  BY PpoTypesAre DEF PpoInv
<1>3. PpoTypes'
  BY <1>1, <1>2 DEF PpoTypes
<1>4. RolloutAt(r)'
  <2>1. pPc'[r] = "update" /\ chosen'[r] = {i \in 1..Length : Masked => masks[r][i] = 1}
    BY <1>1, <1>2 DEF PpoTypes
  <2>2. cursor[r] = Length
    BY <1>1, <1>2 DEF RolloutAt
  <2>3. Masked => /\ maskSteps[r] = cursor[r]
                  /\ \A i \in 1..Length : masks[r][i] = 1 <=> authority[r][i] > 0
    BY <1>1, <1>2, <2>2 DEF RolloutAt
  <2>4. Masked => chosen'[r] = {i \in 1..Length : authority[r][i] > 0}
    BY <2>1, <2>3
  <2> QED BY <1>1, <2>1, <2>2, <2>3, <2>4 DEF RolloutAt
<1>5. ASSUME NEW q \in Ppo!Rank, q # r PROVE RolloutAt(q)'
  BY <1>1, <1>2, <1>5, OthersKept DEF PpoTypes
<1>6. \A p, q \in Ppo!Rank : pPc'[p] = "adapt" => pPc'[q] = "adapt"
  BY <1>1, <1>2 DEF PpoInv, PpoTypes
<1>7. OneRate'
  BY <1>1, <1>2 DEF OneRate
<1> QED BY <1>3, <1>4, <1>5, <1>6, <1>7, PpoInvIs

LEMMA PpoUpdates ==
  ASSUME PpoInv, NEW r \in Ppo!Rank, Ppo!Update(r)
  PROVE  PpoInv' /\ rate' = rate
<1> USE PpoConstants
<1>1. PpoTypes /\ OneRate /\ \A q \in Ppo!Rank : RolloutAt(q)
  BY PpoTypesAre DEF PpoInv
<1>2. /\ pPc[r] = "update" /\ pPc' = [pPc EXCEPT ![r] = "reduce"]
      /\ rate' = [rate EXCEPT ![r] = rate[r]] /\ used' = [used EXCEPT ![r] = rate'[r]]
      /\ cursor' = [cursor EXCEPT ![r] = 0] /\ authority' = [authority EXCEPT ![r] = <<>>]
      /\ chosen' = [chosen EXCEPT ![r] = {}] /\ maskSteps' = maskSteps /\ masks' = masks
  BY DEF Ppo!Update, Ppo!Optimized, Ppo!ScheduleOfEpochs
<1>3. rate' = rate
  BY <1>1, <1>2 DEF PpoTypes
<1>4. used' = used
  BY <1>1, <1>2, <1>3 DEF PpoTypes, OneRate
<1>5. PpoTypes'
  <2>1. authority' \in [Ppo!Rank -> Seq(0..2)] /\ \A q \in Ppo!Rank : Len(authority'[q]) = cursor'[q]
    BY <1>1, <1>2 DEF PpoTypes
  <2> QED BY <1>1, <1>2, <1>3, <1>4, <2>1 DEF PpoTypes
<1>6. RolloutAt(r)'
  BY <1>1, <1>2 DEF PpoTypes, RolloutAt
<1>7. ASSUME NEW q \in Ppo!Rank, q # r PROVE RolloutAt(q)'
  BY <1>1, <1>2, <1>7, OthersKept DEF PpoTypes
<1>8. \A p, q \in Ppo!Rank : pPc'[p] = "adapt" => pPc'[q] = "adapt"
  BY <1>1, <1>2 DEF PpoInv, PpoTypes
<1>9. OneRate'
  BY <1>1, <1>3, <1>4 DEF OneRate
<1> QED BY <1>3, <1>5, <1>6, <1>7, <1>8, <1>9, PpoInvIs

LEMMA PpoReduces ==
  ASSUME PpoInv, Ppo!AllReduce
  PROVE  PpoInv'
<1> USE PpoConstants
<1>1. PpoTypes /\ OneRate /\ \A q \in Ppo!Rank : RolloutAt(q)
  BY PpoTypesAre DEF PpoInv
<1>2. /\ \A q \in Ppo!Rank : pPc[q] = "reduce"
      /\ pPc' = [q \in Ppo!Rank |-> "adapt"]
      /\ cursor' = cursor /\ maskSteps' = maskSteps /\ masks' = masks /\ authority' = authority
      /\ chosen' = chosen /\ rate' = rate /\ used' = used
  BY DEF Ppo!AllReduce
<1>3. PpoTypes'
  BY <1>1, <1>2 DEF PpoTypes
<1>4. ASSUME NEW q \in Ppo!Rank PROVE RolloutAt(q)'
  BY <1>1, <1>2 DEF RolloutAt
<1>5. OneRate' /\ \A p, q \in Ppo!Rank : pPc'[p] = "adapt" => pPc'[q] = "adapt"
  BY <1>1, <1>2 DEF OneRate
<1> QED BY <1>3, <1>4, <1>5, PpoInvIs

LEMMA PpoAdapts ==
  ASSUME PpoInv, Ppo!AdaptLearningRate
  PROVE  /\ PpoInv'
         /\ \A r \in Ppo!Rank : /\ pPc[r] = "adapt" /\ pPc'[r] = "rollout"
                                 /\ rate'[r] - rate[r] \in {-1, 0, 1}
<1> USE PpoConstants
<1>1. PpoTypes /\ OneRate /\ \A q \in Ppo!Rank : RolloutAt(q)
  BY PpoTypesAre DEF PpoInv
<1> DEFINE next == Ppo!NextRate(rate[0], kl[0])
<1>2. /\ \A q \in Ppo!Rank : pPc[q] = "adapt"
      /\ pPc' = [q \in Ppo!Rank |-> "rollout"]
      /\ rate' = [q \in Ppo!Rank |-> next] /\ used' = rate'
      /\ maskSteps' = [q \in Ppo!Rank |-> 0]
      /\ cursor' = cursor /\ masks' = masks /\ authority' = authority /\ chosen' = chosen
  BY DEF Ppo!AdaptLearningRate, Ppo!Adapted
<1>3. next \in 0..FastestRate /\ next - rate[0] \in {-1, 0, 1}
  <2>1. rate[0] \in 0..FastestRate
    BY <1>1 DEF PpoTypes
  <2> QED BY <2>1, RateMoves
<1> HIDE DEF next
<1>4. PpoTypes'
  BY <1>1, <1>2, <1>3 DEF PpoTypes
<1>5. ASSUME NEW q \in Ppo!Rank PROVE RolloutAt(q)'
  <2>1. cursor[q] = 0
    BY <1>1, <1>2 DEF RolloutAt
  <2> QED BY <1>2, <2>1 DEF RolloutAt
<1>6. OneRate' /\ \A p, q \in Ppo!Rank : pPc'[p] = "adapt" => pPc'[q] = "adapt"
  BY <1>2 DEF OneRate
<1>7. ASSUME NEW r \in Ppo!Rank
      PROVE  pPc[r] = "adapt" /\ pPc'[r] = "rollout" /\ rate'[r] - rate[r] \in {-1, 0, 1}
  <2>1. rate[r] = rate[0]
    BY <1>1 DEF OneRate
  <2> QED BY <1>2, <1>3, <2>1
<1> QED BY <1>4, <1>5, <1>6, <1>7, PpoInvIs

\* The invariant of the ranks, and what a step does to their rate.
LEMMA PpoInvariant ==
  /\ Ppo!Init => PpoInv
  /\ PpoInv /\ [Ppo!Next]_ppoVars => PpoInv'
<1> USE PpoConstants
<1>1. ASSUME Ppo!Init PROVE PpoInv
  <2>1. PpoTypes /\ OneRate /\ \A r \in Ppo!Rank : RolloutAt(r)
    BY <1>1 DEF Ppo!Init, PpoTypes, OneRate, RolloutAt
  <2>2. \A p, q \in Ppo!Rank : pPc[p] = "adapt" => pPc[q] = "adapt"
    BY <1>1 DEF Ppo!Init
  <2> QED BY <2>1, <2>2, PpoTypesAre DEF PpoInv
<1>2. ASSUME PpoInv, [Ppo!Next]_ppoVars PROVE PpoInv'
  <2>1. ASSUME NEW r \in Ppo!Rank, Ppo!ProcessEnvStep(r) \/ Ppo!ComputeReturns(r) \/ Ppo!Update(r)
        PROVE  PpoInv'
    BY <1>2, <2>1, PpoRecords, PpoSelects, PpoUpdates
  <2>2. CASE Ppo!AllReduce \/ Ppo!AdaptLearningRate
    BY <1>2, <2>2, PpoReduces, PpoAdapts
  <2>3. CASE UNCHANGED ppoVars
    BY <1>2, <2>3 DEF ppoVars, PpoInv, Ppo!TypeOK, OneRate, RolloutAt
  <2> QED BY <1>2, <2>1, <2>2, <2>3 DEF Ppo!Next
<1> QED BY <1>1, <1>2

LEMMA RateIsScheduled ==
  ASSUME PpoInv, [Ppo!Next]_ppoVars, NEW r \in Ppo!Rank, rate'[r] # rate[r]
  PROVE  pPc[r] = "adapt" /\ pPc'[r] = "rollout" /\ rate'[r] - rate[r] \in {-1, 1}
<1>1. CASE Ppo!AdaptLearningRate
  <2>1. pPc[r] = "adapt" /\ pPc'[r] = "rollout" /\ rate'[r] - rate[r] \in {-1, 0, 1}
    BY <1>1, PpoAdapts
  <2>2. rate[r] \in Int /\ rate'[r] \in Int
    <3>1. Ppo!TypeOK /\ Ppo!TypeOK'
      BY <1>1, PpoAdapts DEF PpoInv
    <3> QED BY <3>1, PpoConstants DEF Ppo!TypeOK
  <2> QED BY <2>1, <2>2
<1>2. ASSUME NEW q \in Ppo!Rank, Ppo!ProcessEnvStep(q) \/ Ppo!ComputeReturns(q) \/ Ppo!Update(q)
      PROVE  rate' = rate
  BY <1>2, PpoUpdates DEF Ppo!ProcessEnvStep, Ppo!ComputeReturns
<1>3. CASE Ppo!AllReduce
  BY <1>3 DEF Ppo!AllReduce
<1>4. CASE UNCHANGED ppoVars
  BY <1>4 DEF ppoVars
<1> QED BY <1>1, <1>2, <1>3, <1>4 DEF Ppo!Next

LEMMA PpoGoverns ==
  PpoInv => Ppo!TypeOK /\ Ppo!ActorLearnsFromItsActions /\ Ppo!RanksAgree
BY DEF PpoInv, OneRate, RolloutAt, Ppo!ActorLearnsFromItsActions, Ppo!RanksAgree

-----------------------------------------------------------------------------
(***************************************************************************)
(* The qualification report.                                               *)
(***************************************************************************)

LEMMA ReportConstants ==
  /\ BaselineSamples \in Nat \ {0} /\ MaxWrites \in Nat
  /\ HazardMargin \in Nat /\ RecoveryMargin \in Nat /\ NoReading \notin Int
  /\ Snapshots \subseteq [eligible : BOOLEAN, hazard : Int \cup {NoReading},
                          recovery : Int \cup {NoReading}, whole : {TRUE}]
BY PartsAssumption DEF Reports!QualificationAssumption

LEMMA CountsAreCounts ==
  ASSUME NEW S
  PROVE  Reports!Cardinality(S) = Cardinality(S)
BY Zenon DEF Reports!Cardinality, Cardinality

\* Sorting finite readings keeps them: what stands at a place is one of them.
LEMMA SortedAreReadings ==
  ASSUME NEW n \in Nat, NEW values \in [1..n -> Int \cup {NoReading}],
         NEW F, F = Reports!Finite(values)
  PROVE  /\ F \subseteq 1..n /\ \A i \in F : values[i] \in Int
         /\ Reports!Cardinality(F) \in Nat
         /\ Reports!Cardinality(F) = 0 => F = {}
         /\ \A k \in 1..Reports!Cardinality(F) : \E i \in F : Reports!Sorted(values)[k] = values[i]
<1> DEFINE upto == [i \in F |-> Reports!UpTo(values, i)]
           rank == [i \in F |-> Cardinality(upto[i])]
<1>1. F \subseteq 1..n /\ \A i \in F : values[i] \in Int
  BY DEF Reports!Finite
<1>2. IsFiniteSet(F)
  <2>1. IsFiniteSet(1..n)
    BY FS_Interval
  <2> QED BY <1>1, <2>1, FS_Subset
<1>3. \A i \in F : upto[i] = {j \in F : values[j] < values[i] \/ (values[j] = values[i] /\ j <= i)}
  BY DEF Reports!UpTo
<1>4. upto \in [F -> SUBSET F] /\ \A i \in F : i \in upto[i]
  <2>1. ASSUME NEW i \in F PROVE upto[i] \in SUBSET F /\ i \in upto[i]
    <3>1. i <= i /\ values[i] = values[i]
      BY <1>1
    <3>2. upto[i] = {j \in F : values[j] < values[i] \/ (values[j] = values[i] /\ j <= i)}
      BY <1>3
    <3> HIDE DEF upto
    <3> QED BY <3>1, <3>2
  <2> QED BY <2>1
<1> HIDE DEF upto
<1>5. \A i, j \in F : i # j =>
        \/ upto[i] \subseteq upto[j] /\ j \notin upto[i]
        \/ upto[j] \subseteq upto[i] /\ i \notin upto[j]
  <2>1. ASSUME NEW i \in F, NEW j \in F,
               values[i] < values[j] \/ (values[i] = values[j] /\ i < j)
        PROVE  upto[i] \subseteq upto[j] /\ j \notin upto[i]
    <3>1. i \in Int /\ j \in Int /\ values[i] \in Int /\ values[j] \in Int
      BY <1>1
    <3>2. ASSUME NEW k \in F, values[k] < values[i] \/ (values[k] = values[i] /\ k <= i)
          PROVE  values[k] < values[j] \/ (values[k] = values[j] /\ k <= j)
      <4>1. k \in Int /\ values[k] \in Int
        BY <1>1
      <4> QED BY <2>1, <3>1, <3>2, <4>1
    <3>3. ~(values[j] < values[i] \/ (values[j] = values[i] /\ j <= i))
      BY <2>1, <3>1
    <3> QED BY <1>3, <3>2, <3>3
  <2>2. ASSUME NEW i \in F, NEW j \in F, i # j
        PROVE  \/ values[i] < values[j] \/ (values[i] = values[j] /\ i < j)
               \/ values[j] < values[i] \/ (values[j] = values[i] /\ j < i)
    <3>1. i \in Int /\ j \in Int /\ values[i] \in Int /\ values[j] \in Int
      BY <1>1
    <3> QED BY <2>2, <3>1
  <2> QED BY <2>1, <2>2
<1>6. rank = [i \in F |-> Cardinality(upto[i])]
  OBVIOUS
<1> HIDE DEF rank
<1>7. /\ Cardinality(F) \in Nat /\ rank \in [F -> 1..Cardinality(F)]
      /\ \A k \in 1..Cardinality(F) : \E i \in F : rank[i] = k
  BY <1>2, <1>4, <1>5, <1>6, RanksNumber
<1>8. Cardinality(F) = 0 => F = {}
  BY <1>2, FS_EmptySet
<1>9. ASSUME NEW k \in 1..Cardinality(F)
      PROVE  \E i \in F : Reports!Sorted(values)[k] = values[i]
  <2> DEFINE at == CHOOSE i \in F : Reports!Cardinality(Reports!UpTo(values, i)) = k
  <2>1. \A i \in F : Reports!Cardinality(Reports!UpTo(values, i)) = rank[i]
    BY <1>6, CountsAreCounts DEF upto
  <2>2. at \in F
    BY <1>7, <2>1
  <2>3. Reports!Sorted(values)[k] = values[at]
    BY CountsAreCounts DEF Reports!Sorted
  <2> QED BY <2>2, <2>3
<1> QED BY <1>1, <1>7, <1>8, <1>9, CountsAreCounts

\* Twice a median is the sum of two of the readings it is the median of.
LEMMA MedianIsBetween ==
  ASSUME NEW n \in Nat, NEW values \in [1..n -> Int \cup {NoReading}],
         NEW t, t = Reports!TwiceMedian(values), t # NoReading
  PROVE  \E i, j \in Reports!Finite(values) : t = values[i] + values[j]
<1> DEFINE F == Reports!Finite(values)
           c == Reports!Cardinality(F)
           s == Reports!Sorted(values)
<1>1. /\ \A i \in F : values[i] \in Int
      /\ c \in Nat /\ \A k \in 1..c : \E i \in F : s[k] = values[i]
  BY SortedAreReadings
<1>2. /\ c # 0
      /\ t = IF (c % 2) = 1 THEN 2 * s[(c \div 2) + 1] ELSE s[c \div 2] + s[(c \div 2) + 1]
  BY DEF Reports!TwiceMedian
<1> HIDE DEF c, s, F
<1>3. CASE (c % 2) = 1
  <2>1. (c \div 2) + 1 \in 1..c
    BY <1>1, <1>2, <1>3
  <2>2. PICK i \in F : s[(c \div 2) + 1] = values[i]
    BY <1>1, <2>1
  <2>3. t = values[i] + values[i]
    BY <1>1, <1>2, <1>3, <2>2
  <2> QED BY <2>3 DEF F
<1>4. CASE (c % 2) # 1
  <2>1. (c \div 2) \in 1..c /\ (c \div 2) + 1 \in 1..c
    BY <1>1, <1>2, <1>4
  <2>2. PICK i \in F : s[c \div 2] = values[i]
    BY <1>1, <2>1
  <2>3. PICK j \in F : s[(c \div 2) + 1] = values[j]
    BY <1>1, <2>1
  <2> QED BY <1>2, <1>4, <2>2, <2>3 DEF F
<1> QED BY <1>3, <1>4

\* No sample of a baseline is a reading of its own that its median excludes: what improves
\* on every sample does not regress from the baseline.
LEMMA ImprovementsPass ==
  ASSUME NEW n \in Nat \ {0}, NEW given \in [1..n -> Snapshots], NEW s \in Snapshots,
         \A i \in 1..n :
           /\ given[i].eligible => s.eligible
           /\ NoReading \notin {s.hazard, given[i].hazard} => s.hazard <= given[i].hazard
           /\ NoReading \notin {s.recovery, given[i].recovery} => s.recovery >= given[i].recovery
  PROVE  Reports!QualificationRegressions(Reports!QualificationBaseline(given), s,
                                          HazardMargin, RecoveryMargin) = {}
<1> USE ReportConstants
<1> DEFINE base == Reports!QualificationBaseline(given)
           hazards == [i \in 1..n |-> given[i].hazard]
           recoveries == [i \in 1..n |-> given[i].recovery]
<1>1. \A i \in 1..n : given[i] \in Snapshots
  OBVIOUS
<1>2. hazards \in [1..n -> Int \cup {NoReading}] /\ recoveries \in [1..n -> Int \cup {NoReading}]
  BY <1>1
<1>3. base.eligible => s.eligible
  <2> DEFINE E == {i \in 1..n : given[i].eligible}
  <2>1. base.eligible = (2 * Reports!Cardinality(E) > n)
    BY DEF Reports!QualificationBaseline
  <2>2. E = {} => Reports!Cardinality(E) = 0
    BY CountsAreCounts, FS_EmptySet
  <2> HIDE DEF base
  <2>3. E = {} => ~(2 * Reports!Cardinality(E) > n)
    BY <2>2
  <2>4. base.eligible => E # {}
    BY <2>1, <2>3, Zenon
  <2> QED BY <2>4
<1>4. base.hazard = Reports!TwiceMedian(hazards) /\ base.recovery = Reports!TwiceMedian(recoveries)
  BY DEF Reports!QualificationBaseline
<1>5. ASSUME base.hazard # NoReading, s.hazard # NoReading
      PROVE  ~(2 * s.hazard > base.hazard + 2 * HazardMargin)
  <2> HIDE DEF base, hazards
  <2>1. PICK i \in Reports!Finite(hazards), j \in Reports!Finite(hazards) :
          base.hazard = hazards[i] + hazards[j]
    BY <1>2, <1>4, <1>5, MedianIsBetween
  <2>2. /\ i \in 1..n /\ hazards[i] # NoReading /\ hazards[i] = given[i].hazard
        /\ j \in 1..n /\ hazards[j] # NoReading /\ hazards[j] = given[j].hazard
    BY <1>2 DEF Reports!Finite, hazards
  <2>3. s.hazard <= hazards[i] /\ s.hazard <= hazards[j]
    BY <1>5, <2>2
  <2>4. s.hazard \in Int /\ hazards[i] \in Int /\ hazards[j] \in Int
    BY <1>2, <1>5, <2>2
  <2> QED BY <2>1, <2>3, <2>4
<1>6. ASSUME base.recovery # NoReading, s.recovery # NoReading
      PROVE  ~(2 * s.recovery < base.recovery - 2 * RecoveryMargin)
  <2> HIDE DEF base, recoveries
  <2>1. PICK i \in Reports!Finite(recoveries), j \in Reports!Finite(recoveries) :
          base.recovery = recoveries[i] + recoveries[j]
    BY <1>2, <1>4, <1>6, MedianIsBetween
  <2>2. /\ i \in 1..n /\ recoveries[i] # NoReading /\ recoveries[i] = given[i].recovery
        /\ j \in 1..n /\ recoveries[j] # NoReading /\ recoveries[j] = given[j].recovery
    BY <1>2 DEF Reports!Finite, recoveries
  <2>3. s.recovery >= recoveries[i] /\ s.recovery >= recoveries[j]
    BY <1>6, <2>2
  <2>4. s.recovery \in Int /\ recoveries[i] \in Int /\ recoveries[j] \in Int
    BY <1>2, <1>6, <2>2
  <2> QED BY <2>1, <2>3, <2>4
<1> HIDE DEF base
<1>7. Reports!QualificationRegressions(base, s, HazardMargin, RecoveryMargin) = {}
  BY <1>3, <1>5, <1>6 DEF Reports!QualificationRegressions
<1> QED BY <1>7 DEF base

Files == [token : 0..MaxWrites, content : Snapshots \cup {Reports!Partial}]

\* What was counted, and what the monitor made of it.
Kept == IF Len(counted) < BaselineSamples THEN Len(counted) ELSE BaselineSamples

ReportTypes ==
  /\ file \in Files /\ qPc \in {"attach", "stat", "read"}
  /\ seen \in 0..MaxWrites /\ token \in 0..MaxWrites /\ attachedAt \in 0..MaxWrites
  /\ counted \in Seq([token : 0..MaxWrites, content : Snapshots])
  /\ samples \in Seq(Snapshots) /\ Len(samples) = Kept
  /\ ~file.content.whole /\ file.token # 0 => file.token < MaxWrites

\* A poll never goes back, so that what it reads is newer than what there was to attach to.
Newer ==
  /\ attachedAt <= token /\ token <= file.token
  /\ qPc = "attach" => counted = <<>>
  /\ qPc = "read" => token < seen /\ seen <= file.token
  /\ \A i \in 1..Len(counted) : counted[i].token > attachedAt

Sampled ==
  /\ \A i \in 1..Kept : samples[i] = counted[i].content
  /\ Len(counted) >= BaselineSamples => baseline = Reports!QualificationBaseline(samples)

\* Where the current streak starts: at the baseline or behind a healthy report.
Healthy ==
  {i \in (BaselineSamples + 1)..Len(counted) : ~Reports!Regressing(i)} \cup {Kept}

Trailing ==
  \E last \in Healthy : (\A i \in Healthy : last >= i) /\ streak = Len(counted) - last

ReportInv == ReportTypes /\ Newer /\ Sampled /\ Trailing

LEMMA ReportFiles ==
  ASSUME NEW x \in Files
  PROVE  /\ x.token \in 0..MaxWrites
         /\ x.content.whole => x.content \in Snapshots
         /\ x.content \in Snapshots => x.content.whole
<1>1. x.token \in 0..MaxWrites /\ (x.content \in Snapshots \/ x.content = Reports!Partial)
  BY DEF Files
<1>2. x.content \in Snapshots => x.content.whole = TRUE
  BY ReportConstants
<1>3. x.content = Reports!Partial => x.content.whole = FALSE
  BY DEF Reports!Partial
<1> QED BY <1>1, <1>2, <1>3, Zenon

\* The trainer's side writes; the monitor's counts stay.
LEMMA ReportWrites ==
  ASSUME ReportInv, Reports!Truncate \/ Reports!Fill
  PROVE  ReportInv'
<1> USE ReportConstants
<1>1. /\ file \in Files /\ file.token \in 0..MaxWrites
      /\ ~file.content.whole /\ file.token # 0 => file.token < MaxWrites
  BY ReportFiles DEF ReportInv, ReportTypes
<1>2. /\ file' \in Files /\ file'.token = file.token + 1
      /\ ~file'.content.whole /\ file'.token # 0 => file'.token < MaxWrites
  <2>1. CASE Reports!Truncate
    <3>1. file' = [token |-> file.token + 1, content |-> Reports!Partial] /\ file.token < MaxWrites - 1
      BY <2>1 DEF Reports!Truncate
    <3> QED BY <1>1, <3>1 DEF Files
  <2>2. CASE Reports!Fill
    <3>1. file.token # 0 /\ ~file.content.whole
      BY <2>2 DEF Reports!Fill, Reports!Absent
    <3>2. PICK s \in Snapshots : file' = [token |-> file.token + 1, content |-> s]
      BY <2>2 DEF Reports!Fill
    <3>3. s.whole
      OBVIOUS
    <3> QED BY <1>1, <3>1, <3>2, <3>3 DEF Files
  <2> QED BY <2>1, <2>2
<1>3. /\ qPc' = qPc /\ seen' = seen /\ token' = token /\ samples' = samples
      /\ baseline' = baseline /\ streak' = streak /\ attachedAt' = attachedAt /\ counted' = counted
  BY DEF Reports!Truncate, Reports!Fill, Reports!monitor
<1>4. ReportTypes'
  BY <1>2, <1>3 DEF ReportInv, ReportTypes, Kept
<1>5. Newer'
  BY <1>1, <1>2, <1>3 DEF ReportInv, ReportTypes, Newer
<1>6. Sampled' /\ Trailing'
  <2>1. Healthy' = Healthy /\ Kept' = Kept
    BY <1>3 DEF Healthy, Kept, Reports!Regressing
  <2> QED BY <1>3, <2>1 DEF ReportInv, Sampled, Trailing
<1> QED BY <1>4, <1>5, <1>6 DEF ReportInv

\* A poll that takes nothing in.
LEMMA ReportLooks ==
  ASSUME ReportInv, Reports!Attach \/ Reports!Stat \/ Reports!Unreadable
  PROVE  ReportInv'
<1> USE ReportConstants
<1>1. /\ file' = file /\ samples' = samples /\ baseline' = baseline /\ streak' = streak
      /\ counted' = counted
  BY DEF Reports!Attach, Reports!Stat, Reports!Unreadable
<1>2. file.token \in 0..MaxWrites
  BY ReportFiles DEF ReportInv, ReportTypes
<1>3. ReportTypes'
  BY <1>1, <1>2 DEF ReportInv, ReportTypes, Kept, Reports!Attach, Reports!Stat, Reports!Unreadable
<1>4. Newer'
  <2>1. CASE Reports!Attach
    <3>1. counted = <<>> /\ token' = file.token /\ attachedAt' = file.token /\ qPc' = "stat"
      BY <2>1 DEF ReportInv, Newer, Reports!Attach
    <3> QED BY <1>1, <1>2, <3>1 DEF Newer
  <2>2. CASE Reports!Stat
    <3>1. file.token # token /\ seen' = file.token /\ qPc' = "read" /\ token' = token /\ attachedAt' = attachedAt
      BY <2>2 DEF Reports!Stat
    <3> QED BY <1>1, <1>2, <3>1 DEF ReportInv, ReportTypes, Newer
  <2>3. CASE Reports!Unreadable
    <3>1. qPc' = "stat" /\ token' = token /\ attachedAt' = attachedAt
      BY <2>3 DEF Reports!Unreadable
    <3> QED BY <1>1, <3>1 DEF ReportInv, Newer
  <2> QED BY <2>1, <2>2, <2>3
<1>5. Sampled' /\ Trailing'
  <2>1. Healthy' = Healthy /\ Kept' = Kept
    BY <1>1 DEF Healthy, Kept, Reports!Regressing
  <2> QED BY <1>1, <2>1 DEF ReportInv, Sampled, Trailing
<1> QED BY <1>3, <1>4, <1>5 DEF ReportInv

\* What a report taken in adds to what was counted.
LEMMA ReportTaken ==
  ASSUME ReportInv, Reports!Taken
  PROVE  LET n == Len(counted) IN
         /\ n \in Nat /\ Len(counted') = n + 1 /\ file.content \in Snapshots
         /\ counted'[n + 1] = file /\ \A i \in 1..n : counted'[i] = counted[i]
         /\ file' = file /\ counted' \in Seq([token : 0..MaxWrites, content : Snapshots])
         /\ qPc' = "stat" /\ seen' \in 0..MaxWrites /\ token' \in 0..MaxWrites
         /\ attachedAt' \in 0..MaxWrites
         /\ Newer'
<1> USE ReportConstants
<1>1. /\ qPc = "read" /\ qPc' = "stat" /\ file.content.whole /\ token' = seen
      /\ counted' = Append(counted, file) /\ file' = file /\ seen' = seen /\ attachedAt' = attachedAt
  BY DEF Reports!Taken
<1>2. /\ file \in Files /\ seen \in 0..MaxWrites /\ token \in 0..MaxWrites /\ attachedAt \in 0..MaxWrites
      /\ counted \in Seq([token : 0..MaxWrites, content : Snapshots])
  BY DEF ReportInv, ReportTypes
<1>3. file.token \in 0..MaxWrites /\ file.content \in Snapshots
  BY <1>1, <1>2, ReportFiles
<1>4. file \in [token : 0..MaxWrites, content : Snapshots]
  BY <1>2, <1>3 DEF Files
<1> DEFINE n == Len(counted)
<1>5. /\ n \in Nat /\ Len(counted') = n + 1 /\ counted'[n + 1] = file
      /\ \A i \in 1..n : counted'[i] = counted[i]
      /\ counted' \in Seq([token : 0..MaxWrites, content : Snapshots])
  BY <1>1, <1>2, <1>4
<1>6. Newer'
  <2>1. attachedAt <= token /\ token < seen /\ seen <= file.token
    BY <1>1 DEF ReportInv, Newer
  <2>2. \A i \in 1..n : counted[i].token > attachedAt
    BY DEF ReportInv, Newer
  <2>3. \A i \in 1..n + 1 : counted'[i].token > attachedAt
    <3>1. file.token > attachedAt
      BY <1>2, <1>3, <2>1
    <3> HIDE DEF n
    <3>2. \A i \in 1..n + 1 : i = n + 1 \/ i \in 1..n
      BY <1>5 DEF n
    <3> QED BY <1>5, <2>2, <3>1, <3>2
  <2> QED BY <1>1, <1>2, <1>3, <1>5, <2>1, <2>3 DEF Newer
<1> QED BY <1>1, <1>2, <1>3, <1>5, <1>6

LEMMA ReportSampled ==
  ASSUME ReportInv, Reports!Sample
  PROVE  ReportInv'
<1> USE ReportConstants
<1> DEFINE n == Len(counted)
<1>1. /\ Reports!Taken /\ ~(Len(samples) >= BaselineSamples)
      /\ samples' = Append(samples, file.content) /\ streak' = 0
      /\ Len(samples) + 1 >= BaselineSamples => baseline' = Reports!QualificationBaseline(samples')
  BY DEF Reports!Sample, Reports!Snapshot, Reports!HasBaseline
<1>2. /\ n \in Nat /\ Len(counted') = n + 1 /\ file.content \in Snapshots
      /\ counted'[n + 1] = file /\ \A i \in 1..n : counted'[i] = counted[i]
      /\ file' = file /\ counted' \in Seq([token : 0..MaxWrites, content : Snapshots])
      /\ qPc' = "stat" /\ seen' \in 0..MaxWrites /\ token' \in 0..MaxWrites
      /\ attachedAt' \in 0..MaxWrites
      /\ Newer'
  BY <1>1, ReportTaken
<1>3. samples \in Seq(Snapshots) /\ Len(samples) = Kept /\ \A i \in 1..Kept : samples[i] = counted[i].content
  BY DEF ReportInv, ReportTypes, Sampled
<1> HIDE DEF n
<1>4. n < BaselineSamples /\ Kept = n
  BY <1>1, <1>2, <1>3 DEF Kept, n
<1>5. Kept' = n + 1
  BY <1>2, <1>4 DEF Kept
<1>6. /\ samples' \in Seq(Snapshots) /\ Len(samples') = n + 1 /\ samples'[n + 1] = file.content
      /\ \A i \in 1..n : samples'[i] = samples[i]
  BY <1>1, <1>2, <1>3, <1>4
<1>7. ReportTypes'
  BY <1>2, <1>5, <1>6 DEF ReportInv, ReportTypes
<1>8. Sampled'
  <2>1. \A i \in 1..n + 1 : i = n + 1 \/ i \in 1..n
    BY <1>2
  <2>2. \A i \in 1..n + 1 : samples'[i] = counted'[i].content
    BY <1>2, <1>3, <1>4, <1>6, <2>1
  <2>3. n + 1 >= BaselineSamples => baseline' = Reports!QualificationBaseline(samples')
    BY <1>1, <1>3, <1>4
  <2> QED BY <1>2, <1>5, <2>2, <2>3 DEF Sampled
<1>9. Trailing'
  <2>1. Healthy' = {n + 1}
    BY <1>2, <1>4, <1>5 DEF Healthy
  <2> QED BY <1>1, <1>2, <2>1 DEF Trailing
<1> QED BY <1>2, <1>7, <1>8, <1>9 DEF ReportInv

LEMMA ReportCompared ==
  ASSUME ReportInv, Reports!Compare
  PROVE  ReportInv'
<1>0. BaselineSamples \in Nat
  BY ReportConstants
<1> PICK n : n = Len(counted)
  OBVIOUS
<1> DEFINE bad == Reports!QualificationRegressions(baseline, file.content, HazardMargin, RecoveryMargin) # {}
<1>1. /\ Reports!Taken /\ Len(samples) >= BaselineSamples
      /\ samples' = samples /\ baseline' = baseline
      /\ streak' = IF bad THEN streak + 1 ELSE 0
  BY DEF Reports!Compare, Reports!Snapshot, Reports!HasBaseline
<1>2. /\ n \in Nat /\ Len(counted') = n + 1 /\ file.content \in Snapshots
      /\ counted'[n + 1] = file /\ \A i \in 1..n : counted'[i] = counted[i]
      /\ file' = file /\ counted' \in Seq([token : 0..MaxWrites, content : Snapshots])
      /\ qPc' = "stat" /\ seen' \in 0..MaxWrites /\ token' \in 0..MaxWrites
      /\ attachedAt' \in 0..MaxWrites
      /\ Newer'
  BY <1>1, ReportTaken
<1>3. samples \in Seq(Snapshots) /\ Len(samples) = Kept /\ \A i \in 1..Kept : samples[i] = counted[i].content
  BY DEF ReportInv, ReportTypes, Sampled
<1>4. n >= BaselineSamples /\ Kept = BaselineSamples /\ Kept' = BaselineSamples
  BY <1>0, <1>1, <1>2, <1>3 DEF Kept
<1>5. ReportTypes'
  BY ReportConstants, <1>1, <1>2, <1>3, <1>4 DEF ReportInv, ReportTypes
<1>6. Sampled'
  <2>1. baseline = Reports!QualificationBaseline(samples)
    BY <1>4 DEF ReportInv, Sampled
  <2>2. \A i \in 1..BaselineSamples : i \in 1..n
    BY <1>0, <1>2, <1>4
  <2>3. \A i \in 1..BaselineSamples : samples'[i] = counted'[i].content
    BY <1>1, <1>2, <1>3, <1>4, <2>2
  <2> QED BY <1>1, <1>4, <2>1, <2>3 DEF Sampled
<1>7. samples = [j \in 1..BaselineSamples |-> counted[j].content]
  <2>1. samples = [j \in 1..BaselineSamples |-> samples[j]]
    BY <1>3, <1>4
  <2> QED BY <1>3, <1>4, <2>1
<1>8. [j \in 1..BaselineSamples |-> counted'[j].content] = [j \in 1..BaselineSamples |-> counted[j].content]
  <2>1. \A j \in 1..BaselineSamples : j \in 1..n
    BY <1>0, <1>2, <1>4
  <2>2. \A j \in 1..BaselineSamples : counted'[j].content = counted[j].content
    BY <1>2, <2>1
  <2> QED BY <2>2, Zenon
<1>9. \A i \in 1..n : Reports!Regressing(i)' <=> Reports!Regressing(i)
  BY <1>2, <1>8 DEF Reports!Regressing
<1>10. Reports!Regressing(n + 1)' <=> bad
  <2>1. baseline = Reports!QualificationBaseline([j \in 1..BaselineSamples |-> counted'[j].content])
    BY <1>4, <1>7, <1>8 DEF ReportInv, Sampled
  <2>2. counted'[n + 1].content = file.content
    BY <1>2
  <2>3. Reports!Regressing(n + 1)'
          <=> Reports!QualificationRegressions(
                Reports!QualificationBaseline([j \in 1..BaselineSamples |-> counted'[j].content]),
                counted'[n + 1].content, HazardMargin, RecoveryMargin) # {}
    BY Zenon DEF Reports!Regressing
  <2> QED BY <2>1, <2>2, <2>3, Zenon
<1>11. Healthy' = Healthy \cup (IF bad THEN {} ELSE {n + 1})
  <2>1. \A i : i \in (BaselineSamples + 1)..(n + 1) <=> i = n + 1 \/ i \in (BaselineSamples + 1)..n
    <3>1. n + 1 \in (BaselineSamples + 1)..(n + 1)
      BY <1>0, <1>2, <1>4
    <3>2. ASSUME NEW i \in (BaselineSamples + 1)..(n + 1), i # n + 1
          PROVE  i \in (BaselineSamples + 1)..n
      <4>1. n \in Nat
        BY <1>2
      <4> QED BY <1>0, <3>2, <4>1
    <3>3. \A i \in (BaselineSamples + 1)..n : i \in (BaselineSamples + 1)..(n + 1)
      BY <1>0, <1>2, <1>4
    <3> QED BY <3>1, <3>2, <3>3, Zenon
  <2>2. \A i : i \in (BaselineSamples + 1)..n => i \in 1..n
    <3>1. n \in Nat
      BY <1>2
    <3> QED BY <1>0, <3>1
  <2> HIDE DEF bad
  <2>3. \A i : i \in Healthy' <=> i \in Healthy \/ (~bad /\ i = n + 1)
    <3>1. Healthy' = {i \in (BaselineSamples + 1)..(n + 1) : ~Reports!Regressing(i)'} \cup {BaselineSamples}
      BY <1>2, <1>4 DEF Healthy
    <3>2. Healthy = {i \in (BaselineSamples + 1)..n : ~Reports!Regressing(i)} \cup {BaselineSamples}
      BY <1>4 DEF Healthy
    <3>3. n + 1 \notin (BaselineSamples + 1)..n
      BY <1>0, <1>2, <1>4
    <3> QED BY <1>9, <1>10, <2>1, <2>2, <3>1, <3>2, <3>3, Zenon
  <2> QED BY <2>3
<1> HIDE DEF bad
<1>12. Trailing'
  <2>1. PICK last \in Healthy : (\A i \in Healthy : last >= i) /\ streak = n - last
    BY DEF ReportInv, Trailing
  <2>2. \A i \in Healthy : i \in 0..n
    BY <1>0, <1>2, <1>4 DEF Healthy
  <2>3. CASE bad
    <3>1. Healthy' = Healthy /\ streak' = (n + 1) - last
      BY <1>1, <1>2, <1>11, <2>1, <2>2, <2>3
    <3>2. streak' = Len(counted') - last
      <4>1. Len(counted') = n + 1
        BY <1>2
      <4> QED BY <3>1, <4>1
    <3> QED BY <2>1, <3>1, <3>2, Zenon DEF Trailing
  <2>4. CASE ~bad
    <3>1. Healthy' = Healthy \cup {n + 1} /\ streak' = (n + 1) - (n + 1)
      BY <1>1, <1>2, <1>11, <2>4
    <3>2. \A i \in Healthy' : n + 1 >= i
      BY <1>2, <2>2, <3>1
    <3>3. streak' = Len(counted') - (n + 1) /\ n + 1 \in Healthy'
      <4>1. n + 1 \in Healthy'
        BY <3>1, Zenon
      <4>2. Len(counted') = n + 1
        BY <1>2
      <4>3. streak' = Len(counted') - (n + 1)
        BY <3>1, <4>2
      <4> QED BY <4>1, <4>3
    <3> QED BY <3>2, <3>3, Zenon DEF Trailing
  <2> QED BY <2>3, <2>4, Zenon
<1> QED BY <1>2, <1>5, <1>6, <1>12 DEF ReportInv

\* The invariant of the monitor that follows a report.
LEMMA ReportInvariant ==
  /\ Reports!Init => ReportInv
  /\ ReportInv /\ [Reports!Next]_reportVars => ReportInv'
<1> USE ReportConstants
<1>1. ASSUME Reports!Init PROVE ReportInv
  <2>1. /\ file = [token |-> 0, content |-> Reports!Partial] /\ qPc = "attach" /\ seen = 0
        /\ token = 0 /\ samples = <<>> /\ streak = 0 /\ attachedAt = 0 /\ counted = <<>>
    BY <1>1 DEF Reports!Init, Reports!Absent
  <2>2. Len(counted) = 0 /\ Len(samples) = 0 /\ Kept = 0 /\ 1..0 = {}
    BY <2>1 DEF Kept
  <2>3. counted \in Seq([token : 0..MaxWrites, content : Snapshots]) /\ samples \in Seq(Snapshots)
    BY <2>1
  <2>4. ReportTypes
    BY <2>1, <2>2, <2>3 DEF ReportTypes, Files
  <2>5. Newer /\ Sampled
    BY <2>1, <2>2 DEF Newer, Sampled
  <2>6. Healthy = {0}
    BY <2>2 DEF Healthy
  <2>7. Trailing
    BY <2>1, <2>2, <2>6 DEF Trailing
  <2> QED BY <2>4, <2>5, <2>7 DEF ReportInv
<1>2. ASSUME ReportInv, UNCHANGED reportVars PROVE ReportInv'
  <2>1. /\ file' = file /\ qPc' = qPc /\ seen' = seen /\ token' = token /\ samples' = samples
        /\ baseline' = baseline /\ streak' = streak /\ attachedAt' = attachedAt /\ counted' = counted
    BY <1>2 DEF reportVars
  <2>2. ReportTypes' /\ Newer' /\ Sampled'
    BY <1>2, <2>1 DEF ReportInv, ReportTypes, Newer, Sampled, Kept
  <2>3. Trailing'
    <3>1. Trailing
      BY <1>2 DEF ReportInv
    <3>2. Kept' = Kept
      BY <2>1 DEF Kept
    <3>3. Healthy' = Healthy
      BY <2>1, <3>2 DEF Healthy, Reports!Regressing
    <3> QED BY <2>1, <3>1, <3>3 DEF Trailing
  <2> QED BY <2>2, <2>3 DEF ReportInv
<1>3. ASSUME ReportInv, Reports!Next PROVE ReportInv'
  BY <1>3, ReportWrites, ReportLooks, ReportSampled, ReportCompared DEF Reports!Next, Reports!Poll
<1> QED BY <1>1, <1>2, <1>3

LEMMA ReportsGovern ==
  ASSUME ReportInv
  PROVE  /\ Reports!TypeOK /\ Reports!OnlyFreshReports /\ Reports!StreakIsTheTail
         /\ Reports!ImprovementIsHealthy
<1> USE ReportConstants
<1> DEFINE n == Len(counted)
<1>1. /\ n \in Nat /\ counted \in Seq([token : 0..MaxWrites, content : Snapshots])
      /\ samples \in Seq(Snapshots) /\ Len(samples) = Kept
  BY DEF ReportInv, ReportTypes
<1>2. PICK last \in Healthy : (\A i \in Healthy : last >= i) /\ streak = n - last
  BY DEF ReportInv, Trailing
<1>3. \A i \in Healthy : i \in 0..n
  BY <1>1 DEF Healthy, Kept
<1>4. Reports!TypeOK
  <2>1. streak \in 0..n
    BY <1>1, <1>2, <1>3
  <2>2. Len(samples) <= BaselineSamples
    BY <1>1 DEF Kept
  <2>3. file.token \in 0..MaxWrites
    BY ReportFiles DEF ReportInv, ReportTypes
  <2> QED BY <2>1, <2>2, <2>3 DEF ReportInv, ReportTypes, Reports!TypeOK
<1>5. Reports!OnlyFreshReports
  <2> SUFFICES ASSUME NEW i \in DOMAIN counted
               PROVE  counted[i].token > attachedAt /\ counted[i].content.whole
    BY DEF Reports!OnlyFreshReports
  <2>0. DOMAIN counted = 1..n
    BY <1>1
  <2>1. i \in 1..n
    BY <2>0
  <2>2. counted[i].content \in Snapshots
    <3>1. counted[i] \in [token : 0..MaxWrites, content : Snapshots]
      BY <1>1, <2>1, ElementOfSeq
    <3> QED BY <3>1
  <2>3. counted[i].content.whole
    BY <2>2
  <2> QED BY <2>1, <2>3 DEF ReportInv, Newer
<1>6. Reports!StreakIsTheTail
  <2>1. Reports!Min({BaselineSamples, n}) = Kept
    <3>1. Reports!Min({BaselineSamples, n}) = CHOOSE x \in {BaselineSamples, n} : \A y \in {BaselineSamples, n} : x <= y
      BY DEF Reports!Min
    <3>2. \E x \in {BaselineSamples, n} : \A y \in {BaselineSamples, n} : x <= y
      BY <1>1
    <3> HIDE DEF n
    <3> QED BY <1>1, <3>1, <3>2 DEF Kept, n
  <2> DEFINE H == {i \in (BaselineSamples + 1)..n : ~Reports!Regressing(i)}
                    \cup {Reports!Min({BaselineSamples, n})}
  <2>2. H = Healthy
    BY <2>1 DEF Healthy
  <2>3. Reports!Max(H) = last
    <3>1. Reports!Max(H) = CHOOSE x \in H : \A y \in H : x >= y
      BY DEF Reports!Max
    <3> HIDE DEF H
    <3>2. last \in H /\ \A y \in H : last >= y /\ y \in Int
      BY <1>2, <1>3, <2>2
    <3>3. \A x \in H : (\A y \in H : x >= y) => x = last
      BY <3>2
    <3> QED BY <3>1, <3>2, <3>3
  <2> QED BY <1>2, <2>3 DEF Reports!StreakIsTheTail
<1>7. Reports!ImprovementIsHealthy
  <2> SUFFICES ASSUME Len(samples) >= BaselineSamples, NEW s \in Snapshots,
                      \A i \in DOMAIN samples :
                        /\ samples[i].eligible => s.eligible
                        /\ NoReading \notin {s.hazard, samples[i].hazard} => s.hazard <= samples[i].hazard
                        /\ NoReading \notin {s.recovery, samples[i].recovery}
                             => s.recovery >= samples[i].recovery
               PROVE  Reports!QualificationRegressions(baseline, s, HazardMargin, RecoveryMargin) = {}
    BY DEF Reports!ImprovementIsHealthy, Reports!HasBaseline
  <2>1. n >= BaselineSamples /\ Len(samples) = BaselineSamples
    BY <1>1 DEF Kept
  <2>2. baseline = Reports!QualificationBaseline(samples)
    BY <2>1 DEF ReportInv, Sampled
  <2>3. samples \in [1..BaselineSamples -> Snapshots] /\ DOMAIN samples = 1..BaselineSamples
    BY <1>1, <2>1
  <2> QED BY <2>2, <2>3, ImprovementsPass
<1> QED BY <1>4, <1>5, <1>6, <1>7

-----------------------------------------------------------------------------
(***************************************************************************)
(* The resumes.                                                            *)
(***************************************************************************)

LEMMA ResumeConstants ==
  LastStep \in Nat /\ Switch \in 1..LastStep /\ MaxEdits \in Nat
BY PartsAssumption DEF Resume!ResumeAssumption

Configs == [func : {"track", "other"}, gain : 1..2, initial_stage : {"default", "explicit"},
            order : {<<"a", "b">>, <<"b", "a">>}, workers : 1..2, scale : Resume!Scales]

\* A process p, or a checkpoint of one: the manifest of its code, configuration and
\* packages, its keys once migrated, and what stands under them.
Started(p) == p.code \in 0..4 /\ p.config \in Configs
ManifestOf(p) == Resume!Manifest(p.code, p.config, p.runtime)

Has(p, k) ==
  \/ k \in {"func", "gain", "order", "scale", "runtime"}
  \/ k = "initial_stage" /\ p.config.initial_stage # "default"
  \/ k = "outputs" /\ p.code >= 2
  \/ k = "slack" /\ p.code < 3
  \/ k = "clip" /\ p.code < 4

Value(p, k) ==
  CASE k = "func" -> <<"mdp.rewards", p.config.func>>
    [] k = "runtime" -> p.runtime
    [] k \in {"outputs", "slack", "clip"} -> 1
    [] OTHER -> p.config[k]

\* The scales that were saved are there and the same.
ScalesKept(saved, active) ==
  \A j \in DOMAIN saved : j \in DOMAIN active /\ active[j] = saved[j]

\* What a checkpoint and a process must have in common for a load.
Matches(saved, active, full) ==
  /\ saved.config.func = active.config.func /\ saved.config.order = active.config.order
  /\ saved.code < 4 => active.code < 4
  /\ ScalesKept(saved.config.scale, active.config.scale)
  /\ full =>
       /\ saved.config.gain = active.config.gain
       /\ saved.config.initial_stage \in {"default", active.config.initial_stage}
       /\ saved.code < 3 => active.code < 3
       /\ saved.runtime = active.runtime

LEMMA ScalesAreMaps ==
  ASSUME NEW s \in Resume!Scales
  PROVE  s = [j \in DOMAIN s |-> s[j]]
<1>1. PICK J \in SUBSET Joints : s \in [{"all"} \cup J -> 1..2]
  BY DEF Resume!Scales
<1> QED BY <1>1

\* The keys of a manifest once migrated, and what stands under them.
LEMMA MigratedManifest ==
  ASSUME NEW p, Started(p), NEW g, g = Resume!Migrated(ManifestOf(p))
  PROVE  /\ \A k : k \in DOMAIN g <=> Has(p, k)
         /\ \A k \in DOMAIN g : g[k] = Value(p, k)
<1> DEFINE m == ManifestOf(p)
           D == Resume!Fields(p.code, p.config)
<1>1. \A k : k \in D <=> Has(p, k) \/ (k = "initial_stage" /\ p.code < 2)
  BY DEF Resume!Fields, Has, Started
<1>2. /\ m = [k \in DOMAIN m |-> m[k]] /\ DOMAIN m = D
      /\ \A k \in D : m[k] = CASE k = "func" -> <<Resume!Module(p.code), p.config.func>>
                               [] k = "runtime" -> p.runtime
                               [] k \in {"outputs", "slack", "clip"} -> 1
                               [] OTHER -> p.config[k]
  BY DEF Resume!Manifest, Resume!QualifiedName, ManifestOf
<1>3. g = [k \in {f \in DOMAIN m : f = "initial_stage" => m[f] # "default"} |->
             IF k = "func" THEN Resume!Renamed(m[k]) ELSE m[k]]
  BY DEF Resume!Migrated
<1> HIDE DEF m, D
<1>4. Resume!Renamed(<<Resume!Module(p.code), p.config.func>>) = <<"mdp.rewards", p.config.func>>
  BY DEF Resume!Renamed, Resume!Module
<1>5. p.config["initial_stage"] = p.config.initial_stage
  OBVIOUS
<1>6. DOMAIN g = {f \in D : f = "initial_stage" => m[f] # "default"}
  BY <1>2, <1>3
<1>7. \A k : k \in DOMAIN g <=> Has(p, k)
  <2>1. "initial_stage" \in D => m["initial_stage"] = p.config.initial_stage
    BY <1>2, <1>5
  <2> QED BY <1>1, <1>6, <2>1 DEF Has
<1>8. ASSUME NEW k \in DOMAIN g PROVE g[k] = Value(p, k)
  <2>1. k \in D /\ g[k] = IF k = "func" THEN Resume!Renamed(m[k]) ELSE m[k]
    BY <1>2, <1>3, <1>6, <1>8
  <2>2. CASE k = "func"
    BY <1>2, <1>4, <2>1, <2>2 DEF Value
  <2>3. CASE k # "func"
    BY <1>2, <2>1, <2>3 DEF Value
  <2> QED BY <2>2, <2>3
<1> QED BY <1>7, <1>8

\* What is compared of it.
LEMMA PayloadOfManifest ==
  ASSUME NEW p, Started(p), NEW full \in BOOLEAN,
         NEW s, s = Resume!Payload(Resume!Migrated(ManifestOf(p)), full)
  PROVE  /\ s = [k \in DOMAIN s |-> s[k]]
         /\ \A k : k \in DOMAIN s <=> Has(p, k) /\ (full \/ k \in Resume!Interface)
         /\ \A k \in DOMAIN s : s[k] = Value(p, k)
<1> DEFINE g == Resume!Migrated(ManifestOf(p))
<1>1. /\ \A k : k \in DOMAIN g <=> Has(p, k)
      /\ \A k \in DOMAIN g : g[k] = Value(p, k)
  BY MigratedManifest
<1>2. s = [k \in {f \in DOMAIN g : full \/ f \in Resume!Interface} |-> g[k]]
  BY DEF Resume!Payload
<1> HIDE DEF g
<1>3. DOMAIN s = {f \in DOMAIN g : full \/ f \in Resume!Interface}
  BY <1>2
<1>4. \A k \in DOMAIN s : s[k] = g[k]
  BY <1>2
<1>5. s = [k \in DOMAIN s |-> s[k]]
  BY <1>2
<1>6. \A k : k \in DOMAIN s <=> Has(p, k) /\ (full \/ k \in Resume!Interface)
  BY <1>1, <1>3
<1>7. \A k \in DOMAIN s : s[k] = Value(p, k)
  BY <1>1, <1>3, <1>4
<1> QED BY <1>5, <1>6, <1>7

\* A checkpoint that an older or the same code wrote loads exactly when it matches the
\* process: neither a renamed module nor an impulse default that is gone nor a new field
\* counts, and any other parameter that is gone does.
LEMMA MatchesLoad ==
  ASSUME NEW saved, NEW active, Started(saved), Started(active), saved.code <= active.code,
         NEW full \in BOOLEAN
  PROVE  Resume!Compatible(ManifestOf(saved), ManifestOf(active), full)
           <=> Matches(saved, active, full)
<1> DEFINE s == Resume!Payload(Resume!Migrated(ManifestOf(saved)), full)
           a == Resume!Payload(Resume!Migrated(ManifestOf(active)), full)
           r == [j \in DOMAIN active.config.scale \cap DOMAIN saved.config.scale |-> active.config.scale[j]]
           Compared(k) == Has(saved, k) /\ (full \/ k \in Resume!Interface)
           Agreed(k) == Compared(k) => Has(active, k) /\ Value(saved, k) = Value(active, k)
<1>1. /\ s = [k \in DOMAIN s |-> s[k]]
      /\ \A k : k \in DOMAIN s <=> Compared(k)
      /\ \A k \in DOMAIN s : s[k] = Value(saved, k)
  BY PayloadOfManifest
<1>2. /\ \A k : k \in DOMAIN a <=> Has(active, k) /\ (full \/ k \in Resume!Interface)
      /\ \A k \in DOMAIN a : a[k] = Value(active, k)
  BY PayloadOfManifest
<1>3. Resume!Compatible(ManifestOf(saved), ManifestOf(active), full)
        <=> s = [k \in DOMAIN a \cap DOMAIN s |->
                   IF k = "scale" THEN [j \in DOMAIN a[k] \cap DOMAIN s[k] |-> a[k][j]] ELSE a[k]]
  BY DEF Resume!Compatible, Resume!Restricted
<1>4. /\ "scale" \in DOMAIN s /\ "scale" \in DOMAIN a
      /\ s["scale"] = saved.config.scale /\ a["scale"] = active.config.scale
  BY <1>1, <1>2 DEF Has, Value, Resume!Interface
<1> HIDE DEF s, a
<1>5. (s = [k \in DOMAIN a \cap DOMAIN s |->
              IF k = "scale" THEN [j \in DOMAIN a[k] \cap DOMAIN s[k] |-> a[k][j]] ELSE a[k]])
        <=> /\ \A k \in DOMAIN s : k # "scale" => k \in DOMAIN a /\ s[k] = a[k]
            /\ saved.config.scale = r
  <2> DEFINE b == [k \in DOMAIN a \cap DOMAIN s |->
                     IF k = "scale" THEN [j \in DOMAIN a[k] \cap DOMAIN s[k] |-> a[k][j]] ELSE a[k]]
  <2>1. /\ DOMAIN b = DOMAIN a \cap DOMAIN s
        /\ \A k \in DOMAIN a \cap DOMAIN s : k # "scale" => b[k] = a[k]
        /\ b["scale"] = r
    BY <1>4
  <2>2. b = [k \in DOMAIN b |-> b[k]]
    OBVIOUS
  <2> HIDE DEF b, r
  <2>3. s = b => /\ \A k \in DOMAIN s : k # "scale" => k \in DOMAIN a /\ s[k] = a[k]
                 /\ saved.config.scale = r
    BY <1>4, <2>1
  <2>4. ASSUME \A k \in DOMAIN s : k # "scale" => k \in DOMAIN a /\ s[k] = a[k],
               saved.config.scale = r
        PROVE  s = b
    <3>1. DOMAIN s = DOMAIN b
      BY <1>4, <2>1, <2>4
    <3>2. \A k \in DOMAIN s : s[k] = b[k]
      BY <1>4, <2>1, <2>4
    <3> QED BY <1>1, <2>2, <3>1, <3>2
  <2> QED BY <2>3, <2>4 DEF b
<1>6. saved.config.scale = r <=> ScalesKept(saved.config.scale, active.config.scale)
  <2> DEFINE old == saved.config.scale
             new == active.config.scale
  <2>1. old = [j \in DOMAIN old |-> old[j]]
    BY ScalesAreMaps DEF Configs, Started
  <2>2. /\ DOMAIN r = DOMAIN new \cap DOMAIN old /\ \A j \in DOMAIN r : r[j] = new[j]
        /\ r = [j \in DOMAIN r |-> r[j]]
    OBVIOUS
  <2> HIDE DEF r, old, new
  <2>3. old = r => ScalesKept(old, new)
    BY <2>2 DEF ScalesKept
  <2>4. ASSUME ScalesKept(old, new) PROVE old = r
    <3>1. DOMAIN old = DOMAIN r
      BY <2>2, <2>4 DEF ScalesKept
    <3>2. \A j \in DOMAIN old : old[j] = r[j]
      BY <2>2, <2>4, <3>1 DEF ScalesKept
    <3> QED BY <2>1, <2>2, <3>1, <3>2
  <2> QED BY <2>3, <2>4 DEF old, new
<1> HIDE DEF r
<1>7. (\A k \in DOMAIN s : k # "scale" => k \in DOMAIN a /\ s[k] = a[k])
        <=> \A k : k # "scale" => Agreed(k)
  <2>1. \A k : Compared(k) /\ Has(active, k) => k \in DOMAIN a
    BY <1>2
  <2> QED BY <1>1, <1>2, <2>1
<1>8. (\A k : k # "scale" => Agreed(k))
        <=> /\ Agreed("func") /\ Agreed("gain") /\ Agreed("order") /\ Agreed("runtime")
            /\ Agreed("initial_stage") /\ Agreed("outputs") /\ Agreed("slack") /\ Agreed("clip")
  <2>1. \A k : Compared(k) => k \in {"func", "gain", "order", "scale", "runtime", "initial_stage",
                                     "outputs", "slack", "clip"}
    BY DEF Has
  <2>2. ASSUME Agreed("func"), Agreed("gain"), Agreed("order"), Agreed("runtime"), Agreed("initial_stage"),
               Agreed("outputs"), Agreed("slack"), Agreed("clip"), NEW k, k # "scale", Compared(k)
        PROVE  Has(active, k) /\ Value(saved, k) = Value(active, k)
    <3>1. k \in {"func", "gain", "order", "runtime", "initial_stage", "outputs", "slack", "clip"}
      BY <2>1, <2>2
    <3> HIDE DEF Compared
    <3> QED BY <2>2, <3>1
  <2> HIDE DEF Compared
  <2> QED BY <2>2
<1>9. Agreed("func") <=> saved.config.func = active.config.func
  BY DEF Has, Value, Resume!Interface
<1>10. Agreed("order") <=> saved.config.order = active.config.order
  BY DEF Has, Value, Resume!Interface
<1>11. Agreed("gain") <=> (full => saved.config.gain = active.config.gain)
  BY DEF Has, Value, Resume!Interface
<1>12. Agreed("runtime") <=> (full => saved.runtime = active.runtime)
  BY DEF Has, Value, Resume!Interface
<1>13. Agreed("initial_stage")
         <=> (full => saved.config.initial_stage \in {"default", active.config.initial_stage})
  BY DEF Has, Value, Resume!Interface
<1>14. Agreed("outputs")
  BY DEF Has, Value, Started
<1>15. Agreed("slack") <=> (full => (saved.code < 3 => active.code < 3))
  BY DEF Has, Value, Resume!Interface
<1>16. Agreed("clip") <=> (saved.code < 4 => active.code < 4)
  BY DEF Has, Value, Resume!Interface
<1> HIDE DEF Agreed, Compared
<1> QED BY <1>3, <1>5, <1>6, <1>7, <1>8, <1>9, <1>10, <1>11, <1>12, <1>13, <1>14, <1>15, <1>16
        DEF Matches

\* What a checkpoint embeds is the record of its process, which ran no newer code.
Recorded(version) ==
  checkpoint # <<>> =>
    /\ checkpoint.code \in 0..version
    /\ checkpoint.manifest # <<>> => checkpoint.manifest = ManifestOf(checkpoint)

ResumeTypes ==
  /\ code \in 0..4 /\ config \in Configs /\ files \in 0..1 /\ runtime \in 0..1
  /\ edits \in 0..MaxEdits /\ counter \in 0..LastStep /\ stage \in 0..1
  /\ running # <<>> => running.config \in Configs /\ running.provenance \in 0..1
  /\ checkpoint # <<>> =>
       /\ checkpoint.counter \in 0..LastStep /\ checkpoint.config \in Configs
       /\ checkpoint.provenance \in -1..1
       /\ checkpoint.provenance = -1 <=> checkpoint.manifest = <<>>

\* No process runs code, or finds a checkpoint, that is newer than what is on disk; and no
\* process finds one that is newer than itself.
Versions ==
  /\ Recorded(code)
  /\ running # <<>> =>
       /\ running.code \in 0..code /\ running.manifest = ManifestOf(running)
       /\ Recorded(running.code)

\* The verdict of the last load is about the checkpoint there is.
Judged ==
  outcome # <<>> =>
    /\ running # <<>> /\ checkpoint # <<>>
    /\ \/ /\ outcome = <<"full", TRUE>> /\ Resume!SameController /\ Resume!SameContract(TRUE)
          /\ counter = checkpoint.counter /\ stage = Resume!Stage(counter)
       \/ outcome = <<"actor", TRUE>> /\ Resume!SameController /\ Resume!SameContract(FALSE)
       \/ outcome = <<"full", FALSE>> /\ ~(Resume!SameController /\ Resume!SameContract(TRUE))
       \/ outcome = <<"actor", FALSE>> /\ ~(Resume!SameController /\ Resume!SameContract(FALSE))

ResumeInv == ResumeTypes /\ Versions /\ Judged

LEMMA ManifestsHold ==
  ASSUME NEW p
  PROVE  ManifestOf(p) # <<>>
<1>1. "func" \in DOMAIN ManifestOf(p)
  BY DEF ManifestOf, Resume!Manifest, Resume!Fields
<1>2. "func" \notin DOMAIN <<>>
  OBVIOUS
<1> QED BY <1>1, <1>2, Zenon

LEMMA Verdicts ==
  /\ <<"full", TRUE>> # <<"full", FALSE>> /\ <<"full", TRUE>> # <<"actor", TRUE>>
  /\ <<"full", TRUE>> # <<"actor", FALSE>> /\ <<"actor", TRUE>> # <<"full", FALSE>>
  /\ <<"actor", TRUE>> # <<"actor", FALSE>> /\ <<"actor", FALSE>> # <<"full", FALSE>>
  /\ <<"full", TRUE>> # <<>> /\ <<"full", FALSE>> # <<>>
  /\ <<"actor", TRUE>> # <<>> /\ <<"actor", FALSE>> # <<>>
BY Zenon

\* The properties of the resumes follow from the invariant.
LEMMA ResumesGovern ==
  ASSUME ResumeInv
  PROVE  /\ Resume!TypeOK /\ Resume!RefusalsAreEarned /\ Resume!FullResumesCompareEverything
         /\ Resume!ActorLoadsCompareTheInterface /\ Resume!ResumeAlignsTheCurriculum
<1>1. ASSUME running # <<>>, checkpoint # <<>>
      PROVE  /\ checkpoint.manifest # <<>> =>
                  /\ Resume!SameController <=> checkpoint.provenance = running.provenance
                  /\ Resume!SameContract(TRUE) <=> Matches(checkpoint, running, TRUE)
                  /\ Resume!SameContract(FALSE) <=> Matches(checkpoint, running, FALSE)
             /\ checkpoint.manifest = <<>> =>
                  Resume!SameController /\ Resume!SameContract(TRUE) /\ Resume!SameContract(FALSE)
  <2>1. /\ running.provenance \in 0..1 /\ checkpoint.provenance \in -1..1
        /\ checkpoint.provenance = -1 <=> checkpoint.manifest = <<>>
        /\ checkpoint.config \in Configs /\ running.config \in Configs /\ code \in 0..4
    BY <1>1 DEF ResumeInv, ResumeTypes
  <2>2. /\ running.code \in 0..code /\ running.manifest = ManifestOf(running)
        /\ checkpoint.code \in 0..running.code
        /\ checkpoint.manifest # <<>> => checkpoint.manifest = ManifestOf(checkpoint)
    BY <1>1 DEF ResumeInv, Versions, Recorded
  <2>3. Started(checkpoint) /\ Started(running) /\ checkpoint.code <= running.code
    BY <2>1, <2>2 DEF Started
  <2>4. ASSUME checkpoint.manifest # <<>>
        PROVE  /\ Resume!SameContract(TRUE) <=> Matches(checkpoint, running, TRUE)
               /\ Resume!SameContract(FALSE) <=> Matches(checkpoint, running, FALSE)
    <3>1. ASSUME NEW full \in BOOLEAN
          PROVE  Resume!SameContract(full)
                   <=> Resume!Compatible(ManifestOf(checkpoint), ManifestOf(running), full)
      BY <2>2, <2>4, Zenon DEF Resume!SameContract
    <3>2. ASSUME NEW full \in BOOLEAN
          PROVE  Resume!Compatible(ManifestOf(checkpoint), ManifestOf(running), full)
                   <=> Matches(checkpoint, running, full)
      BY <2>3, MatchesLoad
    <3>3. TRUE \in BOOLEAN /\ FALSE \in BOOLEAN
      BY Zenon
    <3> QED BY <3>1, <3>2, <3>3, Zenon
  <2>5. checkpoint.manifest # <<>> =>
          (Resume!SameController <=> checkpoint.provenance = running.provenance)
    BY <2>1 DEF Resume!SameController
  <2>6. checkpoint.manifest = <<>> =>
          Resume!SameController /\ Resume!SameContract(TRUE) /\ Resume!SameContract(FALSE)
    BY <2>1 DEF Resume!SameController, Resume!SameContract
  <2> QED BY <2>4, <2>5, <2>6, Zenon
<1>2. Resume!TypeOK
  <2>1. outcome = <<>> \/ outcome \in {"full", "actor"} \X BOOLEAN
    <3>1. \A k \in {"full", "actor"}, b \in BOOLEAN : <<k, b>> \in {"full", "actor"} \X BOOLEAN
      OBVIOUS
    <3>2. "full" \in {"full", "actor"} /\ "actor" \in {"full", "actor"} /\ TRUE \in BOOLEAN /\ FALSE \in BOOLEAN
      BY Zenon
    <3> QED BY <3>1, <3>2, Zenon DEF ResumeInv, Judged
  <2> QED BY <2>1 DEF ResumeInv, ResumeTypes, Resume!TypeOK
<1>3. /\ Matches(checkpoint, running, FALSE) /\ checkpoint.provenance = running.provenance
           <=> Resume!SameInterface
      /\ Matches(checkpoint, running, TRUE) /\ checkpoint.provenance = running.provenance
           <=> /\ Resume!SameInterface /\ checkpoint.runtime = running.runtime /\ Resume!Keeps(3)
               /\ checkpoint.config.gain = running.config.gain
               /\ checkpoint.config.initial_stage \in {"default", running.config.initial_stage}
  <2> DEFINE scales == ScalesKept(checkpoint.config.scale, running.config.scale)
             stages == checkpoint.config.initial_stage \in {"default", running.config.initial_stage}
  <2>1. Resume!SameInterface
          <=> /\ checkpoint.provenance = running.provenance
              /\ checkpoint.config.func = running.config.func
              /\ checkpoint.config.order = running.config.order
              /\ checkpoint.code < 4 => running.code < 4
              /\ scales
    BY Zenon DEF Resume!SameInterface, Resume!Keeps, ScalesKept
  <2> HIDE DEF scales
  <2>2. /\ Matches(checkpoint, running, FALSE)
             <=> /\ checkpoint.config.func = running.config.func
                 /\ checkpoint.config.order = running.config.order
                 /\ checkpoint.code < 4 => running.code < 4
                 /\ scales
        /\ Matches(checkpoint, running, TRUE)
             <=> /\ Matches(checkpoint, running, FALSE)
                 /\ checkpoint.config.gain = running.config.gain /\ stages
                 /\ checkpoint.code < 3 => running.code < 3
                 /\ checkpoint.runtime = running.runtime
    BY Zenon DEF Matches, scales
  <2> HIDE DEF stages
  <2>3. Resume!Keeps(3) <=> (checkpoint.code < 3 => running.code < 3)
    BY DEF Resume!Keeps
  <2> QED BY <2>1, <2>2, <2>3, Zenon DEF stages
<1>4. Resume!RefusalsAreEarned
  <2> SUFFICES ASSUME outcome \in {<<"full", FALSE>>, <<"actor", FALSE>>},
                      checkpoint.provenance = running.provenance,
                      Resume!Semantics(checkpoint.config) = Resume!Semantics(running.config),
                      Resume!Keeps(4),
                      outcome[1] = "full" => checkpoint.runtime = running.runtime /\ Resume!Keeps(3)
               PROVE  FALSE
    BY DEF Resume!RefusalsAreEarned
  <2>1. /\ running # <<>> /\ checkpoint # <<>>
        /\ outcome = <<"full", FALSE>> => ~(Resume!SameController /\ Resume!SameContract(TRUE))
        /\ outcome = <<"actor", FALSE>> => ~(Resume!SameController /\ Resume!SameContract(FALSE))
    BY Verdicts, Zenon DEF ResumeInv, Judged
  <2>2. /\ checkpoint.config.func = running.config.func
        /\ checkpoint.config.gain = running.config.gain
        /\ checkpoint.config.scale = running.config.scale
        /\ checkpoint.config.initial_stage = running.config.initial_stage
        /\ checkpoint.config.order = running.config.order
    BY DEF Resume!Semantics
  <2>3. Resume!SameInterface
    BY <2>2, Zenon DEF Resume!SameInterface
  <2>4. CASE outcome = <<"full", FALSE>>
    <3>1. checkpoint.runtime = running.runtime /\ Resume!Keeps(3)
      BY <2>4
    <3>2. checkpoint.config.initial_stage \in {"default", running.config.initial_stage}
      BY <2>2
    <3>3. Matches(checkpoint, running, TRUE)
      BY <1>3, <2>2, <2>3, <3>1, <3>2, Zenon
    <3> QED BY <1>1, <2>1, <2>4, <3>3, Zenon
  <2>5. CASE outcome = <<"actor", FALSE>>
    <3>1. Matches(checkpoint, running, FALSE)
      BY <1>3, <2>3, Zenon
    <3> QED BY <1>1, <2>1, <2>5, <3>1, Zenon
  <2> QED BY <2>4, <2>5
<1>5. Resume!FullResumesCompareEverything
  <2> DEFINE same ==
        /\ Resume!SameInterface /\ checkpoint.runtime = running.runtime /\ Resume!Keeps(3)
        /\ checkpoint.config.gain = running.config.gain
        /\ checkpoint.config.initial_stage \in {"default", running.config.initial_stage}
  <2> SUFFICES ASSUME outcome \in {"full"} \X BOOLEAN, checkpoint.manifest # <<>>
               PROVE  outcome[2] <=> same
    BY Zenon DEF Resume!FullResumesCompareEverything
  <2>1. outcome = <<"full", TRUE>> \/ outcome = <<"full", FALSE>>
    <3>1. PICK b \in BOOLEAN : outcome = <<"full", b>>
      OBVIOUS
    <3>2. b = TRUE \/ b = FALSE
      BY Zenon
    <3> QED BY <3>1, <3>2, Zenon
  <2>2. /\ running # <<>> /\ checkpoint # <<>>
        /\ outcome = <<"full", TRUE>> => Resume!SameController /\ Resume!SameContract(TRUE)
        /\ outcome = <<"full", FALSE>> => ~(Resume!SameController /\ Resume!SameContract(TRUE))
    BY <2>1, Verdicts, Zenon DEF ResumeInv, Judged
  <2>3. Matches(checkpoint, running, TRUE) /\ checkpoint.provenance = running.provenance <=> same
    BY <1>3, Zenon
  <2>4. outcome = <<"full", TRUE>> => outcome[2] = TRUE
    OBVIOUS
  <2>5. outcome = <<"full", FALSE>> => outcome[2] = FALSE
    OBVIOUS
  <2> HIDE DEF same
  <2> QED BY <1>1, <2>1, <2>2, <2>3, <2>4, <2>5, Zenon
<1>6. Resume!ActorLoadsCompareTheInterface
  <2> SUFFICES ASSUME outcome \in {"actor"} \X BOOLEAN, checkpoint.manifest # <<>>
               PROVE  outcome[2] <=> Resume!SameInterface
    BY Zenon DEF Resume!ActorLoadsCompareTheInterface
  <2>1. outcome = <<"actor", TRUE>> \/ outcome = <<"actor", FALSE>>
    <3>1. PICK b \in BOOLEAN : outcome = <<"actor", b>>
      OBVIOUS
    <3>2. b = TRUE \/ b = FALSE
      BY Zenon
    <3> QED BY <3>1, <3>2, Zenon
  <2>2. /\ running # <<>> /\ checkpoint # <<>>
        /\ outcome = <<"actor", TRUE>> => Resume!SameController /\ Resume!SameContract(FALSE)
        /\ outcome = <<"actor", FALSE>> => ~(Resume!SameController /\ Resume!SameContract(FALSE))
    BY <2>1, Verdicts, Zenon DEF ResumeInv, Judged
  <2>3. outcome = <<"actor", TRUE>> => outcome[2] = TRUE
    OBVIOUS
  <2>4. outcome = <<"actor", FALSE>> => outcome[2] = FALSE
    OBVIOUS
  <2> QED BY <1>1, <1>3, <2>1, <2>2, <2>3, <2>4, Zenon
<1>7. Resume!ResumeAlignsTheCurriculum
  BY Verdicts, Zenon DEF ResumeInv, Judged, Resume!ResumeAlignsTheCurriculum
<1> QED BY <1>2, <1>4, <1>5, <1>6, <1>7

\* A disk that changed under the processes leaves what they recorded.
LEMMA ResumeEdits ==
  ASSUME ResumeInv,
         Resume!Upgrade \/ Resume!Reinstall \/ Resume!EditController \/ Resume!EditConfig
  PROVE  ResumeInv'
<1> USE ResumeConstants
<1>1. /\ running' = running /\ counter' = counter /\ stage' = stage /\ checkpoint' = checkpoint
      /\ outcome' = outcome /\ edits' \in 0..MaxEdits
  BY DEF ResumeInv, ResumeTypes, Resume!Upgrade, Resume!Reinstall, Resume!EditController,
         Resume!EditConfig, Resume!Edit
<1>2. /\ code \in 0..4 /\ code' \in 0..4 /\ code <= code' /\ files' \in 0..1 /\ runtime' \in 0..1
  BY DEF ResumeInv, ResumeTypes, Resume!Upgrade, Resume!Reinstall, Resume!EditController,
         Resume!EditConfig, Resume!Edit
<1>3. config' \in Configs
  <2>1. config \in Configs
    BY DEF ResumeInv, ResumeTypes
  <2>2. CASE Resume!Upgrade \/ Resume!Reinstall \/ Resume!EditController
    BY <2>1, <2>2 DEF Resume!Upgrade, Resume!Reinstall, Resume!EditController
  <2>3. CASE Resume!EditConfig
    BY <2>1, <2>3 DEF Resume!EditConfig, Configs
  <2> QED BY <2>2, <2>3
<1>4. ResumeTypes'
  BY <1>1, <1>2, <1>3 DEF ResumeInv, ResumeTypes
<1>5. \A v \in 0..code : v \in 0..code'
  BY <1>2
<1>6. Versions'
  BY <1>1, <1>5 DEF ResumeInv, Versions, Recorded, ManifestOf
<1>7. Judged'
  BY <1>1 DEF ResumeInv, Judged, Resume!SameController, Resume!SameContract
<1> QED BY <1>4, <1>6, <1>7 DEF ResumeInv

\* A process starts, trains and exits; no verdict of another load stands.
LEMMA ResumeProcess ==
  ASSUME ResumeInv, Resume!Start \/ Resume!Train \/ Resume!Exit
  PROVE  ResumeInv'
<1> USE ResumeConstants
<1>1. /\ code' = code /\ config' = config /\ files' = files /\ runtime' = runtime /\ edits' = edits
      /\ checkpoint' = checkpoint /\ outcome' = <<>>
  BY DEF Resume!Start, Resume!Train, Resume!Exit
<1>2. Judged'
  BY <1>1 DEF Judged
<1>3. Recorded(code)'
  BY <1>1 DEF ResumeInv, Versions, Recorded, ManifestOf
<1>4. CASE Resume!Start
  <2>1. /\ running' = [manifest |-> Resume!Manifest(code, config, runtime), provenance |-> files,
                       config |-> config, code |-> code, runtime |-> runtime]
        /\ counter' = 0 /\ stage' = 0
    BY <1>4 DEF Resume!Start
  <2>2. ResumeTypes'
    BY <1>1, <2>1 DEF ResumeInv, ResumeTypes
  <2>3. code \in 0..code
    BY DEF ResumeInv, ResumeTypes
  <2>4. running'.manifest = ManifestOf(running') /\ running'.code = code
    BY <2>1 DEF ManifestOf
  <2>5. Versions'
    <3>1. ManifestOf(running)' = ManifestOf(running')
      BY DEF ManifestOf
    <3> QED BY <1>1, <1>3, <2>3, <2>4, <3>1 DEF Versions, Recorded
  <2> QED BY <1>2, <2>2, <2>5 DEF ResumeInv
<1>5. CASE Resume!Train
  <2>1. /\ running' = running /\ counter < LastStep /\ counter' = counter + 1
        /\ stage' \in {stage, Resume!Stage(counter')}
    BY <1>5 DEF Resume!Train
  <2>2. ResumeTypes'
    BY <1>1, <2>1 DEF ResumeInv, ResumeTypes, Resume!Stage
  <2>3. Versions'
    BY <1>1, <2>1 DEF ResumeInv, Versions, Recorded, ManifestOf
  <2> QED BY <1>2, <2>2, <2>3 DEF ResumeInv
<1>6. CASE Resume!Exit
  <2>1. running' = <<>> /\ counter' = counter /\ stage' = stage
    BY <1>6 DEF Resume!Exit
  <2>2. ResumeTypes'
    BY <1>1, <2>1 DEF ResumeInv, ResumeTypes
  <2>3. Versions'
    BY <1>1, <1>3, <2>1 DEF Versions, Recorded
  <2> QED BY <1>2, <2>2, <2>3 DEF ResumeInv
<1> QED BY <1>4, <1>5, <1>6

\* A checkpoint is of the process that writes it, and loads into it.
LEMMA ResumeSaves ==
  ASSUME ResumeInv, Resume!Save
  PROVE  ResumeInv'
<1> USE ResumeConstants
<1>1. /\ code' = code /\ config' = config /\ files' = files /\ runtime' = runtime /\ edits' = edits
      /\ running' = running /\ counter' = counter /\ stage' = stage /\ outcome' = outcome
      /\ running # <<>> /\ outcome \in {<<>>, <<"full", TRUE>>}
      /\ checkpoint' = [manifest |-> running.manifest, provenance |-> running.provenance,
                        counter |-> counter, config |-> running.config,
                        code |-> running.code, runtime |-> running.runtime]
  BY DEF Resume!Save
<1>2. /\ checkpoint'.manifest = running.manifest /\ checkpoint'.provenance = running.provenance
      /\ checkpoint'.counter = counter /\ checkpoint'.config = running.config
      /\ checkpoint'.code = running.code /\ checkpoint'.runtime = running.runtime
  BY <1>1
<1>3. checkpoint' # <<>>
  <2>1. "manifest" \in DOMAIN checkpoint'
    BY <1>1
  <2>2. "manifest" \notin DOMAIN <<>>
    OBVIOUS
  <2> QED BY <2>1, <2>2, Zenon
<1>4. /\ code \in 0..4 /\ counter \in 0..LastStep /\ running.config \in Configs /\ running.provenance \in 0..1
  BY <1>1 DEF ResumeInv, ResumeTypes
<1>5. running.code \in 0..code /\ running.manifest = ManifestOf(running)
  BY <1>1 DEF ResumeInv, Versions
<1>6. running.manifest # <<>>
  BY <1>5, ManifestsHold
<1>7. ResumeTypes'
  <2>1. checkpoint'.provenance \in -1..1 /\ checkpoint'.provenance # -1
    BY <1>2, <1>4
  <2> QED BY <1>1, <1>2, <1>4, <1>6, <2>1 DEF ResumeInv, ResumeTypes
<1>8. Versions'
  <2>1. running.code \in 0..running.code
    BY <1>4, <1>5
  <2>2. checkpoint'.manifest = ManifestOf(checkpoint)' /\ ManifestOf(running)' = ManifestOf(running)
    BY <1>1, <1>2, <1>5 DEF ManifestOf
  <2>3. Recorded(running.code)' /\ Recorded(code)'
    BY <1>1, <1>2, <1>5, <2>1, <2>2 DEF Recorded
  <2> QED BY <1>1, <1>5, <2>2, <2>3 DEF Versions
<1>9. Judged'
  <2> SUFFICES ASSUME outcome # <<>>
               PROVE  /\ outcome' = <<"full", TRUE>> /\ Resume!SameController' /\ Resume!SameContract(TRUE)'
                      /\ counter' = checkpoint'.counter /\ stage' = Resume!Stage(counter')
    BY <1>1, <1>3, Zenon DEF Judged
  <2>1. outcome = <<"full", TRUE>>
    BY <1>1
  <2>2. stage = Resume!Stage(counter)
    BY <2>1, Verdicts, Zenon DEF ResumeInv, Judged
  <2>3. Resume!SameController'
    BY <1>1, <1>2 DEF Resume!SameController
  <2>4. Resume!Compatible(running.manifest, running.manifest, TRUE)
    <3>1. Started(running) /\ running.code <= running.code /\ TRUE \in BOOLEAN
      BY <1>4, <1>5 DEF Started
    <3>2. Matches(running, running, TRUE)
      BY DEF Matches, ScalesKept
    <3> QED BY <1>5, <3>1, <3>2, MatchesLoad
  <2>5. Resume!SameContract(TRUE)'
    BY <1>1, <1>2, <2>4, Zenon DEF Resume!SameContract
  <2>6. stage' = Resume!Stage(counter')
    BY <1>1, <2>2 DEF Resume!Stage
  <2> QED BY <1>1, <1>2, <2>1, <2>3, <2>5, <2>6
<1> QED BY <1>7, <1>8, <1>9 DEF ResumeInv

\* A load leaves a verdict about the checkpoint, and an accepted resume aligns the stage.
LEMMA ResumeLoads ==
  ASSUME ResumeInv, NEW full \in BOOLEAN, Resume!Load(full)
  PROVE  ResumeInv'
<1> USE ResumeConstants
<1> DEFINE accepted == Resume!SameController /\ Resume!SameContract(full)
<1>1. /\ running # <<>> /\ checkpoint # <<>>
      /\ outcome' = <<IF full THEN "full" ELSE "actor", accepted>>
      /\ counter' = checkpoint.counter
      /\ stage' = IF accepted /\ full THEN Resume!Stage(checkpoint.counter) ELSE stage
      /\ code' = code /\ config' = config /\ files' = files /\ runtime' = runtime /\ edits' = edits
      /\ running' = running /\ checkpoint' = checkpoint
  BY Zenon DEF Resume!Load, Resume!Synchronized
<1>2. Resume!SameController' = Resume!SameController /\ Resume!SameContract(TRUE)' = Resume!SameContract(TRUE)
      /\ Resume!SameContract(FALSE)' = Resume!SameContract(FALSE)
  BY <1>1, Zenon DEF Resume!SameController, Resume!SameContract
<1>3. accepted = TRUE \/ accepted = FALSE
  BY Zenon
<1>4. full = TRUE \/ full = FALSE
  BY Zenon
<1>5. stage' \in 0..1 /\ counter' \in 0..LastStep
  <2>1. stage \in 0..1 /\ checkpoint.counter \in 0..LastStep
    BY <1>1 DEF ResumeInv, ResumeTypes
  <2>2. stage' = stage \/ stage' = Resume!Stage(checkpoint.counter)
    BY <1>1, Zenon
  <2> QED BY <1>1, <2>1, <2>2 DEF Resume!Stage
<1>6. ResumeTypes'
  BY <1>1, <1>5 DEF ResumeInv, ResumeTypes
<1>7. Versions'
  BY <1>1 DEF ResumeInv, Versions, Recorded, ManifestOf
<1>8. Judged'
  <2>1. full = TRUE /\ accepted = TRUE =>
          /\ outcome' = <<"full", TRUE>> /\ Resume!SameController /\ Resume!SameContract(TRUE)
          /\ stage' = Resume!Stage(counter')
    BY <1>1, Zenon
  <2>2. full = FALSE /\ accepted = TRUE =>
          outcome' = <<"actor", TRUE>> /\ Resume!SameController /\ Resume!SameContract(FALSE)
    BY <1>1, Zenon
  <2>3. full = TRUE /\ accepted = FALSE =>
          outcome' = <<"full", FALSE>> /\ ~(Resume!SameController /\ Resume!SameContract(TRUE))
    BY <1>1, Zenon
  <2>4. full = FALSE /\ accepted = FALSE =>
          outcome' = <<"actor", FALSE>> /\ ~(Resume!SameController /\ Resume!SameContract(FALSE))
    BY <1>1, Zenon
  <2>5. running' # <<>> /\ checkpoint' # <<>> /\ counter' = checkpoint'.counter
    BY <1>1
  <2>6. Resume!Stage(counter)' = Resume!Stage(counter')
    BY DEF Resume!Stage
  <2> HIDE DEF accepted
  <2> QED BY <1>2, <1>3, <1>4, <2>1, <2>2, <2>3, <2>4, <2>5, <2>6, Zenon DEF Judged
<1> QED BY <1>6, <1>7, <1>8 DEF ResumeInv

\* The invariant of the resumes.
LEMMA ResumeInvariant ==
  /\ Resume!Init => ResumeInv
  /\ ResumeInv /\ [Resume!Next]_resumeVars => ResumeInv'
<1> USE ResumeConstants
<1>1. ASSUME Resume!Init PROVE ResumeInv
  <2>1. /\ code = 0 /\ config = Resume!Initial /\ files = 0 /\ runtime = 0 /\ edits = 0
        /\ running = <<>> /\ counter = 0 /\ stage = 0 /\ outcome = <<>>
        /\ checkpoint \in {<<>>, Resume!Legacy}
    BY <1>1 DEF Resume!Init
  <2>2. Resume!Initial \in Configs
    <3>1. {"all"} \cup {} = {"all"} /\ {} \in SUBSET Joints /\ [j \in {"all"} |-> 1] \in [{"all"} -> 1..2]
      OBVIOUS
    <3>2. [j \in {"all"} |-> 1] \in Resume!Scales
      BY <3>1 DEF Resume!Scales
    <3> QED BY <3>2 DEF Resume!Initial, Configs
  <2>3. checkpoint # <<>> =>
          /\ checkpoint.manifest = <<>> /\ checkpoint.provenance = -1
          /\ checkpoint.counter \in 0..LastStep /\ checkpoint.config \in Configs
          /\ checkpoint.code = 0
    BY <2>1, <2>2 DEF Resume!Legacy
  <2>4. ResumeTypes
    BY <2>1, <2>2, <2>3 DEF ResumeTypes
  <2>5. Versions /\ Judged
    BY <2>1, <2>3 DEF Versions, Recorded, Judged
  <2> QED BY <2>4, <2>5 DEF ResumeInv
<1>2. ASSUME ResumeInv, UNCHANGED resumeVars PROVE ResumeInv'
  <2>1. /\ code' = code /\ config' = config /\ files' = files /\ runtime' = runtime /\ edits' = edits
        /\ running' = running /\ counter' = counter /\ stage' = stage
        /\ checkpoint' = checkpoint /\ outcome' = outcome
    BY <1>2 DEF resumeVars
  <2>2. ResumeTypes' /\ Versions'
    BY <1>2, <2>1 DEF ResumeInv, ResumeTypes, Versions, Recorded, ManifestOf
  <2>3. Judged'
    BY <1>2, <2>1 DEF ResumeInv, Judged, Resume!SameController, Resume!SameContract
  <2> QED BY <2>2, <2>3 DEF ResumeInv
<1>3. ASSUME ResumeInv, Resume!Next PROVE ResumeInv'
  <2>1. TRUE \in BOOLEAN /\ FALSE \in BOOLEAN
    BY Zenon
  <2> QED BY <1>3, <2>1, ResumeEdits, ResumeProcess, ResumeSaves, ResumeLoads
          DEF Resume!Next, Resume!LoadFull, Resume!LoadActor
<1> QED BY <1>1, <1>2, <1>3

-----------------------------------------------------------------------------
(***************************************************************************)
(* The watchdog protocol, for any number of monitors, any thresholds and   *)
(* any readings.                                                           *)
(***************************************************************************)


USE BoundsAssumption DEF Ok, Warn, Preserve, Stop, Levels

Statuses == Terminal \cup {"absent", "starting", "running"}
MonFields == {"pc", "no", "status", "age", "checkpoint", "base", "failures", "gpu", "streak",
              "bad", "pending", "preserveAck", "stopAck", "verdict"}
HeartFields == {"present", "age", "failures"}

\* The types the properties need, and that the records keep their fields.
Shape ==
  /\ TypeOK
  /\ mon = [f \in MonFields |-> mon[f]]
  /\ heartbeat = [f \in HeartFields |-> heartbeat[f]]
  /\ mon.pc \in {"off", "status", "alive", "heartbeat", "evidence", "response", "decide"}
  /\ mon.no \in 0..MaxMonitors /\ mon.status \in Statuses
  /\ maxLevel \in Seq(Warn..Stop) /\ Len(maxLevel) = mon.no

\* Who asked, and that an attached monitor has a number.
Asked ==
  /\ lastRequest = serving.id
  /\ pc \in {"saving", "saved", "stopping"} => serving.id # None
  /\ request.id # None => request.monitor \in 1..mon.no
  /\ serving.id # None => serving.monitor \in 1..mon.no
  /\ mon.pc # "off" => mon.no >= 1

\* Names tell requests apart: what is served or answered under the name of the current
\* request is the current request.
Named ==
  /\ serving.id # None /\ request.id = serving.id => serving = request
  /\ response.id # None /\ response.id = request.id => serving.id = request.id

\* A request is durable from its save on, and not before.
Saved ==
  /\ pc = "saving" => serving.id \notin durable
  /\ pc \in {"saved", "stopping"} => serving.id \in durable
  /\ request.id # None /\ request.id # lastRequest => request.id \notin durable
  /\ pc = "stopping" => serving.action = Stop
  /\ status = "stopped_by_watchdog" => pc \in {"exiting", "dead"}
  /\ AcknowledgedIsDurable

\* The preserve checkpoint is there before its acknowledgement is published, read and
\* relied on.
PreserveKnown ==
  /\ pc = "saved" /\ serving.action = Preserve => serving.monitor \in preserved
  /\ response.id # None /\ response.id = request.id /\ request.action = Preserve
       => request.monitor \in preserved
  /\ mon.preserveAck => mon.no \in preserved
  /\ StopFollowsPreserve

\* What a monitor waits for is the current request; what it no longer waits for is
\* answered.
Pending ==
  /\ mon.pending # NoRequest
       => mon.pending = request /\ request.monitor = mon.no /\ request.id # None
  /\ request.id # None /\ request.monitor = mon.no /\ mon.pending = NoRequest
       => response.id = request.id

\* A terminal status is the last one, so that what a monitor read of it stays true.
Ends ==
  /\ status \in Terminal => pc \in {"exiting", "dead"}
  /\ mon.status \in Terminal => status = mon.status
  /\ VerdictIsTrue

IInv == Shape /\ Asked /\ Named /\ Saved /\ PreserveKnown /\ Pending /\ WithinMaxLevel /\ Ends

-----------------------------------------------------------------------------
(***************************************************************************)
(* Levels, and the choice of an intervention.                              *)
(***************************************************************************)

LEMMA MaxOfLevels ==
  ASSUME NEW S, S \subseteq Levels, S # {}
  PROVE  Max(S) \in S
<1>1. \E x \in S : \A y \in S : x >= y
  <2>1. CASE 3 \in S
    BY <2>1
  <2>2. CASE 3 \notin S /\ 2 \in S
    BY <2>2
  <2>3. CASE 3 \notin S /\ 2 \notin S /\ 1 \in S
    BY <2>3
  <2>4. CASE 3 \notin S /\ 2 \notin S /\ 1 \notin S
    <3>1. PICK x \in S : TRUE
      OBVIOUS
    <3>2. \A y \in S : y = 0
      BY <2>4
    <3>3. \A y \in S : x >= y
      BY <3>2
    <3> QED BY <3>3
  <2> QED BY <2>1, <2>2, <2>3, <2>4
<1> QED BY <1>1 DEF Max

LEMMA MinOfTwo ==
  ASSUME NEW a \in Int, NEW b \in Int
  PROVE  /\ Min({a, b}) \in {a, b}
         /\ Min({a, b}) <= a
         /\ Min({a, b}) <= b
<1>1. \E x \in {a, b} : \A y \in {a, b} : x <= y
  OBVIOUS
<1>2. Min({a, b}) \in {a, b} /\ \A y \in {a, b} : Min({a, b}) <= y
  BY <1>1 DEF Min
<1> QED BY <1>2

\* Every signal gives a level, and so do all of them together.
LEMMA HealthIsALevel == ASSUME NEW o PROVE DecideHealth(o) \in Levels
<1>1. ASSUME NEW v, NEW limits PROVE ThresholdLevel(v, limits) \in Levels
  <2> DEFINE S == {Ok} \cup {l \in Warn..Stop : v >= limits[l]}
  <2>1. S \subseteq Levels /\ S # {}
    OBVIOUS
  <2>2. Max(S) \in S
    BY <2>1, MaxOfLevels
  <2> QED BY <2>1, <2>2 DEF ThresholdLevel
<1>2. ASSUME NEW v, NEW limits PROVE LowLevel(v, limits) \in Levels
  <2> DEFINE S == {Ok} \cup {l \in Warn..Stop : v <= limits[l]}
  <2>1. S \subseteq Levels /\ S # {}
    OBVIOUS
  <2>2. Max(S) \in S
    BY <2>1, MaxOfLevels
  <2> QED BY <2>1, <2>2 DEF LowLevel
<1>3. GpuLevel(o.gpu, o.streak) \in Levels
  BY <1>2 DEF GpuLevel
<1> DEFINE S == { ThresholdLevel(o.heartbeat, Thresholds.heartbeat),
                  ThresholdLevel(o.checkpoint, Thresholds.checkpoint),
                  GpuLevel(o.gpu, o.streak),
                  ThresholdLevel(o.worker, Thresholds.worker),
                  ThresholdLevel(o.qualification, Thresholds.qualification) }
<1>4. S \subseteq Levels /\ S # {}
  BY <1>1, <1>3
<1>5. Max(S) \in S
  BY <1>4, MaxOfLevels
<1> QED BY <1>4, <1>5 DEF DecideHealth

\* A monitor asks within its level, only when nothing is pending, and for a stop only
\* after the acknowledgement of a preserve.
LEMMA ActionIsBounded ==
  ASSUME Shape, mon.no >= 1
  PROVE  /\ Action \in Levels
         /\ Action \in {Preserve, Stop} => Action <= maxLevel[mon.no] /\ mon.pending = NoRequest
         /\ Action = Stop => mon.preserveAck
<1> DEFINE maximum == maxLevel[mon.no]
           bounded == Min({Level, maximum})
<1>1. maximum \in Warn..Stop
  BY DEF Shape
<1>2. Level \in Levels
  BY HealthIsALevel DEF Level
<1>3. bounded \in Levels /\ bounded <= maximum
  <2>1. Level \in Int /\ maximum \in Int /\ maximum \in Levels
    BY <1>1, <1>2
  <2>2. bounded \in {Level, maximum} /\ bounded <= maximum
    BY <2>1, MinOfTwo
  <2> QED BY <1>2, <2>1, <2>2
<1>4. InterventionFor(Level, maximum, mon.preserveAck, mon.pending # NoRequest)
        = CASE mon.pending # NoRequest \/ bounded < Warn -> Ok
            [] ~(mon.pending # NoRequest) /\ bounded = Warn -> Warn
            [] ~(mon.pending # NoRequest) /\ bounded = Preserve ->
                 IF mon.preserveAck THEN Ok ELSE Preserve
            [] ~(mon.pending # NoRequest) /\ bounded = Stop ->
                 IF mon.preserveAck THEN Stop ELSE Preserve
  BY DEF InterventionFor
<1> HIDE DEF maximum, bounded
<1>5. bounded \in {0, 1, 2, 3}
  BY <1>3
<1> QED BY <1>1, <1>3, <1>4, <1>5 DEF Action, maximum

\* uuid4 never repeats: five names, of which the files and the trainer hold four.
LEMMA FreshIsNew ==
  Fresh \in Ids /\ Fresh \notin {request.id, response.id, lastRequest, serving.id}
<1>1. \E i \in Ids : i \notin {request.id, response.id, lastRequest, serving.id}
  <2>1. {1, 2, 3, 4, 5} \subseteq Ids
    BY DEF Ids
  <2> DEFINE a == request.id
             b == response.id
             c == lastRequest
             d == serving.id
  <2> HIDE DEF a, b, c, d
  <2>2. \E i \in {1, 2, 3, 4, 5} : i \notin {a, b, c, d}
    OBVIOUS
  <2> QED BY <2>1, <2>2 DEF a, b, c, d
<1> QED BY <1>1 DEF Fresh

-----------------------------------------------------------------------------
(***************************************************************************)
(* What the steps change.                                                  *)
(***************************************************************************)

TrainerMoves == TrainerStep \/ Raise \/ Killed

\* The trainer writes neither the request nor anything of a monitor.
LEMMA TrainerLeaves == ASSUME TrainerMoves PROVE UNCHANGED <<request, mon, maxLevel>>
BY DEF TrainerMoves, TrainerStep, Raise, Killed, PublishRuntime, PublishStatus, Beat, ReadRequest,
       SaveRequested, Acknowledge, EndIteration, Exit, Die, ghosts

\* A monitor's reads leave everything but its own locals, and of these what later polls
\* rely on.
Reads == ReadStatus \/ CheckAlive \/ ReadHeartbeat \/ ReadEvidence \/ Interrupt

LEMMA ReadsLeave ==
  ASSUME Shape, Reads
  PROVE  /\ UNCHANGED <<Trainer, request, ghosts>>
         /\ mon.pc # "off"
         /\ mon' = [f \in MonFields |-> mon'[f]]
         /\ mon'.pc \in {"off", "status", "alive", "heartbeat", "evidence", "response", "decide"}
         /\ mon'.no = mon.no /\ mon'.pending = mon.pending
         /\ mon'.preserveAck => mon.preserveAck
         /\ mon'.status \in {mon.status, status, "absent"}
         /\ \/ mon'.verdict = mon.verdict
            \/ ~Alive /\ mon.pc = "alive" /\ mon'.verdict = TerminalVerdict(mon.status)
         /\ mon'.age \in {mon.age, heartbeat.age}
         /\ mon'.checkpoint \in {mon.checkpoint, checkpointAge}
<1> USE DEF MonFields
<1>0. mon = [f \in MonFields |-> mon[f]]
  BY DEF Shape
<1>1. CASE ReadStatus
  <2>1. UNCHANGED <<Trainer, request, ghosts>> /\ mon.pc = "status"
        /\ mon' = [mon EXCEPT !.pc = "alive", !.status = status]
    BY <1>1 DEF ReadStatus, MonStep
  <2> QED BY <1>0, <2>1
<1>2. CASE CheckAlive
  <2>1. UNCHANGED <<Trainer, request, ghosts>> /\ mon.pc = "alive"
        /\ mon' = IF Alive THEN [mon EXCEPT !.pc = "heartbeat", !.status = "absent"]
                  ELSE [mon EXCEPT !.pc = "off", !.verdict = TerminalVerdict(mon.status)]
    BY <1>2 DEF CheckAlive, MonStep
  <2>2. CASE Alive
    BY <1>0, <2>1, <2>2
  <2>3. CASE ~Alive
    BY <1>0, <2>1, <2>3
  <2> QED BY <2>2, <2>3
<1>3. CASE ReadHeartbeat
  BY <1>0, <1>3 DEF ReadHeartbeat, MonStep
<1>4. CASE ReadEvidence
  BY <1>0, <1>4 DEF ReadEvidence, MonStep
<1>5. CASE Interrupt
  <2>1. UNCHANGED <<Trainer, request, ghosts>> /\ mon.pc # "off"
        /\ mon' = [mon EXCEPT !.pc = "off"]
    BY <1>5 DEF Interrupt
  <2> QED BY <1>0, <2>1
<1> QED BY <1>1, <1>2, <1>3, <1>4, <1>5 DEF Reads

LEMMA ReadResponseEffect ==
  ASSUME Shape, ReadResponse
  PROVE  /\ UNCHANGED <<Trainer, request, ghosts>>
         /\ mon.pc = "response"
         /\ mon' = [f \in MonFields |-> mon'[f]]
         /\ mon'.pc = "decide" /\ mon'.no = mon.no /\ mon'.status = mon.status
         /\ mon'.verdict = mon.verdict /\ mon'.age = mon.age
         /\ mon'.checkpoint = mon.checkpoint
         /\ \/ /\ mon'.pending = mon.pending
               /\ mon'.preserveAck => mon.preserveAck
            \/ /\ mon.pending # NoRequest /\ response.id = mon.pending.id
               /\ mon'.pending = NoRequest
               /\ mon'.preserveAck => mon.preserveAck \/ mon.pending.action = Preserve
BY DEF Shape, ReadResponse, MonStep, MonFields

LEMMA DecideEffect ==
  ASSUME Shape, Asked, Decide
  PROVE  /\ UNCHANGED <<Trainer, maxLevel, preserved>>
         /\ mon.pc = "decide" /\ mon.no >= 1
         /\ mon' = [f \in MonFields |-> mon'[f]]
         /\ mon'.pc = "status" /\ mon'.no = mon.no /\ mon'.status = mon.status
         /\ mon'.verdict = mon.verdict /\ mon'.age = 0 /\ mon'.checkpoint = 0
         /\ mon'.preserveAck => mon.preserveAck
         /\ \/ UNCHANGED <<request, durable>> /\ mon'.pending = mon.pending
            \/ /\ mon.pending = NoRequest
               /\ request' \in Requests /\ mon'.pending = request' /\ request'.monitor = mon.no
               /\ request'.id = Fresh /\ request'.action = Action
               /\ request'.action <= maxLevel[mon.no]
               /\ request'.action = Stop => mon.preserveAck
               /\ durable' = durable \ {Fresh}
<1> DEFINE asked == [id |-> Fresh, action |-> Action, monitor |-> mon.no]
           ask == Action \in {Preserve, Stop}
<1>1. mon.pc = "decide" /\ mon.no >= 1 /\ mon.no \in 0..MaxMonitors
  BY DEF Decide, MonStep, Asked, Shape
<1>2. /\ Action \in Levels
      /\ ask => Action <= maxLevel[mon.no] /\ mon.pending = NoRequest
      /\ Action = Stop => mon.preserveAck
  BY <1>1, ActionIsBounded
<1>3. asked \in Requests
  BY <1>1, <1>2, FreshIsNew DEF Requests
<1>4. /\ UNCHANGED <<Trainer, maxLevel, preserved>>
      /\ mon' = [mon EXCEPT !.pc = "status", !.age = 0, !.checkpoint = 0, !.failures = 0,
                            !.preserveAck = @ /\ Level > Warn,
                            !.pending = IF ask THEN asked ELSE @]
      /\ request' = IF ask THEN asked ELSE request
      /\ durable' = IF ask THEN durable \ {Fresh} ELSE durable
  BY DEF Decide, MonStep
<1>5. mon = [f \in MonFields |-> mon[f]]
  BY DEF Shape
<1> HIDE DEF ask
<1>6. /\ mon' = [f \in MonFields |-> mon'[f]]
      /\ mon'.pc = "status" /\ mon'.no = mon.no /\ mon'.status = mon.status
      /\ mon'.verdict = mon.verdict /\ mon'.age = 0 /\ mon'.checkpoint = 0
      /\ mon'.preserveAck => mon.preserveAck
      /\ mon'.pending = IF ask THEN asked ELSE mon.pending
  BY <1>4, <1>5 DEF MonFields
<1>7. CASE ask
  <2>1. request' = asked /\ mon'.pending = asked /\ durable' = durable \ {Fresh}
    BY <1>4, <1>6, <1>7
  <2>2. asked.id = Fresh /\ asked.action = Action /\ asked.monitor = mon.no
    OBVIOUS
  <2> QED BY <1>1, <1>2, <1>3, <1>4, <1>6, <1>7, <2>1, <2>2
<1>8. CASE ~ask
  BY <1>1, <1>4, <1>6, <1>8
<1> QED BY <1>7, <1>8

LEMMA AttachEffect ==
  ASSUME Shape, Attach
  PROVE  /\ UNCHANGED <<Trainer, request, durable, preserved>> /\ Alive
         /\ mon.pc = "off" /\ mon.no < MaxMonitors
         /\ mon' = [f \in MonFields |-> mon'[f]]
         /\ mon'.pc = "status" /\ mon'.no = mon.no + 1 /\ mon'.status = "absent"
         /\ mon'.verdict = "none" /\ mon'.age = 0 /\ mon'.checkpoint = 0
         /\ mon'.pending = NoRequest /\ ~mon'.preserveAck
         /\ maxLevel' \in Seq(Warn..Stop) /\ Len(maxLevel') = mon'.no
         /\ \A i \in 1..mon.no : maxLevel'[i] = maxLevel[i]
<1>1. PICK level \in MaxLevels : maxLevel' = Append(maxLevel, level)
  BY DEF Attach
<1>2. level \in Warn..Stop
  BY <1>1
<1>3. /\ mon' = [f \in MonFields |-> mon'[f]]
      /\ mon'.pc = "status" /\ mon'.no = mon.no + 1 /\ mon'.status = "absent"
      /\ mon'.verdict = "none" /\ mon'.age = 0 /\ mon'.checkpoint = 0
      /\ mon'.pending = NoRequest /\ ~mon'.preserveAck
  BY DEF Attach, Detached, MonFields
<1>4. maxLevel \in Seq(Warn..Stop) /\ Len(maxLevel) = mon.no /\ mon.no \in Nat
  BY DEF Shape
<1>5. /\ maxLevel' \in Seq(Warn..Stop) /\ Len(maxLevel') = mon.no + 1
      /\ \A i \in 1..mon.no : maxLevel'[i] = maxLevel[i]
  BY <1>1, <1>2, <1>4
<1> QED BY <1>3, <1>5 DEF Attach

TickKeeps == UNCHANGED <<trainerVars, attached, status, response, request, mon, ghosts>>

LEMMA NextCases ==
  ASSUME [Next]_vars
  PROVE  \/ TrainerMoves \/ Attach \/ Reads \/ ReadResponse \/ Decide \/ Tick
         \/ UNCHANGED vars
BY DEF Next, TrainerMoves, MonitorStep, Reads

-----------------------------------------------------------------------------
(***************************************************************************)
(* Every step preserves the types.                                         *)
(***************************************************************************)

LEMMA ShapeInit == Init => Shape
BY DEF Init, Shape, TypeOK, Detached, NoRequest, NoResponse, None, MonFields, HeartFields, Requests,
       Statuses

LEMMA HeartUpdate ==
  ASSUME Shape, NEW a \in 0..MaxAge
  PROVE  LET h == [heartbeat EXCEPT !.age = a]
         IN  /\ h = [f \in HeartFields |-> h[f]] /\ h.age = a
             /\ h.failures = heartbeat.failures
BY DEF Shape, HeartFields

LEMMA ShapeTrainer == ASSUME Shape, Asked, TrainerMoves PROVE Shape'
<1>0. /\ UNCHANGED <<request, mon, maxLevel>>
      /\ 0 \in 0..MaxAge
  BY TrainerLeaves
<1>1. CASE PublishRuntime
  <2>1. heartbeat' = [heartbeat EXCEPT !.age = 0]
    BY <1>1 DEF PublishRuntime
  <2>2. heartbeat' = [f \in HeartFields |-> heartbeat'[f]] /\ heartbeat'.age = 0
        /\ heartbeat'.failures = heartbeat.failures
    BY <1>0, <2>1, HeartUpdate
  <2> QED BY <1>0, <1>1, <2>2 DEF PublishRuntime, Shape, TypeOK, ghosts
<1>2. ASSUME NEW from, NEW state \in Statuses, PublishStatus(from, state, pc'),
             pc' \in {"iterate", "service", "exiting"}
      PROVE  Shape'
  BY <1>0, <1>2 DEF PublishStatus, Shape, TypeOK, ghosts, Statuses
<1>3. CASE Beat
  <2>1. PICK failed \in {0, 1, MaxFailures} :
          /\ heartbeat.failures + failed <= MaxFailures
          /\ heartbeat' = [present |-> TRUE, age |-> 0, failures |-> heartbeat.failures + failed]
    BY <1>3 DEF Beat
  <2>2. heartbeat.failures + failed \in 0..MaxFailures
    BY <2>1 DEF Shape, TypeOK
  <2>3. heartbeat' = [f \in HeartFields |-> heartbeat'[f]] /\ heartbeat'.age = 0
        /\ heartbeat'.failures \in 0..MaxFailures
    BY <2>1, <2>2 DEF HeartFields
  <2> QED BY <1>0, <1>3, <2>3 DEF Beat, Shape, TypeOK, ghosts
<1>4. CASE ReadRequest
  BY <1>0, <1>4 DEF ReadRequest, Shape, TypeOK, ghosts, trainerFiles
<1>5. ASSUME heartbeat' \in {heartbeat, Refreshed}
      PROVE  /\ heartbeat' = [f \in HeartFields |-> heartbeat'[f]]
             /\ heartbeat'.age \in {0, heartbeat.age}
             /\ heartbeat'.failures = heartbeat.failures
  <2>1. heartbeat' = heartbeat \/ heartbeat' = [heartbeat EXCEPT !.age = 0]
    BY <1>5 DEF Refreshed
  <2> QED BY <1>0, <2>1, HeartUpdate DEF Shape
<1>6. CASE SaveRequested
  <2>1. /\ heartbeat' = [f \in HeartFields |-> heartbeat'[f]]
        /\ heartbeat'.age \in {0, heartbeat.age}
        /\ heartbeat'.failures = heartbeat.failures
    BY <1>5, <1>6 DEF SaveRequested
  <2>2. durable' \subseteq Ids /\ preserved' \subseteq 1..MaxMonitors
    <3>1. serving.id \in Ids /\ serving.monitor \in 1..mon.no /\ mon.no <= MaxMonitors
      BY <1>6 DEF SaveRequested, Shape, TypeOK, Asked, Requests
    <3>2. serving.monitor \in 1..MaxMonitors
      BY <3>1 DEF Shape
    <3> QED BY <1>6, <3>1, <3>2 DEF SaveRequested, Shape, TypeOK
  <2> QED BY <1>0, <1>6, <2>1, <2>2 DEF SaveRequested, Shape, TypeOK
<1>7. CASE Acknowledge
  BY <1>0, <1>7 DEF Acknowledge, Shape, TypeOK, ghosts, Requests
<1>8. CASE EndIteration
  <2>1. /\ heartbeat' = [f \in HeartFields |-> heartbeat'[f]]
        /\ heartbeat'.age \in {0, heartbeat.age}
        /\ heartbeat'.failures = heartbeat.failures
    BY <1>5, <1>8 DEF EndIteration
  <2> QED BY <1>0, <1>8, <2>1 DEF EndIteration, Shape, TypeOK, ghosts
<1>9. CASE Raise \/ Exit \/ Killed
  BY <1>0, <1>9 DEF Raise, Exit, Killed, Die, Shape, TypeOK, ghosts, trainerFiles
<1> QED BY <1>1, <1>2, <1>3, <1>4, <1>6, <1>7, <1>8, <1>9
       DEF TrainerMoves, TrainerStep, PublishStatus, Statuses, Terminal

LEMMA ShapeStep == ASSUME Shape, Asked, Ends, [Next]_vars PROVE Shape'
<1>1. CASE TrainerMoves
  BY <1>1, ShapeTrainer
<1>2. CASE Attach
  <2>1. "none" \in {"none", "completed", "stopped_by_watchdog", "trainer_failed",
                    "trainer_exited_unexpectedly"}
        /\ 0 \in 0..MaxAge /\ NoRequest \in Requests /\ mon.no + 1 \in 0..MaxMonitors
    BY <1>2, AttachEffect DEF NoRequest, Requests, None, Shape
  <2> QED BY <1>2, <2>1, AttachEffect
          DEF Trainer, trainerVars, trainerFiles, Shape, TypeOK, Statuses
<1>3. CASE Reads
  <2>1. TerminalVerdict(mon.status) \in {"none", "completed", "stopped_by_watchdog",
                                         "trainer_failed", "trainer_exited_unexpectedly"}
    BY DEF TerminalVerdict
  <2> QED BY <1>3, <2>1, ReadsLeave, SMTT(30)
          DEF Trainer, trainerVars, trainerFiles, ghosts, Shape, TypeOK, Statuses
<1>4. CASE ReadResponse
  <2>1. NoRequest \in Requests
    BY DEF NoRequest, Requests, None
  <2> QED BY <1>4, <2>1, ReadResponseEffect
          DEF Trainer, trainerVars, trainerFiles, ghosts, Shape, TypeOK
<1>5. CASE Decide
  <2>1. 0 \in 0..MaxAge
    OBVIOUS
  <2>2. request' \in Requests /\ mon'.pending \in Requests /\ durable' \subseteq Ids
    BY <1>5, DecideEffect DEF Shape, TypeOK
  <2> QED BY <1>5, <2>1, <2>2, DecideEffect, SMTT(30)
          DEF Trainer, trainerVars, trainerFiles, Shape, TypeOK
<1>6. CASE Tick
  <2>1. heartbeat.age + 1 \in Nat /\ checkpointAge + 1 \in Nat
    BY DEF Shape, TypeOK
  <2>2. \A n \in Nat : Min({n, MaxAge}) \in 0..MaxAge
    BY MinOfTwo
  <2>3. heartbeat' = [heartbeat EXCEPT !.age = Min({heartbeat.age + 1, MaxAge})]
        /\ checkpointAge' = Min({checkpointAge + 1, MaxAge})
    BY <1>6 DEF Tick
  <2>4. heartbeat' = [f \in HeartFields |-> heartbeat'[f]]
        /\ heartbeat'.age \in 0..MaxAge /\ heartbeat'.failures = heartbeat.failures
    BY <2>1, <2>2, <2>3, HeartUpdate
  <2>5. checkpointAge' \in 0..MaxAge
    BY <2>1, <2>2, <2>3
  <2> QED BY <1>6, <2>4, <2>5 DEF Tick, trainerVars, ghosts, Shape, TypeOK
<1>7. CASE UNCHANGED vars
  BY <1>7 DEF vars, trainerVars, trainerFiles, ghosts, Shape, TypeOK
<1> QED BY <1>1, <1>2, <1>3, <1>4, <1>5, <1>6, <1>7, NextCases

-----------------------------------------------------------------------------
(***************************************************************************)
(* Every step preserves who asked, what the names stand for, and what is   *)
(* durable.                                                                *)
(***************************************************************************)

LEMMA AskedStep == ASSUME Shape, Asked, [Next]_vars PROVE Asked'
<1>1. CASE TrainerMoves
  BY <1>1, TrainerLeaves
     DEF Asked, TrainerMoves, TrainerStep, Raise, Killed, Exit, Die, PublishRuntime, PublishStatus,
         Beat, ReadRequest, SaveRequested, Acknowledge, EndIteration, trainerFiles, ghosts
<1>2. CASE Attach
  BY <1>2, AttachEffect DEF Trainer, trainerVars, Asked, Shape
<1>3. CASE Reads
  BY <1>3, ReadsLeave DEF Trainer, trainerVars, Asked
<1>4. CASE ReadResponse
  BY <1>4, ReadResponseEffect DEF Trainer, trainerVars, Asked
<1>5. CASE Decide
  BY <1>5, DecideEffect DEF Trainer, trainerVars, Asked, Shape
<1>6. CASE Tick
  BY <1>6 DEF Tick, trainerVars, Asked
<1>7. CASE UNCHANGED vars
  BY <1>7 DEF vars, trainerVars, Asked
<1> QED BY <1>1, <1>2, <1>3, <1>4, <1>5, <1>6, <1>7, NextCases

LEMMA NamedStep == ASSUME Shape, Asked, Named, [Next]_vars PROVE Named'
<1>1. CASE TrainerMoves
  BY <1>1, TrainerLeaves
     DEF Named, Asked, TrainerMoves, TrainerStep, Raise, Killed, Exit, Die, PublishRuntime,
         PublishStatus, Beat, ReadRequest, SaveRequested, Acknowledge, EndIteration, trainerFiles,
         ghosts
<1>2. CASE Attach
  BY <1>2, AttachEffect DEF Trainer, trainerVars, trainerFiles, Named
<1>3. CASE Reads
  BY <1>3, ReadsLeave DEF Trainer, trainerVars, trainerFiles, Named
<1>4. CASE ReadResponse
  BY <1>4, ReadResponseEffect DEF Trainer, trainerVars, trainerFiles, Named
<1>5. CASE Decide
  BY <1>5, DecideEffect, FreshIsNew DEF Trainer, trainerVars, trainerFiles, Named
<1>6. CASE Tick
  BY <1>6 DEF Tick, trainerVars, Named
<1>7. CASE UNCHANGED vars
  BY <1>7 DEF vars, trainerVars, trainerFiles, Named
<1> QED BY <1>1, <1>2, <1>3, <1>4, <1>5, <1>6, <1>7, NextCases

LEMMA SavedStep == ASSUME Shape, Asked, Named, Saved, [Next]_vars PROVE Saved'
<1> USE DEF Saved, AcknowledgedIsDurable
<1>1. CASE TrainerMoves
  <2>1. CASE SaveRequested
    BY <1>1, <2>1, TrainerLeaves DEF SaveRequested, Asked
  <2> QED BY <1>1, <2>1, TrainerLeaves
     DEF Asked, TrainerMoves, TrainerStep, Raise, Killed, Exit, Die, PublishRuntime,
         PublishStatus, Beat, ReadRequest, Acknowledge, EndIteration, trainerFiles, ghosts
<1>2. CASE Attach
  BY <1>2, AttachEffect DEF Trainer, trainerVars, trainerFiles
<1>3. CASE Reads
  BY <1>3, ReadsLeave DEF Trainer, trainerVars, trainerFiles, ghosts
<1>4. CASE ReadResponse
  BY <1>4, ReadResponseEffect DEF Trainer, trainerVars, trainerFiles, ghosts
<1>5. CASE Decide
  BY <1>5, DecideEffect, FreshIsNew DEF Trainer, trainerVars, trainerFiles, Asked
<1>6. CASE Tick
  BY <1>6 DEF Tick, trainerVars, ghosts
<1>7. CASE UNCHANGED vars
  BY <1>7 DEF vars, trainerVars, trainerFiles, ghosts
<1> QED BY <1>1, <1>2, <1>3, <1>4, <1>5, <1>6, <1>7, NextCases

-----------------------------------------------------------------------------
(***************************************************************************)
(* Every step preserves what is known of a preserve, what a monitor waits  *)
(* for, its level, and how the run ended.                                  *)
(***************************************************************************)

LEMMA PreserveKnownStep ==
  ASSUME Shape, Asked, Named, Pending, PreserveKnown, [Next]_vars PROVE PreserveKnown'
<1> USE DEF PreserveKnown, StopFollowsPreserve
<1>1. CASE TrainerMoves
  <2>1. CASE SaveRequested
    BY <1>1, <2>1, TrainerLeaves DEF SaveRequested
  <2>2. CASE Acknowledge
    BY <1>1, <2>2, TrainerLeaves DEF Acknowledge, Named, Asked, ghosts
  <2> QED BY <1>1, <2>1, <2>2, TrainerLeaves
     DEF TrainerMoves, TrainerStep, Raise, Killed, Exit, Die, PublishRuntime, PublishStatus, Beat,
         ReadRequest, EndIteration, trainerFiles, ghosts
<1>2. CASE Attach
  BY <1>2, AttachEffect DEF Trainer, trainerVars, trainerFiles
<1>3. CASE Reads
  BY <1>3, ReadsLeave DEF Trainer, trainerVars, trainerFiles, ghosts
<1>4. CASE ReadResponse
  BY <1>4, ReadResponseEffect DEF Trainer, trainerVars, trainerFiles, ghosts, Pending
<1>5. CASE Decide
  BY <1>5, DecideEffect, FreshIsNew DEF Trainer, trainerVars, trainerFiles
<1>6. CASE Tick
  BY <1>6 DEF Tick, trainerVars, ghosts
<1>7. CASE UNCHANGED vars
  BY <1>7 DEF vars, trainerVars, trainerFiles, ghosts
<1> QED BY <1>1, <1>2, <1>3, <1>4, <1>5, <1>6, <1>7, NextCases

LEMMA PendingStep ==
  ASSUME Shape, Asked, Named, Pending, [Next]_vars PROVE Pending'
<1> USE DEF Pending
<1>1. CASE TrainerMoves
  BY <1>1, TrainerLeaves
     DEF Named, Asked, TrainerMoves, TrainerStep, Raise, Killed, Exit, Die, PublishRuntime,
         PublishStatus, Beat, ReadRequest, SaveRequested, Acknowledge, EndIteration, trainerFiles,
         ghosts
<1>2. CASE Attach
  BY <1>2, AttachEffect DEF Trainer, trainerVars, trainerFiles, Asked, Shape
<1>3. CASE Reads
  BY <1>3, ReadsLeave DEF Trainer, trainerVars, trainerFiles
<1>4. CASE ReadResponse
  BY <1>4, ReadResponseEffect DEF Trainer, trainerVars, trainerFiles
<1>5. CASE Decide
  <2>1. NoRequest.id = None /\ Fresh # None
    BY FreshIsNew DEF NoRequest, None, Ids
  <2> QED BY <1>5, <2>1, DecideEffect DEF Trainer, trainerVars, trainerFiles
<1>6. CASE Tick
  BY <1>6 DEF Tick
<1>7. CASE UNCHANGED vars
  BY <1>7 DEF vars, trainerFiles
<1> QED BY <1>1, <1>2, <1>3, <1>4, <1>5, <1>6, <1>7, NextCases

LEMMA WithinMaxLevelStep ==
  ASSUME Shape, Asked, Pending, WithinMaxLevel, [Next]_vars PROVE WithinMaxLevel'
<1> USE DEF WithinMaxLevel
<1>1. CASE TrainerMoves
  BY <1>1, TrainerLeaves
<1>2. CASE Attach
  BY <1>2, AttachEffect DEF Asked, Shape
<1>3. CASE Reads
  BY <1>3, ReadsLeave DEF ghosts
<1>4. CASE ReadResponse
  BY <1>4, ReadResponseEffect DEF ghosts
<1>5. CASE Decide
  BY <1>5, DecideEffect
<1>6. CASE Tick
  BY <1>6 DEF Tick, ghosts
<1>7. CASE UNCHANGED vars
  BY <1>7 DEF vars, ghosts
<1> QED BY <1>1, <1>2, <1>3, <1>4, <1>5, <1>6, <1>7, NextCases

LEMMA EndsStep == ASSUME Shape, Asked, Ends, [Next]_vars PROVE Ends'
<1> USE DEF Ends, VerdictIsTrue, Alive
<1>1. CASE TrainerMoves
  <2>1. UNCHANGED mon
    BY <1>1, TrainerLeaves
  <2>2. CASE Exit
    BY <2>1, <2>2 DEF Exit, Die, trainerFiles
  <2>3. CASE ~Exit
    <3>1. pc \notin {"exiting", "dead"}
      BY <1>1, <2>3 DEF TrainerMoves, TrainerStep, Raise, Killed, Exit, Die, PublishRuntime,
             PublishStatus, Beat, ReadRequest, SaveRequested, Acknowledge, EndIteration
    <3>2. status' \in Terminal => pc' = "exiting"
      BY <1>1, <2>3, <3>1 DEF TrainerMoves, TrainerStep, Raise, Killed, Exit, Die, PublishRuntime,
             PublishStatus, Beat, ReadRequest, SaveRequested, Acknowledge, EndIteration,
             trainerFiles, Terminal
    <3> QED BY <2>1, <3>1, <3>2
  <2> QED BY <2>2, <2>3
<1>2. CASE Attach
  BY <1>2, AttachEffect DEF Trainer, trainerVars, trainerFiles, Terminal
<1>3. CASE Reads
  <2>1. "absent" \notin Terminal
    BY DEF Terminal
  <2>2. TerminalVerdict(mon.status) \in {"completed", "stopped_by_watchdog", "trainer_failed"}
          => mon.status \in Terminal
    BY DEF TerminalVerdict, Terminal
  <2> QED BY <1>3, <2>1, <2>2, ReadsLeave DEF Trainer, trainerVars, trainerFiles
<1>4. CASE ReadResponse
  BY <1>4, ReadResponseEffect DEF Trainer, trainerVars, trainerFiles
<1>5. CASE Decide
  BY <1>5, DecideEffect DEF Trainer, trainerVars, trainerFiles
<1>6. CASE Tick
  BY <1>6 DEF Tick, trainerVars
<1>7. CASE UNCHANGED vars
  BY <1>7 DEF vars, trainerVars, trainerFiles
<1> QED BY <1>1, <1>2, <1>3, <1>4, <1>5, <1>6, <1>7, NextCases

-----------------------------------------------------------------------------
LEMMA IInvInit == Init => IInv
<1> SUFFICES ASSUME Init PROVE IInv
  OBVIOUS
<1>1. Shape
  BY ShapeInit
<1>2. /\ pc = "boot" /\ serving.id = None /\ lastRequest = None /\ status = "absent"
      /\ request.id = None /\ request.action = Ok /\ response.id = None
      /\ mon.pc = "off" /\ mon.no = 0 /\ mon.status = "absent" /\ mon.pending = NoRequest
      /\ ~mon.preserveAck /\ mon.verdict = "none"
  BY DEF Init, NoRequest, NoResponse, Detached
<1> QED BY <1>1, <1>2 DEF IInv, Asked, Named, Saved, AcknowledgedIsDurable, PreserveKnown,
          StopFollowsPreserve, Pending, WithinMaxLevel, Ends, VerdictIsTrue, Terminal

LEMMA IInvStep == IInv /\ [Next]_vars => IInv'
BY ShapeStep, AskedStep, NamedStep, SavedStep, PreserveKnownStep, PendingStep,
   WithinMaxLevelStep, EndsStep DEF IInv

LEMMA IInvHolds == Spec => []IInv
BY IInvInit, IInvStep, PTL DEF Spec

\* For every trainer, every succession of monitors and every reading: a stop is asked for
\* only with the asker's preserve checkpoint on disk, an acknowledged request is on disk,
\* no monitor exceeds its level, and a verdict tells how the run ended
\* (watch_training.py, training_watchdog.py).
THEOREM InterventionsStayDurable == Spec => []InterventionsAreDurable
<1>1. IInv => InterventionsAreDurable
  BY DEF IInv, InterventionsAreDurable, Shape, Saved, PreserveKnown, Ends
<1> QED BY <1>1, IInvHolds, PTL

\* A monitor never asks again while its request is unanswered, and the trainer writes at
\* most one checkpoint for it (_service_request, Monitor.poll).
THEOREM RequestsServedOnce == Spec => RequestsAreServedOnce
<1>1. IInv /\ [Next]_vars
        => [request' # request /\ request.monitor = mon.no /\ request.id # None
              => response.id = request.id]_vars
  <2> SUFFICES ASSUME IInv, [Next]_vars, request' # request,
                      request.monitor = mon.no, request.id # None
               PROVE  response.id = request.id
    OBVIOUS
  <2>1. Decide
    <3>1. ~TrainerMoves /\ ~(UNCHANGED vars)
      BY TrainerLeaves DEF vars
    <3>2. ~Attach /\ ~Reads /\ ~ReadResponse /\ ~Tick
      BY AttachEffect, ReadsLeave, ReadResponseEffect DEF IInv, Tick
    <3> QED BY <3>1, <3>2, NextCases
  <2>2. mon.pending = NoRequest
    BY <2>1, DecideEffect DEF IInv
  <2> QED BY <2>2 DEF IInv, Pending
<1>2. IInv => [pc = "saving" /\ pc' = "saved" => serving.id \notin durable]_vars
  BY DEF IInv, Saved
<1> QED BY <1>1, <1>2, IInvHolds, PTL DEF Spec, RequestsAreServedOnce, OneOutstanding, ServicedOnce

-----------------------------------------------------------------------------
(***************************************************************************)
(* The suite: a behaviour moves one part and leaves the others.            *)
(***************************************************************************)

LEMMA EachPartIsItsOwn ==
  /\ RunInit => Init /\ Reports!Init /\ Ppo!Init /\ Resume!Init
  /\ [RunNext]_runVars =>
       [Next]_vars /\ [Reports!Next]_reportVars /\ [Ppo!Next]_ppoVars /\ [Resume!Next]_resumeVars
BY Zenon DEF RunInit, RunNext, runVars

\* What the monitor compares with the baseline is the newest report, complete and written
\* after it attached; the streak is that of the reports behind the last healthy one.
THEOREM ReportsStayEvidence == RunSpec => []ReportsAreEvidence
<1>1. ReportInv => ReportsAreEvidence
  BY ReportsGovern, Zenon DEF ReportsAreEvidence
<1> QED BY <1>1, EachPartIsItsOwn, ReportInvariant, PTL DEF RunSpec

\* Every rank learns from the transitions of this rollout that had authority, and with the
\* one rate that is adapted, by a step at most, between two rollouts.
THEOREM RolloutStaysItsOwn == RunSpec => RolloutIsItsOwn
<1>1. PpoInv => Ppo!TypeOK /\ Ppo!ActorLearnsFromItsActions /\ Ppo!RanksAgree
  BY PpoGoverns
<1>2. PpoInv /\ [Ppo!Next]_ppoVars
        => [\A r \in Ppo!Rank : rate'[r] # rate[r] =>
              /\ pPc[r] = "adapt" /\ pPc'[r] = "rollout" /\ rate'[r] - rate[r] \in {-1, 1}]_ppoVars
  BY RateIsScheduled
<1> QED BY <1>1, <1>2, EachPartIsItsOwn, PpoInvariant, PTL
        DEF RunSpec, RolloutIsItsOwn, Ppo!ScheduledOnce, Ppo!vars, ppoVars

\* A full resume is refused exactly when the controller, the packages or anything else the
\* checkpoint recorded changed, an actor load when the controller or the recorded interface
\* did, over any history of upgrades; a parameter that is gone counts, moved modules,
\* unused impulse defaults and new fields do not.  A resume takes the curriculum up where
\* it was.
THEOREM ResumesKeepContract == RunSpec => []ResumesKeepTheContract
<1>1. ResumeInv => ResumesKeepTheContract
  BY ResumesGovern, Zenon DEF ResumesKeepTheContract
<1> QED BY <1>1, EachPartIsItsOwn, ResumeInvariant, PTL DEF RunSpec
=============================================================================
