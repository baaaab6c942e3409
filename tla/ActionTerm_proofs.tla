---------------------------- MODULE ActionTerm_proofs ----------------------------
(***************************************************************************)
(* The parts of an action term for every value of their parameters: an     *)
(* inductive invariant of each part, then the suite's properties, which    *)
(* follow because the parts share no state.                                *)
(***************************************************************************)
EXTENDS ActionTerm, RuntimeLemmas, SequenceTheorems

-----------------------------------------------------------------------------
(***************************************************************************)
(* The gated residual.                                                     *)
(***************************************************************************)

LEMMA GateConstants ==
  /\ MaxActive \in Nat \ {0} /\ Rearm \in Nat \ {0} /\ MaxAuthority \in Nat \ {0}
  /\ OnsetDelta \in Int /\ Onsets \subseteq Int /\ Nominals \subseteq Int /\ Limit \in Nat
  /\ Raws \subseteq Int /\ Pulls \subseteq Int
BY PartsAssumption DEF Gate!GateAssumption

\* The k-th transition before this one, in this episode.
Ago(k, field) == IF Len(past) < k THEN 0 ELSE past[Len(past) - k + 1][field]

GateTypes ==
  /\ Gate!TypeOK
  /\ past \in Seq([request : Int, executed : -(2 * Limit)..(2 * Limit)])
  /\ run \in 0..Rearm
  /\ class # "direct" => request \in -1..1

\* The filter is armed only after a rest, and counts it as the history does.
Rested ==
  /\ Gate!BurstIsBounded
  /\ f.armed => rested
  /\ f.quietAge = run

\* The gate in force, from the moment it is computed to the moment PPO reads it.
Granted ==
  /\ pc \in {"apply", "done"} => actorGate = gate
  /\ pc = "done" => applied = gate
  /\ Gate!MaskIsAuthorityApplied
  /\ Gate!ZeroGateExecutesNothing /\ Gate!ExecutedIsWithinRequest
  /\ Gate!FeedbackLagsOneStep

\* The buffers are those of the episode: of the last transition before the next request,
\* of the two before it from then on; a position or torque action keeps no requests.
Remembered ==
  /\ pc \in {"policy", "record"} =>
       /\ gExecuted = Ago(1, "executed")
       /\ class # "direct" => request = Ago(1, "request") /\ history[1] = Ago(2, "request")
  /\ pc \in {"apply", "done"} =>
       /\ previousExecuted = Ago(1, "executed")
       /\ class # "direct" => history = <<Ago(1, "request"), Ago(2, "request")>>

GateInv == GateTypes /\ Rested /\ Granted /\ Remembered

LEMMA MinOfTwo ==
  ASSUME NEW a \in Int, NEW b \in Int
  PROVE  /\ Gate!Min({a, b}) \in {a, b} /\ Gate!Min({a, b}) <= a /\ Gate!Min({a, b}) <= b
<1>1. \E x \in {a, b} : \A y \in {a, b} : x <= y
  OBVIOUS
<1> QED BY <1>1 DEF Gate!Min

LEMMA MaxOfTwo ==
  ASSUME NEW a \in Int, NEW b \in Int
  PROVE  /\ Gate!Max({a, b}) \in {a, b} /\ Gate!Max({a, b}) >= a /\ Gate!Max({a, b}) >= b
<1>1. \E x \in {a, b} : \A y \in {a, b} : x >= y
  OBVIOUS
<1> QED BY <1>1 DEF Gate!Max

\* Clamping leaves the bounds, what is within them, and never moves two values apart.
LEMMA Clamps ==
  ASSUME NEW v \in Int, NEW low \in Int, NEW high \in Int, low <= high
  PROVE  Gate!Clamp(v, low, high) = IF v > high THEN high ELSE IF v < low THEN low ELSE v
<1> DEFINE m == Gate!Min({v, high})
<1>1. m \in {v, high} /\ m <= v /\ m <= high
  BY MinOfTwo
<1> HIDE DEF m
<1>2. m \in Int
  BY <1>1
<1>3. Gate!Max({low, m}) \in {low, m} /\ Gate!Max({low, m}) >= low /\ Gate!Max({low, m}) >= m
  BY <1>2, MaxOfTwo
<1>4. Gate!Clamp(v, low, high) = Gate!Max({low, m})
  BY DEF Gate!Clamp, m
<1> QED BY <1>1, <1>3, <1>4

-----------------------------------------------------------------------------
LEMMA LevelIsAuthority ==
  ASSUME NEW a \in 0..MaxAuthority, NEW t \in 0..MaxAuthority, NEW level \in Gate!FilterAuthority(a, t)
  PROVE  level \in 0..MaxAuthority
<1>1. a \in Int /\ t \in Int /\ MaxAuthority \in Int
  BY GateConstants
<1>2. Gate!Min({a, t}) \in {a, t} /\ Gate!Max({a, t}) \in {a, t}
  BY <1>1, MinOfTwo, MaxOfTwo
<1> DEFINE lo == Gate!Min({a, t})
           hi == Gate!Max({a, t})
<1>3. level \in lo..hi
  BY DEF Gate!FilterAuthority
<1>4. lo \in {a, t} /\ hi \in {a, t}
  BY <1>2
<1> HIDE DEF lo, hi
<1> QED BY <1>1, <1>3, <1>4

\* The burst a measurement starts, continues or ends.
LEMMA BurstFacts ==
  ASSUME GateInv, NEW m \in Gate!Measurements,
         NEW level \in Gate!FilterAuthority(f.authority, m.target)
  PROVE  LET b == Gate!Burst(m, level)
         IN  /\ b.authority \in 0..MaxAuthority /\ b.age \in Nat
             /\ b.active \in BOOLEAN
             /\ b.authority > 0 => b.active
             /\ b.active => b.age < MaxActive /\ (f.active \/ Gate!Starts(m))
<1> USE GateConstants
<1>1. level \in 0..MaxAuthority
  BY LevelIsAuthority DEF GateInv, GateTypes, Gate!TypeOK, Gate!Measurements
<1>2. f.activeAge \in Nat
  BY DEF GateInv, GateTypes, Gate!TypeOK
<1> DEFINE on == f.active \/ Gate!Starts(m)
           age == (IF Gate!Starts(m) THEN 0 ELSE f.activeAge) + 1
           authority == IF on THEN level ELSE 0
           stopped == on /\ (age >= MaxActive \/ (m.target = 0 /\ authority = 0))
           b == Gate!Burst(m, level)
<1>3. /\ b.active = (on /\ ~stopped)
      /\ b.authority = (IF stopped THEN 0 ELSE authority)
      /\ b.age = (IF on THEN age ELSE f.activeAge)
  BY DEF Gate!Burst
<1>4. age \in Nat /\ authority \in 0..MaxAuthority
  BY <1>1, <1>2
<1>5. b.authority \in 0..MaxAuthority /\ b.age \in Nat
  BY <1>2, <1>3, <1>4
<1>6. b.authority > 0 => on /\ ~stopped
  BY <1>1, <1>3
<1>7. on /\ ~stopped => age < MaxActive
  BY <1>4
<1>8. b.active \in BOOLEAN /\ (b.active <=> on /\ ~stopped)
  BY <1>3, Zenon
<1> HIDE DEF b, on, age, authority, stopped
<1>9. b.authority > 0 => b.active
  BY <1>6, <1>8
<1>10. b.active => b.age < MaxActive /\ on
  BY <1>3, <1>7, <1>8
<1> QED BY <1>5, <1>8, <1>9, <1>10 DEF b, on

\* A start needs a score over the threshold, which is no stretch of rest.
LEMMA StartsAreLoud ==
  ASSUME GateInv, NEW m \in Gate!Measurements, Gate!Starts(m)
  PROVE  m.score = "over" /\ f.armed /\ ~f.active
BY GateConstants DEF Gate!Starts, Gate!Measurements

\* What a measurement makes of the filter, of its burst b.
LEMMA FilterStep ==
  ASSUME GateInv, NEW m \in Gate!Measurements,
         NEW level \in Gate!FilterAuthority(f.authority, m.target),
         NEW quietRun,
         quietRun = (IF Gate!Quiet(m, Gate!Burst(m, level)) THEN Gate!Min({run + 1, Rearm}) ELSE 0),
         f' = Gate!Updated(m, Gate!Burst(m, level)), run' = quietRun,
         rested' = ((rested /\ ~Gate!Starts(m)) \/ quietRun >= Rearm)
  PROVE  /\ f' \in [authority : 0..MaxAuthority, activeAge : 0..MaxActive, quietAge : 0..Rearm,
                     active : BOOLEAN, armed : BOOLEAN, onset : Onsets \cup {0}, primed : BOOLEAN]
         /\ run' \in 0..Rearm /\ Rested'
<1> USE GateConstants
<1> DEFINE b == Gate!Burst(m, level)
           quiet == Gate!Quiet(m, b)
           age == Gate!QuietAge(m, b)
<1>1. /\ b.authority \in 0..MaxAuthority /\ b.age \in Nat
      /\ b.active \in BOOLEAN
      /\ b.authority > 0 => b.active
      /\ b.active => b.age < MaxActive /\ (f.active \/ Gate!Starts(m))
  BY BurstFacts, Zenon
<1>2. /\ f'.authority = b.authority /\ f'.active = b.active
      /\ f'.activeAge = (IF b.active THEN b.age ELSE 0)
      /\ f'.quietAge = Gate!Min({age, Rearm})
      /\ f'.armed = ((f.armed /\ ~Gate!Starts(m)) \/ (quiet /\ age >= Rearm))
      /\ f'.onset = m.onset /\ f'.primed = TRUE
  BY DEF Gate!Updated
<1>3. quiet => ~Gate!Starts(m) /\ ~b.active
  BY StartsAreLoud DEF Gate!Quiet
<1>4. f.quietAge = run /\ run \in 0..Rearm
  BY DEF GateInv, Rested, GateTypes
<1>5. age = (IF quiet THEN run + 1 ELSE 0)
  BY <1>3, <1>4 DEF Gate!QuietAge
<1> HIDE DEF b, quiet, age
<1>6. age \in Nat
  BY <1>4, <1>5
<1>7. Gate!Min({age, Rearm}) \in {age, Rearm} /\ Gate!Min({age, Rearm}) <= age /\ Gate!Min({age, Rearm}) <= Rearm
  <2>1. age \in Int /\ Rearm \in Int
    BY <1>6
  <2> QED BY <2>1, MinOfTwo, Zenon
<1>8. quietRun = (IF quiet THEN Gate!Min({age, Rearm}) ELSE 0)
  BY <1>5 DEF quiet, b
<1>9. ~quiet => Gate!Min({age, Rearm}) = 0
  BY <1>5, <1>7
<1>10. f'.quietAge = run' /\ run' \in 0..Rearm
  BY <1>2, <1>7, <1>8, <1>9, <1>6
<1>11. quiet /\ age >= Rearm => quietRun >= Rearm
  BY <1>6, <1>7, <1>8
<1>12. f'.armed => rested'
  BY <1>2, <1>11 DEF GateInv, Rested
<1>13. f'.active => ~f'.armed
  <2>1. ASSUME f'.active PROVE ~quiet
    BY <2>1, <1>2, <1>3
  <2>2. ASSUME f'.active PROVE f.active \/ Gate!Starts(m)
    BY <2>2, <1>1, <1>2
  <2>3. f.active => ~f.armed
    BY DEF GateInv, Rested, Gate!BurstIsBounded
  <2> QED BY <1>2, <2>1, <2>2, <2>3, Zenon
<1>14. f'.active => f'.activeAge < MaxActive
  BY <1>1, <1>2
<1>15. f'.authority > 0 => f'.active
  BY <1>1, <1>2
<1>16. Rested'
  BY <1>10, <1>12, <1>13, <1>14, <1>15 DEF Rested, Gate!BurstIsBounded
<1>17. f'.authority \in 0..MaxAuthority /\ f'.activeAge \in 0..MaxActive /\ f'.quietAge \in 0..Rearm
  BY <1>1, <1>2, <1>10
<1>18. f'.active \in BOOLEAN /\ f'.armed \in BOOLEAN /\ f'.primed \in BOOLEAN
  BY <1>1, <1>2, Zenon
<1>19. f'.onset \in Onsets \cup {0}
  BY <1>2 DEF Gate!Measurements
<1>20. f' = [authority |-> f'.authority, active |-> f'.active, activeAge |-> f'.activeAge,
             quietAge |-> f'.quietAge, armed |-> f'.armed, onset |-> f'.onset,
             primed |-> f'.primed]
  BY DEF Gate!Updated
<1>21. f' \in [authority : 0..MaxAuthority, activeAge : 0..MaxActive, quietAge : 0..Rearm,
               active : BOOLEAN, armed : BOOLEAN, onset : Onsets \cup {0}, primed : BOOLEAN]
  BY <1>17, <1>18, <1>19, <1>20, Zenon
<1> QED BY <1>10, <1>16, <1>21

\* The filter and the gate after the update, supervised or not.
LEMMA GateUpdate ==
  ASSUME GateInv, Gate!UpdateGate
  PROVE  /\ f' \in [authority : 0..MaxAuthority, activeAge : 0..MaxActive, quietAge : 0..Rearm,
                     active : BOOLEAN, armed : BOOLEAN, onset : Onsets \cup {0}, primed : BOOLEAN]
         /\ run' \in 0..Rearm /\ Rested' /\ gate' \in 0..MaxAuthority
<1>1. CASE supervised
  <2>1. PICK m \in Gate!Measurements :
          \E level \in Gate!FilterAuthority(f.authority, m.target) : Gate!Supervise(m, level)
    BY <1>1 DEF Gate!UpdateGate
  <2>2. PICK level \in Gate!FilterAuthority(f.authority, m.target) : Gate!Supervise(m, level)
    BY <2>1
  <2> DEFINE b == Gate!Burst(m, level)
             quietRun == IF Gate!Quiet(m, b) THEN Gate!Min({run + 1, Rearm}) ELSE 0
  <2>3. /\ f' = Gate!Updated(m, b) /\ gate' = f'.authority /\ run' = quietRun
        /\ rested' = ((rested /\ ~Gate!Starts(m)) \/ quietRun >= Rearm)
    BY <2>2, Zenon DEF Gate!Supervise
  <2>4. /\ f' \in [authority : 0..MaxAuthority, activeAge : 0..MaxActive, quietAge : 0..Rearm,
                    active : BOOLEAN, armed : BOOLEAN, onset : Onsets \cup {0}, primed : BOOLEAN]
        /\ run' \in 0..Rearm /\ Rested'
    BY <2>3, FilterStep, Zenon
  <2> QED BY <2>3, <2>4
<1>2. CASE ~supervised
  <2>1. f' = f /\ run' = run /\ rested' = rested /\ gate' = gate
    BY <1>2 DEF Gate!UpdateGate, Gate!filterVars
  <2> QED BY <2>1 DEF GateInv, GateTypes, Gate!TypeOK, Rested, Gate!BurstIsBounded
<1> QED BY <1>1, <1>2

LEMMA GateProcess ==
  ASSUME GateInv, Gate!ProcessActions
  PROVE  GateInv'
<1> USE GateConstants
<1>1. PICK raw \in Raws, raws \in Raws :
        /\ pc = "policy" /\ pc' = "apply"
        /\ feedback' = Gate!FeedbackOffset(raws)
        /\ Gate!AdvanceHistory
        /\ previousExecuted' = gExecuted /\ previousGate' = gate
        /\ request' = Gate!Requested(raw)
        /\ Gate!UpdateGate /\ actorGate' = gate'
        /\ asked' = 0
        /\ UNCHANGED <<class, supervised, gExecuted, applied, past>>
  BY Zenon DEF Gate!ProcessActions
<1>2. raw \in Int /\ raws \in Int
  BY <1>1
<1>3. /\ f' \in [authority : 0..MaxAuthority, activeAge : 0..MaxActive, quietAge : 0..Rearm,
                  active : BOOLEAN, armed : BOOLEAN, onset : Onsets \cup {0}, primed : BOOLEAN]
      /\ run' \in 0..Rearm /\ Rested' /\ gate' \in 0..MaxAuthority
  BY <1>1, GateUpdate, Zenon
<1>4. gate \in 0..MaxAuthority
  BY DEF GateInv, GateTypes, Gate!TypeOK
<1> DEFINE c == Gate!Clamp(raws, -1, 1)
<1>5. c \in {-1, 0, 1} /\ Gate!Clamp(raw, -1, 1) \in {-1, 0, 1}
  BY <1>2, Clamps
<1>6. feedback' = (IF class = "feedback" THEN c * gate ELSE 0)
  BY <1>1 DEF Gate!FeedbackOffset
<1> HIDE DEF c
<1>7. feedback' \in -MaxAuthority..MaxAuthority /\ (feedback' # 0 => gate > 0)
  <2>1. CASE c = -1
    BY <1>4, <1>6, <2>1
  <2>2. CASE c = 0
    BY <1>4, <1>6, <2>2
  <2>3. CASE c = 1
    BY <1>4, <1>6, <2>3
  <2> QED BY <1>5, <2>1, <2>2, <2>3
<1>8. request' \in Int /\ (class # "direct" => request' \in -1..1)
  BY <1>1, <1>2, <1>5 DEF Gate!Requested
<1>9. history' = IF class = "direct" THEN history ELSE <<request, history[1]>>
  BY <1>1 DEF Gate!AdvanceHistory
<1>10. history' \in (-1..1) \X (-1..1)
  <2>1. history \in (-1..1) \X (-1..1) /\ history[1] \in -1..1
    BY DEF GateInv, GateTypes, Gate!TypeOK
  <2>2. class # "direct" => request \in -1..1
    BY DEF GateInv, GateTypes
  <2> QED BY <1>9, <2>1, <2>2, Zenon
<1>11. GateTypes'
  BY <1>1, <1>3, <1>4, <1>7, <1>8, <1>10 DEF GateInv, GateTypes, Gate!TypeOK
<1>12. Granted'
  BY <1>1, <1>3, <1>4, <1>7
     DEF Granted, Gate!MaskIsAuthorityApplied, Gate!ZeroGateExecutesNothing,
         Gate!ExecutedIsWithinRequest, Gate!FeedbackLagsOneStep
<1>13. \A k : \A field : Ago(k, field)' = Ago(k, field)
  BY <1>1 DEF Ago
<1>14. Remembered'
  BY <1>1, <1>9, <1>13 DEF GateInv, Remembered, Ago
<1> QED BY <1>3, <1>11, <1>12, <1>14 DEF GateInv

\* The safe target moves with the residual, and never further than it.
LEMMA ExecutedFacts ==
  ASSUME NEW nominal \in Int, NEW r \in Int
  PROVE  /\ Gate!Executed(nominal, r) \in -(2 * Limit)..(2 * Limit)
         /\ r = 0 => Gate!Executed(nominal, r) = 0
         /\ Gate!Executed(nominal, r) \in {0} \cup 0..r \cup r..0
<1> USE GateConstants
<1> DEFINE x == nominal + r
           sx == Gate!Clamp(x, -Limit, Limit)
           sn == Gate!Clamp(nominal, -Limit, Limit)
<1>1. sx = (IF x > Limit THEN Limit ELSE IF x < -Limit THEN -Limit ELSE x)
  BY Clamps
<1>2. sn = (IF nominal > Limit THEN Limit ELSE IF nominal < -Limit THEN -Limit ELSE nominal)
  BY Clamps
<1>3. Gate!Executed(nominal, r) = sx - sn
  BY DEF Gate!Executed, Gate!Safe
<1>4. x \in Int /\ x = nominal + r
  OBVIOUS
<1> HIDE DEF sx, sn, x
<1>5. sx \in Int /\ sn \in Int
  BY <1>1, <1>2, <1>4
<1> QED BY <1>1, <1>2, <1>3, <1>4, <1>5

LEMMA GateApply ==
  ASSUME GateInv, Gate!ApplyActions
  PROVE  GateInv'
<1> USE GateConstants
<1>1. PICK nominal \in Nominals, pull \in Pulls, blend \in BOOLEAN :
        asked' = Gate!Residual(blend, pull) /\ gExecuted' = Gate!Executed(nominal, asked')
  BY DEF Gate!ApplyActions
<1>2. request \in Int /\ gate \in 0..MaxAuthority
  BY DEF GateInv, GateTypes, Gate!TypeOK
<1>3. request * gate \in Int /\ (gate = 0 => request * gate = 0)
  BY <1>2
<1> DEFINE product == request * gate
<1>4. asked' = IF class = "direct" THEN product ELSE IF blend THEN product + pull ELSE 0
  BY <1>1 DEF Gate!Residual
<1>5. product \in Int /\ (gate = 0 => product = 0) /\ product = request * gate
  BY <1>3
<1> HIDE DEF product
<1>6. asked' \in Int /\ (class = "direct" => asked' = product)
  BY <1>1, <1>4, <1>5
<1>7. /\ gExecuted' \in -(2 * Limit)..(2 * Limit)
      /\ asked' = 0 => gExecuted' = 0
      /\ gExecuted' \in {0} \cup 0..asked' \cup asked'..0
  BY <1>1, <1>6, ExecutedFacts
<1>8. /\ gate' = gate /\ request' = request /\ applied' = gate /\ actorGate' = actorGate
      /\ pc = "apply" /\ pc' \in {"apply", "done"} /\ feedback' = feedback
      /\ previousGate' = previousGate /\ class' = class /\ supervised' = supervised
      /\ f' = f /\ run' = run /\ rested' = rested /\ past' = past
      /\ history' = history /\ previousExecuted' = previousExecuted
  BY DEF Gate!ApplyActions, Gate!filterVars
<1>9. GateTypes'
  BY <1>6, <1>7, <1>8 DEF GateInv, GateTypes, Gate!TypeOK
<1>10. Rested'
  BY <1>8 DEF GateInv, Rested, Gate!BurstIsBounded
<1>11. request' * applied' = product
  BY <1>5, <1>8
<1>12. Granted'
  BY <1>5, <1>6, <1>7, <1>8, <1>11
     DEF GateInv, Granted, Gate!MaskIsAuthorityApplied, Gate!ZeroGateExecutesNothing,
         Gate!ExecutedIsWithinRequest, Gate!FeedbackLagsOneStep
<1>13. \A k : \A field : Ago(k, field)' = Ago(k, field)
  BY <1>8 DEF Ago
<1>14. Remembered'
  BY <1>8, <1>13 DEF GateInv, Remembered
<1> QED BY <1>9, <1>10, <1>12, <1>14 DEF GateInv

\* Appending to what is kept of the past shifts it by one.
LEMMA PastShifts ==
  ASSUME GateTypes, NEW e \in [request : Int, executed : -(2 * Limit)..(2 * Limit)],
         past' = Append(Gate!Keep(past), e), NEW field
  PROVE  /\ past' \in Seq([request : Int, executed : -(2 * Limit)..(2 * Limit)])
         /\ Ago(1, field)' = e[field]
         /\ Ago(2, field)' = Ago(1, field)
<1>1. CASE Len(past) > 1
  <2>1. Gate!Keep(past) = Tail(past)
    BY <1>1 DEF Gate!Keep
  <2>2. /\ Tail(past) \in Seq([request : Int, executed : -(2 * Limit)..(2 * Limit)])
        /\ Len(Tail(past)) = Len(past) - 1
        /\ \A i \in 1..(Len(past) - 1) : Tail(past)[i] = past[i + 1]
    BY <1>1 DEF GateTypes
  <2> DEFINE t == Tail(past)
             n == Len(past)
  <2>5. n \in Nat /\ n > 1
    BY <1>1 DEF GateTypes
  <2>6. /\ t \in Seq([request : Int, executed : -(2 * Limit)..(2 * Limit)])
        /\ Len(t) = n - 1 /\ past' = Append(t, e)
        /\ t[n - 1] = past[n]
    BY <2>1, <2>2, <2>5
  <2> HIDE DEF t, n
  <2>7. Len(past') = n /\ past'[n] = e /\ past'[n - 1] = t[n - 1]
    <3>1. /\ Len(past') = Len(t) + 1 /\ past'[Len(t) + 1] = e
          /\ \A i \in 1..Len(t) : past'[i] = t[i]
      BY <2>6
    <3>2. Len(t) + 1 = n /\ n - 1 \in 1..Len(t)
      BY <2>5, <2>6
    <3> QED BY <3>1, <3>2
  <2>3. /\ Len(past') = Len(past) /\ past'[Len(past)] = e
        /\ past'[Len(past) - 1] = past[Len(past)]
    BY <2>6, <2>7 DEF n
  <2>4. past' \in Seq([request : Int, executed : -(2 * Limit)..(2 * Limit)])
    BY <2>1, <2>2
  <2>8. ~(Len(past') < 1) /\ ~(Len(past') < 2) /\ ~(Len(past) < 1)
    BY <2>3, <2>5 DEF n
  <2>9. Len(past) - 2 + 1 = Len(past) - 1 /\ Len(past) - 1 + 1 = Len(past)
    BY <2>5 DEF n
  <2> QED BY <2>3, <2>4, <2>8, <2>9 DEF Ago
<1>2. CASE Len(past) <= 1
  <2>1. Gate!Keep(past) = past
    BY <1>2 DEF Gate!Keep, GateTypes
  <2> QED BY <1>2, <2>1 DEF Ago, GateTypes
<1> QED BY <1>1, <1>2 DEF GateTypes

LEMMA GateContinue ==
  ASSUME GateInv, Gate!Continue
  PROVE  GateInv'
<1> DEFINE e == [request |-> request, executed |-> gExecuted]
<1>1. e \in [request : Int, executed : -(2 * Limit)..(2 * Limit)]
  BY DEF GateInv, GateTypes, Gate!TypeOK
<1>2. past' = Append(Gate!Keep(past), e)
  BY DEF Gate!Continue
<1> HIDE DEF e
<1>3. \A field : /\ past' \in Seq([request : Int, executed : -(2 * Limit)..(2 * Limit)])
                 /\ Ago(1, field)' = e[field]
                 /\ Ago(2, field)' = Ago(1, field)
  BY <1>1, <1>2, PastShifts DEF GateInv
<1>4. GateTypes'
  BY <1>3 DEF GateInv, GateTypes, Gate!TypeOK, Gate!Continue, Gate!filterVars
<1>5. Rested'
  BY DEF GateInv, Rested, Gate!BurstIsBounded, Gate!Continue, Gate!filterVars
<1>6. Granted'
  BY DEF GateInv, Granted, Gate!MaskIsAuthorityApplied, Gate!ZeroGateExecutesNothing,
         Gate!ExecutedIsWithinRequest, Gate!FeedbackLagsOneStep, Gate!Continue
<1>7. e.request = request /\ e.executed = gExecuted
  BY DEF e
<1>8. class # "direct" => history[1] = Ago(1, "request")
  BY DEF GateInv, Remembered, Gate!Continue
<1>9. Remembered'
  BY <1>3, <1>7, <1>8 DEF Remembered, Gate!Continue
<1> QED BY <1>4, <1>5, <1>6, <1>9 DEF GateInv

LEMMA GateReset ==
  ASSUME GateInv, Gate!Reset
  PROVE  GateInv'
<1>1. f' = Gate!Idle
  BY DEF Gate!Reset, Gate!ResetAuthority
<1>2. /\ pc = "done" /\ pc' = "record" /\ class' = class /\ supervised' = supervised /\ asked' = asked
      /\ applied' = applied /\ gExecuted' = 0 /\ previousExecuted' = 0 /\ feedback' = 0
      /\ past' = <<>> /\ run' = 0 /\ rested' = FALSE /\ actorGate' = actorGate
      /\ gate' = Gate!Ungated /\ previousGate' = Gate!Ungated
      /\ IF class = "direct" THEN request' = request /\ history' = history
         ELSE request' = 0 /\ history' = <<0, 0>>
  BY DEF Gate!Reset, Gate!ResetGate, Gate!ResetHistory, Gate!ResetFeedback
<1>3. f' \in [authority : 0..MaxAuthority, activeAge : 0..MaxActive, quietAge : 0..Rearm,
              active : BOOLEAN, armed : BOOLEAN, onset : Onsets \cup {0}, primed : BOOLEAN]
  <2>1. 0 \in 0..MaxAuthority /\ 0 \in 0..MaxActive /\ 0 \in 0..Rearm
    BY GateConstants
  <2> QED BY <1>1, <2>1, Zenon DEF Gate!Idle
<1>4. GateTypes'
  <2>1. Gate!Ungated \in 0..MaxAuthority
    BY GateConstants DEF Gate!Ungated
  <2>2. history' \in (-1..1) \X (-1..1) /\ request' \in Int /\ (class' # "direct" => request' \in -1..1)
    BY <1>2 DEF GateInv, GateTypes, Gate!TypeOK
  <2>3. past' \in Seq([request : Int, executed : -(2 * Limit)..(2 * Limit)]) /\ run' \in 0..Rearm
    BY <1>2, GateConstants
  <2>4. /\ class' \in {"direct", "blend", "feedback"} /\ supervised' \in BOOLEAN
        /\ asked' \in Int /\ pc' \in {"policy", "apply", "done", "record"}
    BY <1>2 DEF GateInv, GateTypes, Gate!TypeOK
  <2>5. {gate', previousGate', actorGate', applied'} \subseteq 0..MaxAuthority
    BY <1>2, <2>1 DEF GateInv, GateTypes, Gate!TypeOK
  <2>6. /\ {gExecuted', previousExecuted'} \subseteq -(2 * Limit)..(2 * Limit)
        /\ feedback' \in -MaxAuthority..MaxAuthority
    BY <1>2, GateConstants
  <2> QED BY <1>3, <2>2, <2>3, <2>4, <2>5, <2>6 DEF GateTypes, Gate!TypeOK
<1>5. Rested'
  <2>1. ~f'.active /\ ~f'.armed /\ f'.authority = 0 /\ f'.quietAge = 0
    BY <1>1 DEF Gate!Idle
  <2> QED BY <1>2, <2>1, GateConstants DEF Rested, Gate!BurstIsBounded
<1>6. Granted'
  BY <1>2 DEF GateInv, Granted, Gate!MaskIsAuthorityApplied, Gate!ZeroGateExecutesNothing,
         Gate!ExecutedIsWithinRequest, Gate!FeedbackLagsOneStep
<1>7. Remembered'
  BY <1>2 DEF Remembered, Ago
<1> QED BY <1>4, <1>5, <1>6, <1>7 DEF GateInv

LEMMA GateRecord ==
  ASSUME GateInv, Gate!Record \/ UNCHANGED gateVars
  PROVE  GateInv'
<1>1. UNCHANGED <<class, supervised, f, gate, previousGate, actorGate, request, history, asked,
                  gExecuted, previousExecuted, feedback, applied, past, rested, run>>
  BY DEF Gate!Record, Gate!filterVars, gateVars
<1>2. pc' = pc \/ (pc = "record" /\ pc' = "policy")
  BY DEF Gate!Record, gateVars
<1>3. GateTypes'
  BY <1>1, <1>2 DEF GateInv, GateTypes, Gate!TypeOK
<1>4. Rested'
  BY <1>1 DEF GateInv, Rested, Gate!BurstIsBounded
<1>5. Granted'
  BY <1>1, <1>2
     DEF GateInv, Granted, Gate!MaskIsAuthorityApplied, Gate!ZeroGateExecutesNothing,
         Gate!ExecutedIsWithinRequest, Gate!FeedbackLagsOneStep
<1>6. Remembered'
  BY <1>1, <1>2 DEF GateInv, Remembered, Ago
<1> QED BY <1>3, <1>4, <1>5, <1>6 DEF GateInv

LEMMA GateInvariant ==
  /\ Gate!Init => GateInv
  /\ GateInv /\ [Gate!Next]_gateVars => GateInv'
<1> USE GateConstants
<1>1. ASSUME Gate!Init PROVE GateInv
  <2> USE <1>1 DEF Gate!Init, Gate!Ungated
  <2>1. f \in [authority : 0..MaxAuthority, activeAge : 0..MaxActive, quietAge : 0..Rearm,
               active : BOOLEAN, armed : BOOLEAN, onset : Onsets \cup {0}, primed : BOOLEAN]
    <3>1. 0 \in 0..MaxAuthority /\ 0 \in 0..MaxActive /\ 0 \in 0..Rearm
      OBVIOUS
    <3>2. f = Gate!Idle
      OBVIOUS
    <3> HIDE DEF Gate!Init
    <3> QED BY <3>1, <3>2, Zenon DEF Gate!Idle
  <2>2. GateTypes
    BY <2>1 DEF GateTypes, Gate!TypeOK
  <2>3. ~f.active /\ ~f.armed /\ f.authority = 0 /\ f.quietAge = 0
    BY DEF Gate!Idle
  <2>4. Rested
    BY <2>3 DEF Rested, Gate!BurstIsBounded
  <2>5. Granted
    BY DEF Granted, Gate!MaskIsAuthorityApplied, Gate!ZeroGateExecutesNothing,
           Gate!ExecutedIsWithinRequest, Gate!FeedbackLagsOneStep
  <2>6. Remembered
    BY DEF Remembered, Ago
  <2> QED BY <2>2, <2>4, <2>5, <2>6 DEF GateInv
<1>2. ASSUME GateInv, [Gate!Next]_gateVars PROVE GateInv'
  BY <1>2, GateProcess, GateApply, GateContinue, GateReset, GateRecord DEF Gate!Next
<1> QED BY <1>1, <1>2

\* A burst that starts was armed, and what is armed has rested.
LEMMA BurstsNeedRest ==
  ASSUME GateInv, [Gate!Next]_gateVars, ~f.active, f'.active
  PROVE  rested
<1>1. CASE Gate!ProcessActions
  <2>0. supervised
    BY <1>1 DEF Gate!ProcessActions, Gate!UpdateGate, Gate!filterVars
  <2>1. PICK m \in Gate!Measurements :
          \E level \in Gate!FilterAuthority(f.authority, m.target) : Gate!Supervise(m, level)
    BY <1>1, <2>0 DEF Gate!ProcessActions, Gate!UpdateGate
  <2>2. PICK level \in Gate!FilterAuthority(f.authority, m.target) :
            f' = Gate!Updated(m, Gate!Burst(m, level))
    BY <2>1, Zenon DEF Gate!Supervise
  <2>3. f'.active = Gate!Burst(m, level).active
    BY <2>2 DEF Gate!Updated
  <2>4. Gate!Starts(m)
    BY <2>3, BurstFacts, Zenon
  <2> QED BY <2>4, StartsAreLoud DEF GateInv, Rested
<1>2. CASE Gate!Reset
  BY <1>2 DEF Gate!Reset, Gate!ResetAuthority, Gate!Idle
<1>3. CASE Gate!ApplyActions \/ Gate!Continue \/ Gate!Record \/ UNCHANGED gateVars
  BY <1>3 DEF Gate!ApplyActions, Gate!Continue, Gate!Record, Gate!filterVars, gateVars
<1> QED BY <1>1, <1>2, <1>3 DEF Gate!Next

-----------------------------------------------------------------------------
(***************************************************************************)
(* The feedback action.                                                    *)
(***************************************************************************)

LEMMA FeedbackConstants ==
  /\ Frameskip \in Nat \ {0} /\ Decimation \in Nat \ {0} /\ Decimation % Frameskip = 0
  /\ Gated \in BOOLEAN /\ TorqueChannel \in BOOLEAN /\ MaxSteps \in Nat
BY PartsAssumption DEF Feedback!FeedbackAssumption

\* Quotient and remainder determine each other.
LEMMA RemainderIs ==
  ASSUME NEW n \in Nat, NEW b \in Nat \ {0}, NEW q \in Nat, NEW r \in 0..(b - 1), n = q * b + r
  PROVE  n % b = r
<1>0. b > 0
  OBVIOUS
<1>1. n % b \in 0..(b - 1) /\ n \div b \in Nat /\ n = b * (n \div b) + (n % b)
  BY <1>0
<1> DEFINE d == n \div b
           s == n % b
<1>2. d \in Nat /\ s \in 0..(b - 1) /\ q * b + r = d * b + s
  BY <1>1
<1> HIDE DEF d, s
<1>3. CASE d >= q + 1
  <2>1. d * b >= (q + 1) * b /\ (q + 1) * b = q * b + b
    BY <1>2, <1>3
  <2> QED BY <1>2, <2>1
<1>4. CASE q >= d + 1
  <2>1. q * b >= (d + 1) * b /\ (d + 1) * b = d * b + b
    BY <1>2, <1>4
  <2> QED BY <1>2, <2>1
<1>5. CASE d = q
  BY <1>2, <1>5 DEF s
<1> QED BY <1>2, <1>3, <1>4, <1>5

\* A policy step begins with a control period, since its substeps are a multiple of those
\* of one.
LEMMA StepsBeginPeriods ==
  ASSUME NEW k \in Nat
  PROVE  (k * Decimation) % Frameskip = 0
<1> USE FeedbackConstants
<1> DEFINE m == Decimation \div Frameskip
<1>0. Frameskip > 0
  OBVIOUS
<1>1. m \in Nat /\ Decimation = Frameskip * m + (Decimation % Frameskip)
  BY <1>0
<1> HIDE DEF m
<1>2. Decimation = m * Frameskip /\ k * m \in Nat
  BY <1>1
<1>3. k * Decimation = (k * m) * Frameskip + 0
  BY <1>1, <1>2
<1>4. k * Decimation \in Nat /\ 0 \in 0..(Frameskip - 1)
  OBVIOUS
<1> DEFINE n == k * Decimation
           q == k * m
<1>5. n \in Nat /\ q \in Nat /\ n = q * Frameskip + 0
  BY <1>2, <1>3, <1>4
<1> HIDE DEF n, q
<1>6. n % Frameskip = 0
  BY <1>4, <1>5, RemainderIs
<1> QED BY <1>6 DEF n

Episode == start + 1

FeedbackTypes ==
  /\ Feedback!TypeOK
  /\ told \in [offset : 0..step, reference : 0..Episode, reset : BOOLEAN]
  /\ efforts \in Seq(0..MaxSteps)

\* The policy step has had `substeps` of its substeps, and the first of them told the
\* controller its offset and its reference.
StepProgress ==
  /\ \E k \in Nat : fSubstep = k * Decimation + (IF fPc = "apply" THEN substeps ELSE 0)
  /\ fPc = "apply" => substeps < Decimation
  /\ fPc = "end" => substeps = Decimation
  /\ fPc # "process" =>
       /\ \A i \in DOMAIN efforts : efforts[i] = step
       /\ offset \in {0, step} /\ fExecuted = Episode
  /\ fPc = "end" \/ (fPc = "apply" /\ substeps > 0) =>
       told.offset = offset /\ told.reference = fExecuted
  /\ fCommand = Episode

\* A controller that is not asked to reset works on this episode.
EpisodeKept ==
  /\ ~fPendingReset => fNative = Episode
  /\ inFlight /\ ~told.reset => fNative = Episode
  /\ Feedback!ReadoutIsThisEpisodes

Taken(s) == IF TorqueChannel /\ s > start THEN s ELSE 0

ActionsKept == actions = <<Taken(step), Taken(step - 1), Taken(step - 2)>>

FeedbackInv == FeedbackTypes /\ StepProgress /\ EpisodeKept /\ ActionsKept

LEMMA FeedbackProcess ==
  ASSUME FeedbackInv, Feedback!ProcessActions
  PROVE  FeedbackInv'
<1> USE FeedbackConstants
<1>1. /\ fPc = "process" /\ fPc' = "apply" /\ step < MaxSteps /\ step' = step + 1
      /\ offset' = (IF fGate = 1 THEN step + 1 ELSE 0)
      /\ efforts' = <<>> /\ substeps' = 0
      /\ actions' = <<IF TorqueChannel THEN step' ELSE 0, actions[1], actions[2]>>
      /\ fGate' \in (IF Gated THEN 0..1 ELSE {fGate})
      /\ fExecuted' = fCommand
      /\ start' = start /\ fSubstep' = fSubstep /\ fCommand' = fCommand
      /\ block' = block /\ told' = told /\ feed' = feed
      /\ inFlight' = inFlight /\ fPendingReset' = fPendingReset /\ fNative' = fNative
      /\ fReadout' = fReadout /\ fresh' = fresh
  BY DEF Feedback!ProcessActions, Feedback!WalkingReference, Feedback!FeedbackOffset,
         Feedback!ClearedEfforts, Feedback!wire
<1>2. step \in 0..MaxSteps /\ start \in 0..step /\ step \in Nat /\ start \in Nat /\ step' \in Nat
  BY <1>1 DEF FeedbackInv, FeedbackTypes, Feedback!TypeOK
<1>3. ActionsKept'
  <2>1. actions[1] = Taken(step) /\ actions[2] = Taken(step - 1)
    BY DEF FeedbackInv, ActionsKept
  <2>2. Taken(step)' = (IF TorqueChannel THEN step' ELSE 0)
    BY <1>1, <1>2 DEF Taken
  <2>3. Taken(step - 1)' = Taken(step) /\ Taken(step - 2)' = Taken(step - 1)
    BY <1>1, <1>2 DEF Taken
  <2> QED BY <1>1, <2>1, <2>2, <2>3 DEF ActionsKept
<1>4. /\ actions'[1] \in 0..step' /\ actions'[2] \in 0..step' /\ actions'[3] \in 0..step'
      /\ offset' \in 0..step' /\ fGate' \in 0..1
  <2>1. /\ actions[1] \in 0..step /\ actions[2] \in 0..step
        /\ fGate \in 0..1
    BY DEF FeedbackInv, FeedbackTypes, Feedback!TypeOK
  <2>2. /\ actions'[1] = (IF TorqueChannel THEN step' ELSE 0)
        /\ actions'[2] = actions[1] /\ actions'[3] = actions[2]
    BY <1>1
  <2>3. fGate' \in 0..1 /\ offset' \in 0..step'
    BY <1>1, <1>2, <2>1
  <2> QED BY <1>1, <1>2, <2>1, <2>2, <2>3
<1>5. told' \in [offset : 0..step', reference : 0..Episode', reset : BOOLEAN]
  <2>1. told \in [offset : 0..step, reference : 0..Episode, reset : BOOLEAN]
    BY DEF FeedbackInv, FeedbackTypes
  <2>2. 0..step \subseteq 0..step' /\ Episode' = Episode
    BY <1>1, <1>2 DEF Episode
  <2> QED BY <1>1, <2>1, <2>2
<1>6. Feedback!TypeOK'
  <2>1. told'.offset \in 0..step' /\ fExecuted' \in 0..(start' + 1)
    BY <1>1, <1>5 DEF FeedbackInv, FeedbackTypes, Feedback!TypeOK
  <2>2. inFlight' \in BOOLEAN /\ fPendingReset' \in BOOLEAN /\ fresh' \in BOOLEAN
    BY <1>1, Zenon DEF FeedbackInv, FeedbackTypes, Feedback!TypeOK
  <2>3. step' \in 0..MaxSteps /\ start' \in 0..step'
    BY <1>1, <1>2
  <2>4. {feed', fCommand', fNative', fReadout'} \subseteq 0..(start' + 1) /\ fSubstep' \in Nat
    BY <1>1 DEF FeedbackInv, FeedbackTypes, Feedback!TypeOK
  <2>5. substeps' \in 0..Decimation /\ Len(efforts') = substeps'
    BY <1>1
  <2> QED BY <1>1, <1>4, <2>1, <2>2, <2>3, <2>4, <2>5 DEF Feedback!TypeOK
<1>7. FeedbackTypes'
  <2>1. efforts' \in Seq(0..MaxSteps)
    BY <1>1
  <2> QED BY <1>5, <1>6, <2>1 DEF FeedbackTypes
<1>8. StepProgress'
  <2>1. PICK k \in Nat : fSubstep = k * Decimation + 0
    BY <1>1 DEF FeedbackInv, StepProgress
  <2>2. fSubstep' = k * Decimation + substeps'
    BY <1>1, <2>1
  <2>3. offset' \in {0, step'} /\ fExecuted' = Episode' /\ fCommand' = Episode'
    BY <1>1 DEF FeedbackInv, StepProgress, Episode
  <2> QED BY <1>1, <2>2, <2>3 DEF StepProgress
<1>9. EpisodeKept'
  BY <1>1 DEF FeedbackInv, EpisodeKept, Episode, Feedback!ReadoutIsThisEpisodes, Feedback!Episode
<1> QED BY <1>3, <1>7, <1>8, <1>9 DEF FeedbackInv

\* A control period: the row of the outstanding dispatch is collected and the next one told.
LEMMA PeriodFacts ==
  ASSUME FeedbackInv, NEW answer \in Feedback!Statuses, Feedback!Advance(answer),
         inFlight' = TRUE, UNCHANGED <<step, start, offset, fExecuted>>
  PROVE  /\ told' \in [offset : 0..step, reference : 0..Episode, reset : BOOLEAN]
         /\ told'.offset = offset /\ told'.reference = fExecuted
         /\ {feed', fNative', fReadout'} \subseteq 0..Episode
         /\ fPendingReset' \in BOOLEAN /\ fresh' \in BOOLEAN
         /\ EpisodeKept'
<1>1. /\ feed' = fExecuted /\ told' = [offset |-> offset, reference |-> fExecuted, reset |-> fPendingReset']
      /\ Feedback!Collect(answer)
  <2>1. Feedback!Filled = offset
    BY DEF FeedbackInv, FeedbackTypes, Feedback!TypeOK, Feedback!Filled, Feedback!Biased,
           Feedback!Measured
  <2> QED BY <2>1 DEF Feedback!Advance, Feedback!Fed
<1>2. /\ offset \in 0..step /\ {fExecuted, fNative, fReadout} \subseteq 0..Episode
      /\ start \in Nat /\ Episode' = Episode
  BY DEF FeedbackInv, FeedbackTypes, Feedback!TypeOK, Episode
<1>3. fPendingReset \in BOOLEAN /\ fresh \in BOOLEAN /\ inFlight \in BOOLEAN
  BY Zenon DEF FeedbackInv, FeedbackTypes, Feedback!TypeOK
<1>4. EpisodeKept
  BY DEF FeedbackInv
<1>5. Feedback!Episode = Episode /\ Episode \in 0..Episode
  BY <1>2 DEF Feedback!Episode, Episode
<1>6. CASE inFlight
  <2>1. /\ fNative' = (IF told.reset /\ answer # "worker_failed" THEN Episode ELSE fNative)
        /\ fPendingReset' = (answer = "worker_failed" \/ (fPendingReset /\ ~told.reset))
        /\ fresh' = (answer = "ok")
        /\ fReadout' = (IF answer = "ok" THEN fNative' ELSE fReadout)
    BY <1>1, <1>5, <1>6 DEF Feedback!Collect
  <2>2. fPendingReset' \in BOOLEAN /\ fresh' \in BOOLEAN
    BY <2>1, Zenon
  <2>3. ~fPendingReset' => fNative' = Episode
    BY <1>4, <1>6, <2>1 DEF EpisodeKept
  <2>4. fresh' => fNative' = Episode
    BY <1>4, <1>6, <2>1 DEF EpisodeKept
  <2>5. fReadout' \in {0, Episode} /\ (fresh' => fReadout' = Episode)
    BY <1>4, <2>1, <2>4 DEF EpisodeKept, Feedback!ReadoutIsThisEpisodes, Feedback!Episode, Episode
  <2>6. fNative' \in 0..Episode
    BY <1>2, <1>5, <2>1
  <2> QED BY <1>1, <1>2, <1>5, <2>2, <2>3, <2>5, <2>6
          DEF EpisodeKept, Feedback!ReadoutIsThisEpisodes, Feedback!Episode, Episode
<1>7. CASE ~inFlight
  <2>1. fNative' = fNative /\ fPendingReset' = fPendingReset /\ fresh' = fresh /\ fReadout' = fReadout
    BY <1>1, <1>7 DEF Feedback!Collect
  <2>2. fPendingReset' \in BOOLEAN /\ fresh' \in BOOLEAN
    BY <1>3, <2>1, Zenon
  <2> QED BY <1>1, <1>2, <1>4, <2>1, <2>2
          DEF EpisodeKept, Feedback!ReadoutIsThisEpisodes, Feedback!Episode, Episode
<1> QED BY <1>6, <1>7

LEMMA FeedbackApply ==
  ASSUME FeedbackInv, Feedback!ApplyActions
  PROVE  FeedbackInv'
<1> USE FeedbackConstants
<1> DEFINE dispatches == fSubstep % Frameskip = 0
<1>1. /\ fPc = "apply" /\ fSubstep' = fSubstep + 1
      /\ efforts' = Append(efforts, step) /\ substeps' = substeps + 1
      /\ fPc' = (IF fSubstep' % Decimation = 0 THEN "end" ELSE "apply")
      /\ step' = step /\ start' = start /\ fGate' = fGate /\ actions' = actions
      /\ offset' = offset /\ fExecuted' = fExecuted /\ fCommand' = fCommand
  BY DEF Feedback!ApplyActions
<1>2. /\ step \in 0..MaxSteps /\ start \in 0..step /\ step \in Nat /\ start \in Nat
      /\ Len(efforts) = substeps /\ substeps < Decimation /\ substeps \in Nat
      /\ efforts \in Seq(0..MaxSteps)
  BY <1>1 DEF FeedbackInv, FeedbackTypes, StepProgress, Feedback!TypeOK
<1>3. PICK k \in Nat : fSubstep = k * Decimation + substeps
  BY <1>1 DEF FeedbackInv, StepProgress
<1>4. substeps = 0 => dispatches
  <2>1. k * Decimation \in Nat
    OBVIOUS
  <2> QED BY <1>3, <2>1, StepsBeginPeriods
<1>5. /\ told' \in [offset : 0..step, reference : 0..Episode, reset : BOOLEAN]
      /\ dispatches \/ substeps > 0 => told'.offset = offset /\ told'.reference = fExecuted
      /\ {feed', fNative', fReadout'} \subseteq 0..Episode
      /\ inFlight' \in BOOLEAN /\ fPendingReset' \in BOOLEAN /\ fresh' \in BOOLEAN
      /\ EpisodeKept'
  <2>1. CASE dispatches
    <3>1. PICK answer \in Feedback!Statuses : Feedback!Advance(answer) /\ inFlight' = TRUE
      BY <2>1, Zenon DEF Feedback!ApplyActions
    <3>2. inFlight' \in BOOLEAN
      BY <3>1, Zenon
    <3> QED BY <1>1, <3>1, <3>2, PeriodFacts
  <2>2. CASE ~dispatches
    <3>1. UNCHANGED <<block, told, feed, inFlight, fPendingReset, fNative, fReadout, fresh>>
      BY <2>2 DEF Feedback!ApplyActions, Feedback!wire
    <3>2. inFlight' \in BOOLEAN /\ fPendingReset' \in BOOLEAN /\ fresh' \in BOOLEAN
      BY <3>1, Zenon DEF FeedbackInv, FeedbackTypes, Feedback!TypeOK
    <3>3. substeps > 0 => told'.offset = offset /\ told'.reference = fExecuted
      BY <1>1, <3>1 DEF FeedbackInv, StepProgress
    <3>4. EpisodeKept'
      BY <1>1, <3>1 DEF FeedbackInv, EpisodeKept, Episode, Feedback!ReadoutIsThisEpisodes, Feedback!Episode
    <3> QED BY <2>2, <3>1, <3>2, <3>3, <3>4 DEF FeedbackInv, FeedbackTypes, Feedback!TypeOK, Episode
  <2> QED BY <2>1, <2>2
<1>6. told'.offset = offset /\ told'.reference = fExecuted
  BY <1>2, <1>4, <1>5
<1> HIDE DEF dispatches
<1>7. fSubstep' = k * Decimation + substeps' /\ fSubstep' \in Nat /\ substeps' \in 1..Decimation
  BY <1>1, <1>2, <1>3
<1>8. fPc' = (IF substeps' = Decimation THEN "end" ELSE "apply")
  <2>1. CASE substeps' = Decimation
    <3> DEFINE n == fSubstep'
    <3>1. n \in Nat /\ k + 1 \in Nat /\ n = (k + 1) * Decimation + 0 /\ 0 \in 0..(Decimation - 1)
      BY <1>7, <2>1
    <3> HIDE DEF n
    <3>2. n % Decimation = 0
      BY <3>1, RemainderIs
    <3> QED BY <1>1, <2>1, <3>2 DEF n
  <2>2. CASE substeps' # Decimation
    <3> DEFINE n == fSubstep'
               r == substeps'
    <3>1. n \in Nat /\ n = k * Decimation + r
      BY <1>7
    <3>3. r \in 0..(Decimation - 1) /\ r > 0
      BY <1>7, <2>2
    <3> HIDE DEF n, r
    <3>2. n % Decimation = r
      BY <3>1, <3>3, RemainderIs
    <3> QED BY <1>1, <2>2, <3>2, <3>3 DEF n, r
  <2> QED BY <2>1, <2>2
<1>9. /\ efforts' \in Seq(0..MaxSteps) /\ Len(efforts') = substeps'
      /\ \A i \in DOMAIN efforts' : efforts'[i] = step
  <2>1. \A i \in DOMAIN efforts : efforts[i] = step
    BY <1>1 DEF FeedbackInv, StepProgress
  <2> QED BY <1>1, <1>2, <2>1
<1>10. StepProgress'
  <2>1. \E j \in Nat : fSubstep' = j * Decimation + (IF fPc' = "apply" THEN substeps' ELSE 0)
    <3>1. CASE substeps' = Decimation
      <4>1. k + 1 \in Nat /\ fSubstep' = (k + 1) * Decimation + 0
        BY <1>7, <3>1
      <4> QED BY <1>8, <3>1, <4>1
    <3>2. CASE substeps' # Decimation
      BY <1>7, <1>8, <3>2
    <3> QED BY <3>1, <3>2
  <2>2. offset' \in {0, step'} /\ fExecuted' = Episode' /\ fCommand' = Episode'
    BY <1>1 DEF FeedbackInv, StepProgress, Episode
  <2>3. /\ fPc' = "apply" => substeps' < Decimation
        /\ fPc' = "end" => substeps' = Decimation
    BY <1>7, <1>8
  <2>4. \A i \in DOMAIN efforts' : efforts'[i] = step'
    BY <1>1, <1>9
  <2>5. told'.offset = offset' /\ told'.reference = fExecuted'
    BY <1>1, <1>6
  <2> QED BY <2>1, <2>2, <2>3, <2>4, <2>5 DEF StepProgress
<1>11. FeedbackTypes'
  <2>1. /\ actions'[1] \in 0..step' /\ actions'[2] \in 0..step' /\ actions'[3] \in 0..step'
        /\ offset' \in 0..step' /\ fGate' \in 0..1
        /\ {fExecuted', fCommand'} \subseteq 0..(start' + 1)
    BY <1>1 DEF FeedbackInv, FeedbackTypes, Feedback!TypeOK
  <2>2. told'.offset \in 0..step' /\ Episode' = start' + 1 /\ Episode' = Episode
    BY <1>1, <1>5 DEF Episode
  <2>3. {feed', fNative', fReadout'} \subseteq 0..(start' + 1)
    BY <1>5, <2>2
  <2>4. Feedback!TypeOK'
    BY <1>1, <1>2, <1>5, <1>7, <1>8, <1>9, <2>1, <2>2, <2>3 DEF Feedback!TypeOK
  <2> QED BY <1>1, <1>5, <1>9, <2>2, <2>4 DEF FeedbackTypes
<1>12. ActionsKept'
  BY <1>1 DEF FeedbackInv, ActionsKept, Taken
<1> QED BY <1>5, <1>10, <1>11, <1>12 DEF FeedbackInv

LEMMA FeedbackContinue ==
  ASSUME FeedbackInv, Feedback!Continue \/ UNCHANGED feedbackVars
  PROVE  FeedbackInv'
<1>1. UNCHANGED <<step, start, fSubstep, fGate, actions, offset, fExecuted, fCommand, block,
                  told, feed, inFlight, fPendingReset, fNative, fReadout, fresh, efforts, substeps>>
  BY DEF Feedback!Continue, Feedback!wire, feedbackVars
<1>2. fPc' = fPc \/ (fPc = "end" /\ fPc' = "process")
  BY DEF Feedback!Continue, feedbackVars
<1>3. inFlight' \in BOOLEAN /\ fPendingReset' \in BOOLEAN /\ fresh' \in BOOLEAN
  BY <1>1, Zenon DEF FeedbackInv, FeedbackTypes, Feedback!TypeOK
<1>4. FeedbackTypes'
  BY <1>1, <1>2, <1>3 DEF FeedbackInv, FeedbackTypes, Feedback!TypeOK, Episode
<1>5. StepProgress'
  BY <1>1, <1>2 DEF FeedbackInv, StepProgress, Episode
<1>6. EpisodeKept'
  BY <1>1 DEF FeedbackInv, EpisodeKept, Episode, Feedback!ReadoutIsThisEpisodes, Feedback!Episode
<1>7. ActionsKept'
  BY <1>1 DEF FeedbackInv, ActionsKept, Taken
<1> QED BY <1>4, <1>5, <1>6, <1>7 DEF FeedbackInv

LEMMA FeedbackReset ==
  ASSUME FeedbackInv, Feedback!Reset
  PROVE  FeedbackInv'
<1> USE FeedbackConstants
<1>1. PICK answer \in Feedback!Statuses : Feedback!ResetReadout(answer)
  BY Zenon DEF Feedback!Reset
<1>2. /\ fPc = "end" /\ fPc' = "process" /\ start' = step /\ fCommand' = step + 1
      /\ fGate' = (IF Gated THEN 0 ELSE 1) /\ actions' = <<0, 0, 0>>
      /\ offset' = 0 /\ fExecuted' = 0 /\ fPendingReset' = TRUE
      /\ efforts' = [i \in DOMAIN efforts |-> 0]
      /\ step' = step /\ fSubstep' = fSubstep /\ substeps' = substeps
      /\ block' = block /\ told' = told /\ feed' = feed
  BY DEF Feedback!Reset, Feedback!ResetActions, Feedback!wire
<1>3. /\ fReadout' = 0 /\ fresh' = FALSE /\ inFlight' = FALSE
      /\ fNative' \in {fNative, Episode}
  BY <1>1 DEF Feedback!ResetReadout, Feedback!Episode, Episode
<1>4. /\ step \in 0..MaxSteps /\ start \in 0..step /\ step \in Nat /\ start \in Nat
      /\ Len(efforts) = substeps /\ substeps \in 0..Decimation
      /\ efforts \in Seq(0..MaxSteps) /\ fSubstep \in Nat
      /\ {feed, fNative} \subseteq 0..Episode
  BY DEF FeedbackInv, FeedbackTypes, Feedback!TypeOK, Episode
<1>5. 0..Episode \subseteq 0..Episode' /\ Episode' = step + 1 /\ Episode \in 0..Episode
  BY <1>2, <1>4 DEF Episode
<1>6. told' \in [offset : 0..step', reference : 0..Episode', reset : BOOLEAN]
  BY <1>2, <1>5 DEF FeedbackInv, FeedbackTypes
<1>7. efforts' \in Seq(0..MaxSteps) /\ Len(efforts') = substeps'
  BY <1>2, <1>4
<1>8. inFlight' \in BOOLEAN /\ fPendingReset' \in BOOLEAN /\ fresh' \in BOOLEAN
  BY <1>2, <1>3, Zenon
<1>9. FeedbackTypes'
  <2>1. {feed', fNative'} \subseteq 0..(start' + 1)
    BY <1>2, <1>3, <1>4, <1>5
  <2>2. told'.offset \in 0..step'
    BY <1>6
  <2>3. Feedback!TypeOK'
    BY <1>2, <1>3, <1>4, <1>7, <1>8, <2>1, <2>2 DEF Feedback!TypeOK
  <2> QED BY <1>6, <1>7, <2>3 DEF FeedbackTypes
<1>10. StepProgress'
  <2>1. PICK k \in Nat : fSubstep = k * Decimation + 0
    BY <1>2 DEF FeedbackInv, StepProgress
  <2> QED BY <1>2, <1>5, <2>1 DEF StepProgress
<1>11. EpisodeKept'
  BY <1>2, <1>3 DEF EpisodeKept, Feedback!ReadoutIsThisEpisodes
<1>12. ActionsKept'
  BY <1>2, <1>4 DEF ActionsKept, Taken
<1> QED BY <1>9, <1>10, <1>11, <1>12 DEF FeedbackInv

LEMMA FeedbackInvariant ==
  /\ Feedback!Init => FeedbackInv
  /\ FeedbackInv /\ [Feedback!Next]_feedbackVars => FeedbackInv'
<1> USE FeedbackConstants
<1>1. ASSUME Feedback!Init PROVE FeedbackInv
  <2> USE <1>1 DEF Feedback!Init
  <2>1. inFlight \in BOOLEAN /\ fPendingReset \in BOOLEAN /\ fresh \in BOOLEAN
    BY Zenon
  <2>2. told \in [offset : 0..step, reference : 0..Episode, reset : BOOLEAN]
    <3>1. FALSE \in BOOLEAN /\ 0 \in 0..step /\ 0 \in 0..Episode
      BY DEF Episode
    <3>2. told = [offset |-> 0, reference |-> 0, reset |-> FALSE]
      OBVIOUS
    <3> HIDE DEF Feedback!Init
    <3> QED BY <3>1, <3>2, Zenon
  <2>3. efforts \in Seq(0..MaxSteps)
    OBVIOUS
  <2>4. FeedbackTypes
    BY <2>1, <2>2, <2>3 DEF FeedbackTypes, Feedback!TypeOK
  <2>5. StepProgress
    <3>1. 0 \in Nat /\ fSubstep = 0 * Decimation + 0
      OBVIOUS
    <3> QED BY <3>1 DEF StepProgress, Episode
  <2>6. EpisodeKept
    BY DEF EpisodeKept, Feedback!ReadoutIsThisEpisodes
  <2>7. ActionsKept
    BY DEF ActionsKept, Taken
  <2> QED BY <2>4, <2>5, <2>6, <2>7 DEF FeedbackInv
<1>2. ASSUME FeedbackInv, [Feedback!Next]_feedbackVars PROVE FeedbackInv'
  BY <1>2, FeedbackProcess, FeedbackApply, FeedbackContinue, FeedbackReset DEF Feedback!Next
<1> QED BY <1>1, <1>2

\* What the invariant says of the policy step.
LEMMA FeedbackIsOfItsEpisode ==
  ASSUME FeedbackInv
  PROVE  /\ Feedback!TypeOK /\ Feedback!ControllerHearsThisStep
         /\ Feedback!ReadoutIsThisEpisodes /\ Feedback!HistoryIsThisEpisodes
         /\ Feedback!EffortIsThisWindows
<1>1. Feedback!ControllerHearsThisStep
  BY DEF FeedbackInv, StepProgress, Feedback!ControllerHearsThisStep, Feedback!Episode, Episode
<1>2. Feedback!HistoryIsThisEpisodes
  BY DEF FeedbackInv, ActionsKept, Taken, Feedback!HistoryIsThisEpisodes
<1>3. Feedback!EffortIsThisWindows
  BY DEF FeedbackInv, StepProgress, Feedback!EffortIsThisWindows
<1> QED BY <1>1, <1>2, <1>3 DEF FeedbackInv, FeedbackTypes, EpisodeKept

-----------------------------------------------------------------------------
(***************************************************************************)
(* The datastore columns.                                                  *)
(***************************************************************************)

LEMMA SameCardinality ==
  ASSUME NEW S
  PROVE  Columns!Cardinality(S) = Cardinality(S)
BY Zenon DEF Columns!Cardinality, Cardinality

\* dict.fromkeys keeps every name, and each once.
LEMMA DistinctFacts ==
  ASSUME NEW S, NEW names \in Seq(S), NEW d, d = Columns!Distinct(names)
  PROVE  /\ Len(d) \in Nat /\ d \in [1..Len(d) -> Columns!ToSet(names)]
         /\ \A name \in Columns!ToSet(names) : \E k \in 1..Len(d) : d[k] = name
         /\ \A j, k \in 1..Len(d) : d[j] = d[k] => j = k
<1> DEFINE F == Columns!Firsts(names)
           n == Cardinality(F)
           upto == [i \in F |-> {j \in F : j <= i}]
           rank == [i \in F |-> Cardinality(upto[i])]
           At(k) == CHOOSE i \in F : Columns!Rank(names, i) = k
<1>1. F \subseteq 1..Len(names) /\ Len(names) \in Nat /\ DOMAIN names = 1..Len(names)
  BY DEF Columns!Firsts
<1>2. F \subseteq Nat /\ IsFiniteSet(F)
  <2>1. IsFiniteSet(1..Len(names))
    BY <1>1, FS_Interval
  <2> QED BY <1>1, <2>1, FS_Subset
<1>3. \A i \in F : rank[i] = Columns!Rank(names, i)
  BY SameCardinality DEF Columns!Rank
<1>4. /\ n \in Nat /\ rank \in [F -> 1..n]
      /\ \A k \in 1..n : \E i \in F : rank[i] = k
      /\ \A i, j \in F : rank[i] = rank[j] => i = j
  <2>1. upto \in [F -> SUBSET F] /\ \A i \in F : i \in upto[i]
    BY <1>2
  <2>2. \A i, j \in F : i # j =>
          \/ upto[i] \subseteq upto[j] /\ j \notin upto[i]
          \/ upto[j] \subseteq upto[i] /\ i \notin upto[j]
    <3> SUFFICES ASSUME NEW i \in F, NEW j \in F, i # j
                 PROVE  \/ upto[i] \subseteq upto[j] /\ j \notin upto[i]
                        \/ upto[j] \subseteq upto[i] /\ i \notin upto[j]
      OBVIOUS
    <3>1. i \in Nat /\ j \in Nat /\ \A l \in F : l \in Nat
      BY <1>2
    <3> HIDE DEF F
    <3>2. ASSUME NEW l \in F, NEW m \in F, l < m
          PROVE  upto[l] \subseteq upto[m] /\ m \notin upto[l]
      <4>1. \A x \in F : x <= l => x <= m
        BY <3>1, <3>2
      <4>2. ~(m <= l)
        BY <3>1, <3>2
      <4> QED BY <4>1, <4>2
    <3>3. i < j \/ j < i
      BY <3>1
    <3> QED BY <3>2, <3>3
  <2>3. IsFiniteSet(F) /\ rank = [i \in F |-> Cardinality(upto[i])]
    BY <1>2
  <2> HIDE DEF F, upto, rank
  <2> QED BY <2>1, <2>2, <2>3, RanksNumber
<1>5. d = [k \in 1..n |-> names[At(k)]]
  BY SameCardinality DEF Columns!Distinct
<1> HIDE DEF F, rank, upto
<1>6. \A k \in 1..n : At(k) \in F /\ Columns!Rank(names, At(k)) = k
  BY <1>3, <1>4
<1>7. \A i \in F : At(Columns!Rank(names, i)) = i
  BY <1>3, <1>4
<1> HIDE DEF At
<1>8. Len(d) = n
  BY <1>4, <1>5
<1>9. \A i, j \in F : names[i] = names[j] => i = j
  <2> SUFFICES ASSUME NEW i \in F, NEW j \in F, names[i] = names[j] PROVE i = j
    OBVIOUS
  <2>1. i \in Nat /\ j \in Nat /\ i \in 1..Len(names) /\ j \in 1..Len(names)
    BY <1>1, <1>2
  <2>2. ~(i < j) /\ ~(j < i)
    BY <2>1 DEF F, Columns!Firsts
  <2> QED BY <2>1, <2>2
<1>10. ASSUME NEW name \in Columns!ToSet(names)
       PROVE  \E i \in F : names[i] = name
  <2> DEFINE T == {i \in 1..Len(names) : names[i] = name}
  <2>1. T \subseteq Nat /\ T # {}
    BY <1>1 DEF Columns!ToSet
  <2>2. PICK x \in T : \A y \in T : x <= y
    BY <2>1, LeastNumber
  <2>3. \A j \in 1..x - 1 : names[j] # names[x]
    BY <1>1, <2>2
  <2>4. x \in F
    BY <1>1, <2>2, <2>3 DEF F, Columns!Firsts
  <2> QED BY <2>2, <2>4
<1>11. \A name \in Columns!ToSet(names) : \E k \in 1..Len(d) : d[k] = name
  <2> SUFFICES ASSUME NEW name \in Columns!ToSet(names) PROVE \E k \in 1..n : d[k] = name
    BY <1>8
  <2>1. PICK i \in F : names[i] = name
    BY <1>10
  <2>2. Columns!Rank(names, i) \in 1..n
    BY <1>3, <1>4
  <2> QED BY <1>5, <1>7, <2>1, <2>2
<1>12. \A j, k \in 1..n : d[j] = d[k] => j = k
  BY <1>5, <1>6, <1>9
<1>13. d \in [1..n -> Columns!ToSet(names)]
  BY <1>1, <1>5, <1>6 DEF Columns!ToSet
<1> QED BY <1>4, <1>8, <1>11, <1>12, <1>13

Kinds == {"scalarIn", "vectorIn", "scalarOut", "vectorOut"}

LEMMA ColumnConstants ==
  /\ Simulated \in Nat /\ Controlled \in Nat /\ MaxFeeds \in Nat
  /\ Configurations \subseteq [Kinds -> Seq(STRING)]
BY PartsAssumption DEF Columns!ColumnsAssumption, Kinds

Names(form) == Columns!ToSet(cfg[form])
Count(form) == Len(Columns!Layout[form])
Place(form, n) == Columns!Index(Columns!Layout[form], n)

\* The layout of a kind lists its names once each, and every name has its place in it.
LEMMA LayoutFacts ==
  ASSUME cfg \in Configurations, NEW form \in Kinds
  PROVE  /\ Count(form) \in Nat /\ Columns!Layout[form] \in [1..Count(form) -> Names(form)]
         /\ \A k \in 0..Count(form) - 1 :
              /\ Columns!Layout[form][k + 1] \in Names(form)
              /\ Place(form, Columns!Layout[form][k + 1]) = k
         /\ \A n \in Names(form) :
              Place(form, n) \in 0..Count(form) - 1 /\ Columns!Layout[form][Place(form, n) + 1] = n
         /\ \A m, n \in Names(form) : Place(form, m) = Place(form, n) => m = n
<1> USE ColumnConstants
<1> DEFINE L == Columns!Layout[form]
<1>1. cfg[form] \in Seq(STRING) /\ DOMAIN cfg = Kinds
  OBVIOUS
<1>2. L = Columns!Distinct(cfg[form])
  BY <1>1 DEF Columns!Layout
<1> HIDE DEF L
<1>3. /\ Len(L) \in Nat /\ L \in [1..Len(L) -> Names(form)]
      /\ \A name \in Names(form) : \E k \in 1..Len(L) : L[k] = name
      /\ \A j, k \in 1..Len(L) : L[j] = L[k] => j = k
  BY <1>1, <1>2, DistinctFacts DEF Names
<1>4. ASSUME NEW n \in Names(form)
      PROVE  /\ Place(form, n) \in 0..Len(L) - 1 /\ L[Place(form, n) + 1] = n
  <2> DEFINE i == CHOOSE i \in DOMAIN L : L[i] = n
  <2>1. i \in 1..Len(L) /\ L[i] = n
    BY <1>3
  <2>2. Place(form, n) = i - 1
    BY DEF Place, Columns!Index, L
  <2> HIDE DEF i
  <2>3. Place(form, n) + 1 = i
    BY <1>3, <2>1, <2>2
  <2> QED BY <1>3, <2>1, <2>2, <2>3
<1>5. \A m, n \in Names(form) : Place(form, m) = Place(form, n) => m = n
  BY <1>4
<1>6. ASSUME NEW k \in 0..Len(L) - 1
      PROVE  L[k + 1] \in Names(form) /\ Place(form, L[k + 1]) = k
  <2>1. k + 1 \in 1..Len(L) /\ k \in Int
    BY <1>3
  <2>2. L[k + 1] \in Names(form)
    BY <1>3, <2>1
  <2> DEFINE p == Place(form, L[k + 1])
  <2>3. p \in 0..Len(L) - 1 /\ L[p + 1] = L[k + 1]
    BY <1>4, <2>2
  <2> HIDE DEF p
  <2>4. p + 1 \in 1..Len(L) /\ p \in Int
    BY <1>3, <2>3
  <2>5. p + 1 = k + 1
    BY <1>3, <2>1, <2>3, <2>4
  <2>6. p = k
    BY <2>1, <2>4, <2>5
  <2> QED BY <2>2, <2>6 DEF p
<1> QED BY <1>3, <1>4, <1>5, <1>6 DEF Count, L

LEMMA OffsetsAre ==
  /\ Columns!Offset("scalarIn") = Simulated
  /\ Columns!Offset("vectorIn") = Simulated + Count("scalarIn")
  /\ Columns!Offset("reset") = Simulated + Count("scalarIn") + 3 * Count("vectorIn")
  /\ Columns!Offset("scalarOut") = Controlled
  /\ Columns!Offset("vectorOut") = Controlled + Count("scalarOut")
  /\ Columns!Offset("status") = Controlled + Count("scalarOut") + 3 * Count("vectorOut")
  /\ Columns!WidthOf("scalarIn") = 1 /\ Columns!WidthOf("vectorIn") = 3
  /\ Columns!WidthOf("scalarOut") = 1 /\ Columns!WidthOf("vectorOut") = 3
BY DEF Columns!Offset, Columns!WidthOf, Count

\* The first column of a name.
First(form, n) == Columns!Offset(form) + Columns!WidthOf(form) * Place(form, n)

LEMMA ColumnIs ==
  ASSUME NEW form, NEW n \in Names(form)
  PROVE  Columns!Columns(form)[n] = First(form, n)
BY DEF Columns!Columns, First, Place, Names

\* The columns of a kind lie between its offset and the next one, apart from each other.
LEMMA SlotsApart ==
  ASSUME cfg \in Configurations, NEW form \in Kinds, NEW n \in Names(form)
  PROVE  /\ First(form, n) \in Nat /\ Columns!WidthOf(form) \in Nat /\ Columns!Offset(form) \in Nat
         /\ Columns!Offset(form) <= First(form, n)
         /\ First(form, n) + Columns!WidthOf(form)
              <= Columns!Offset(form) + Columns!WidthOf(form) * Count(form)
         /\ \A m \in Names(form), c \in Int :
              c - First(form, n) \in 0..Columns!WidthOf(form) - 1
                /\ c - First(form, m) \in 0..Columns!WidthOf(form) - 1 => m = n
<1> USE ColumnConstants
<1> DEFINE o == Columns!Offset(form)
           w == Columns!WidthOf(form)
           p == Place(form, n)
<1>1. /\ \A k \in Kinds : Count(k) \in Nat
      /\ p \in 0..Count(form) - 1
  BY LayoutFacts
<1>2. w \in {1, 3}
  BY OffsetsAre DEF Kinds
<1>3. o \in Nat
  <2>1. \A a \in Nat : Simulated + a \in Nat /\ Controlled + a \in Nat
    OBVIOUS
  <2>2. /\ Count("scalarIn") \in Nat /\ Count("vectorIn") \in Nat
        /\ Count("scalarOut") \in Nat /\ Count("vectorOut") \in Nat
    BY <1>1 DEF Kinds
  <2> QED BY <2>1, <2>2, OffsetsAre, Zenon DEF Kinds
<1>4. First(form, n) = o + w * p
  BY DEF First
<1>5. ASSUME NEW m \in Names(form), NEW c \in Int,
             c - First(form, n) \in 0..w - 1, c - First(form, m) \in 0..w - 1
      PROVE  m = n
  <2> DEFINE q == Place(form, m)
  <2>1. q \in 0..Count(form) - 1 /\ First(form, m) = o + w * q
    BY LayoutFacts DEF First
  <2>2. p \in Int /\ q \in Int
    BY <1>1, <2>1
  <2> HIDE DEF o, w, p, q
  <2>3. p = q
    <3>1. CASE w = 1
      BY <1>3, <1>4, <1>5, <2>1, <2>2, <3>1
    <3>2. CASE w = 3
      BY <1>3, <1>4, <1>5, <2>1, <2>2, <3>2
    <3> QED BY <1>2, <3>1, <3>2
  <2> QED BY <2>3, LayoutFacts DEF p, q
<1> HIDE DEF o, w, p
<1>6. /\ First(form, n) \in Nat /\ w \in Nat /\ o <= First(form, n)
      /\ First(form, n) + w <= o + w * Count(form)
  <2>1. CASE w = 1
    BY <1>1, <1>3, <1>4, <2>1
  <2>2. CASE w = 3
    BY <1>1, <1>3, <1>4, <2>2
  <2> QED BY <1>2, <2>1, <2>2
<1> QED BY <1>3, <1>5, <1>6 DEF o, w

\* write_inputs writes a kind's names over their own columns and nothing else.
LEMMA WrittenIs ==
  ASSUME cfg \in Configurations, NEW form \in Kinds, NEW row, DOMAIN row \subseteq Int,
         NEW new, new = Columns!Written(row, form)
  PROVE  /\ DOMAIN new = DOMAIN row
         /\ \A n \in Names(form), c \in DOMAIN row :
              c - First(form, n) \in 0..Columns!WidthOf(form) - 1 =>
                new[c] = <<"fed", cFeed[n], c - First(form, n)>>
         /\ \A c \in DOMAIN row :
              \/ c < Columns!Offset(form)
              \/ c >= Columns!Offset(form) + Columns!WidthOf(form) * Count(form)
              => new[c] = row[c]
<1> DEFINE Own(c) == {n \in Names(form) : c - First(form, n) \in 0..Columns!WidthOf(form) - 1}
           w == Columns!WidthOf(form)
<1>1. \A c : Own(c) = {n \in Columns!ToSet(cfg[form]) : c - Columns!Columns(form)[n] \in 0..w - 1}
  BY ColumnIs DEF Names
<1>2. DOMAIN new = DOMAIN row
  BY DEF Columns!Written
<1>3. ASSUME NEW c \in DOMAIN row, Own(c) = {}
      PROVE  new[c] = row[c]
  BY <1>1, <1>3 DEF Columns!Written
<1>4. ASSUME NEW n \in Names(form), NEW c \in DOMAIN row, n \in Own(c)
      PROVE  new[c] = <<"fed", cFeed[n], c - First(form, n)>>
  <2>1. Own(c) = {n}
    BY <1>4, SlotsApart
  <2>2. new[c] = LET m == CHOOSE m \in Own(c) : TRUE
                 IN  Columns!Components("fed", cFeed[m], form)[c - Columns!Columns(form)[m]]
    BY <1>1, <2>1 DEF Columns!Written
  <2>3. (CHOOSE m \in Own(c) : TRUE) = n
    BY <2>1
  <2>4. c - First(form, n) \in 0..w - 1
    BY <1>4
  <2>5. Columns!Components("fed", cFeed[n], form)[c - First(form, n)]
          = <<"fed", cFeed[n], c - First(form, n)>>
    BY <2>4 DEF Columns!Components
  <2> QED BY <2>2, <2>3, <2>5, ColumnIs
<1>5. ASSUME NEW c \in DOMAIN row,
             \/ c < Columns!Offset(form)
             \/ c >= Columns!Offset(form) + w * Count(form)
      PROVE  Own(c) = {}
  <2> SUFFICES ASSUME NEW n \in Names(form), c - First(form, n) \in 0..w - 1 PROVE FALSE
    OBVIOUS
  <2> DEFINE x == First(form, n)
             o == Columns!Offset(form)
             e == o + w * Count(form)
  <2>1. x \in Nat /\ o <= x /\ x + w <= e /\ w \in Nat /\ o \in Nat
    BY SlotsApart
  <2>2. c \in Int /\ (c < o \/ c >= e) /\ c - x \in 0..w - 1 /\ e \in Int
    <3>1. Count(form) \in Nat
      BY LayoutFacts
    <3> QED BY <1>5, <2>1, <3>1
  <2> HIDE DEF x, o, e, w
  <2> QED BY <2>1, <2>2
<1> QED BY <1>2, <1>3, <1>4, <1>5

ColumnTypes ==
  /\ cfg \in Configurations /\ fed \in 0..MaxFeeds /\ cFeed \in [Columns!Setters -> 0..fed]
  /\ DOMAIN input = 0..Columns!Offset("reset") /\ DOMAIN cOutput = 0..Columns!Offset("status")

\* What the controller returned last stands in the columns of its getters.
Returned ==
  \A form \in {"scalarOut", "vectorOut"} : \A n \in Names(form) :
    \A j \in 0..Columns!WidthOf(form) - 1 :
      cOutput[First(form, n) + j] = <<n, returned.value, j>>

ColumnInv ==
  /\ ColumnTypes
  /\ heard # <<>> => Returned
  /\ Columns!CallbacksHearTheirFeeds /\ Columns!ColumnsAreKeptApart
  /\ Columns!ReadoutsAreTheGetters

\* The row of a dispatch: sensors, feeds and reset, each at its place.
LEMMA DispatchIs ==
  ASSUME ColumnTypes, NEW reset, Columns!Dispatch(reset)
  PROVE  LET row == input' IN
         /\ DOMAIN row = 0..Columns!Offset("reset")
         /\ \A c \in 0..Simulated - 1 : row[c] = <<"sim", 0, c>>
         /\ \A form \in {"scalarIn", "vectorIn"} : \A n \in Names(form) :
              \A j \in 0..Columns!WidthOf(form) - 1 :
                row[First(form, n) + j] = <<"fed", cFeed[n], j>>
         /\ row[Columns!Offset("reset")] = <<"reset", reset, 0>>
         /\ dispatched' = [feed |-> cFeed, reset |-> <<"reset", reset, 0>>]
         /\ heard' = [sensors |-> Columns!At(row, 0, Simulated),
                      scalars |-> Columns!Taken(row, "scalarIn"),
                      vectors |-> Columns!Taken(row, "vectorIn"),
                      reset |-> row[Columns!Offset("reset")]]
<1> USE ColumnConstants
<1> DEFINE R == Columns!Offset("reset")
           V == Columns!Offset("vectorIn")
           simulated == [c \in DOMAIN input |->
                           IF c < Columns!SimulationWidth THEN <<"sim", 0, c>> ELSE input[c]]
           scalars == Columns!Written(simulated, "scalarIn")
           vectors == Columns!Written(scalars, "vectorIn")
           row == input'
<1>1. cfg \in Configurations /\ DOMAIN input = 0..R
  BY DEF ColumnTypes
<1>2. /\ row = [vectors EXCEPT ![R] = <<"reset", reset, 0>>]
      /\ dispatched' = [feed |-> cFeed, reset |-> <<"reset", reset, 0>>]
      /\ heard' = [sensors |-> Columns!At(row, 0, Simulated),
                   scalars |-> Columns!Taken(row, "scalarIn"),
                   vectors |-> Columns!Taken(row, "vectorIn"),
                   reset |-> row[Columns!Offset("reset")]]
  BY DEF Columns!Dispatch, Columns!ResetColumn
<1>3. "scalarIn" \in Kinds /\ "vectorIn" \in Kinds
  BY DEF Kinds
<1>4. Count("scalarIn") \in Nat /\ Count("vectorIn") \in Nat
  BY <1>1, <1>3, LayoutFacts
<1>5. /\ V = Simulated + Count("scalarIn") /\ R = V + 3 * Count("vectorIn")
      /\ Columns!Offset("scalarIn") = Simulated /\ Columns!SimulationWidth = Simulated
      /\ Columns!WidthOf("scalarIn") = 1 /\ Columns!WidthOf("vectorIn") = 3
  BY OffsetsAre DEF Columns!SimulationWidth
<1>6. R \in Nat /\ V \in Nat /\ V <= R /\ Simulated <= V
  BY <1>4, <1>5
<1> HIDE DEF R, V
<1>7. DOMAIN simulated = 0..R /\ \A c \in 0..Simulated - 1 : simulated[c] = <<"sim", 0, c>>
  BY <1>1, <1>5, <1>6
<1> HIDE DEF simulated
<1>8. /\ DOMAIN scalars = 0..R
      /\ \A n \in Names("scalarIn"), c \in 0..R :
           c - First("scalarIn", n) \in 0..0 => scalars[c] = <<"fed", cFeed[n], c - First("scalarIn", n)>>
      /\ \A c \in 0..R : c < Simulated => scalars[c] = simulated[c]
  <2>1. DOMAIN simulated \subseteq Int
    BY <1>7
  <2>2. scalars = Columns!Written(simulated, "scalarIn")
    OBVIOUS
  <2> HIDE DEF scalars
  <2>3. /\ DOMAIN scalars = DOMAIN simulated
        /\ \A n \in Names("scalarIn"), c \in DOMAIN simulated :
              c - First("scalarIn", n) \in 0..Columns!WidthOf("scalarIn") - 1 =>
                scalars[c] = <<"fed", cFeed[n], c - First("scalarIn", n)>>
        /\ \A c \in DOMAIN simulated :
              \/ c < Columns!Offset("scalarIn")
              \/ c >= Columns!Offset("scalarIn") + Columns!WidthOf("scalarIn") * Count("scalarIn")
              => scalars[c] = simulated[c]
    BY <1>1, <1>3, <2>1, <2>2, WrittenIs
  <2> QED BY <1>5, <1>7, <2>3
<1> HIDE DEF scalars
<1>9. /\ DOMAIN vectors = 0..R
      /\ \A n \in Names("vectorIn"), c \in 0..R :
           c - First("vectorIn", n) \in 0..2 => vectors[c] = <<"fed", cFeed[n], c - First("vectorIn", n)>>
      /\ \A c \in 0..R : c < V => vectors[c] = scalars[c]
  <2>1. DOMAIN scalars \subseteq Int
    BY <1>8
  <2>2. V = Columns!Offset("vectorIn")
    BY DEF V
  <2>3. vectors = Columns!Written(scalars, "vectorIn")
    OBVIOUS
  <2> HIDE DEF vectors
  <2>4. /\ DOMAIN vectors = DOMAIN scalars
        /\ \A n \in Names("vectorIn"), c \in DOMAIN scalars :
              c - First("vectorIn", n) \in 0..Columns!WidthOf("vectorIn") - 1 =>
                vectors[c] = <<"fed", cFeed[n], c - First("vectorIn", n)>>
        /\ \A c \in DOMAIN scalars :
              \/ c < Columns!Offset("vectorIn")
              \/ c >= Columns!Offset("vectorIn") + Columns!WidthOf("vectorIn") * Count("vectorIn")
              => vectors[c] = scalars[c]
    BY <1>1, <1>3, <2>1, <2>3, WrittenIs
  <2> QED BY <1>5, <1>8, <2>2, <2>4
<1> HIDE DEF vectors
<1>10. /\ DOMAIN row = 0..R /\ row[R] = <<"reset", reset, 0>>
       /\ \A c \in 0..R : c # R => row[c] = vectors[c]
  BY <1>2, <1>6, <1>9
<1> HIDE DEF row
<1>11. ASSUME NEW c \in 0..Simulated - 1 PROVE row[c] = <<"sim", 0, c>>
  <2>1. c \in 0..R
    BY <1>6
  <2>2. c < Simulated
    OBVIOUS
  <2> QED BY <1>5, <1>6, <1>7, <1>8, <1>9, <1>10, <2>1, <2>2
<1>12. ASSUME NEW n \in Names("scalarIn"), NEW j \in 0..0
       PROVE  row[First("scalarIn", n) + j] = <<"fed", cFeed[n], j>>
  <2> DEFINE x == First("scalarIn", n)
             c == x + j
  <2>1. x \in Nat /\ x + 1 <= Simulated + 1 * Count("scalarIn")
    BY <1>1, <1>3, <1>5, SlotsApart
  <2>2. j = 0
    OBVIOUS
  <2> HIDE DEF x
  <2>3. c \in 0..R /\ c < V /\ c - x \in 0..0 /\ c - x = j /\ c # R
    BY <1>4, <1>5, <1>6, <2>1, <2>2
  <2> HIDE DEF c
  <2>4. row[c] = scalars[c]
    BY <1>9, <1>10, <2>3
  <2>5. scalars[c] = <<"fed", cFeed[n], c - x>>
    BY <1>8, <2>3 DEF x
  <2> QED BY <2>3, <2>4, <2>5 DEF c, x
<1>13. ASSUME NEW n \in Names("vectorIn"), NEW j \in 0..2
       PROVE  row[First("vectorIn", n) + j] = <<"fed", cFeed[n], j>>
  <2> DEFINE x == First("vectorIn", n)
             c == x + j
  <2>1. x \in Nat /\ x + 3 <= V + 3 * Count("vectorIn")
    BY <1>1, <1>3, <1>5, SlotsApart DEF V
  <2> HIDE DEF x
  <2>2. c \in 0..R /\ c - x \in 0..2 /\ c - x = j /\ c # R
    BY <1>4, <1>5, <1>6, <2>1
  <2> HIDE DEF c
  <2>3. row[c] = vectors[c]
    BY <1>10, <2>2
  <2>4. vectors[c] = <<"fed", cFeed[n], c - x>>
    BY <1>9, <2>2 DEF x
  <2> QED BY <2>2, <2>3, <2>4 DEF c, x
<1> QED BY <1>2, <1>5, <1>10, <1>11, <1>12, <1>13 DEF R, row

LEMMA ColumnsKept ==
  ASSUME cfg' = cfg
  PROVE  /\ \A form : Names(form)' = Names(form) /\ Columns!Offset(form)' = Columns!Offset(form)
         /\ \A form, n : First(form, n)' = First(form, n)
         /\ Columns!Setters' = Columns!Setters
<1>1. Columns!Layout' = Columns!Layout
  BY DEF Columns!Layout
<1>2. \A form : Columns!Offset(form)' = Columns!Offset(form)
  BY <1>1 DEF Columns!Offset
<1>3. \A form, n : First(form, n)' = First(form, n)
  BY <1>1, <1>2 DEF First, Place
<1>4. \A form : Names(form)' = Names(form)
  BY DEF Names
<1>5. Columns!Setters' = Columns!Setters
  BY DEF Columns!Setters
<1> QED BY <1>2, <1>3, <1>4, <1>5

\* The controller answers for every getter in the getter's columns.
LEMMA AnsweredIs ==
  ASSUME ColumnTypes, NEW row, row = Columns!Answered
  PROVE  /\ DOMAIN row = DOMAIN cOutput
         /\ \A form \in {"scalarOut", "vectorOut"} : \A n \in Names(form) :
              \A j \in 0..Columns!WidthOf(form) - 1 :
                row[First(form, n) + j] = <<n, fed, j>>
<1> USE ColumnConstants
<1> DEFINE S == Columns!Offset("status")
           V == Columns!Offset("vectorOut")
<1>1. cfg \in Configurations /\ DOMAIN cOutput = 0..S
  BY DEF ColumnTypes
<1>2. "scalarOut" \in Kinds /\ "vectorOut" \in Kinds
  BY DEF Kinds
<1>3. Count("scalarOut") \in Nat /\ Count("vectorOut") \in Nat
  BY <1>1, <1>2, LayoutFacts
<1>4. /\ V = Controlled + Count("scalarOut") /\ S = V + 3 * Count("vectorOut")
      /\ Columns!Offset("scalarOut") = Controlled
      /\ Columns!WidthOf("scalarOut") = 1 /\ Columns!WidthOf("vectorOut") = 3
  BY OffsetsAre
<1>5. S \in Nat /\ V \in Nat /\ V <= S /\ Controlled <= V
  BY <1>3, <1>4
<1>6. row = [c \in DOMAIN cOutput |->
               IF c < Controlled THEN <<"control", 0, c>>
               ELSE IF c < V THEN <<Columns!Layout["scalarOut"][c - Controlled + 1], fed, 0>>
               ELSE IF c < S
                 THEN <<Columns!Layout["vectorOut"][(c - V) \div 3 + 1], fed, (c - V) % 3>>
               ELSE <<"OK", 0, 0>>]
  BY DEF Columns!Answered
<1> HIDE DEF S, V
<1>7. ASSUME NEW n \in Names("scalarOut"), NEW j \in 0..0
      PROVE  row[First("scalarOut", n) + j] = <<n, fed, j>>
  <2> DEFINE p == Place("scalarOut", n)
             c == First("scalarOut", n) + j
  <2>1. p \in 0..Count("scalarOut") - 1 /\ Columns!Layout["scalarOut"][p + 1] = n
    BY <1>1, <1>2, LayoutFacts
  <2>2. c = Controlled + p /\ j = 0
    BY <1>4, <2>1 DEF First
  <2> HIDE DEF c, p
  <2>3. c \in 0..S /\ ~(c < Controlled) /\ c < V /\ c - Controlled + 1 = p + 1
    BY <1>3, <1>4, <1>5, <2>1, <2>2
  <2>4. row[c] = <<Columns!Layout["scalarOut"][p + 1], fed, 0>>
    BY <1>1, <1>6, <2>3
  <2> QED BY <2>1, <2>2, <2>4 DEF c
<1>8. ASSUME NEW n \in Names("vectorOut"), NEW j \in 0..2
      PROVE  row[First("vectorOut", n) + j] = <<n, fed, j>>
  <2> DEFINE p == Place("vectorOut", n)
             c == First("vectorOut", n) + j
  <2>1. p \in 0..Count("vectorOut") - 1 /\ Columns!Layout["vectorOut"][p + 1] = n
    BY <1>1, <1>2, LayoutFacts
  <2>2. First("vectorOut", n) = V + 3 * p
    BY <1>4, <2>1 DEF First, V
  <2>3. c = V + 3 * p + j
    BY <2>2
  <2> HIDE DEF c, p
  <2>4. /\ c \in 0..S /\ ~(c < Controlled) /\ ~(c < V) /\ c < S
        /\ (c - V) \div 3 = p /\ ((c - V) % 3) = j
    <3>1. p \in Nat /\ p + 1 <= Count("vectorOut") /\ c \in Nat
      BY <1>3, <1>5, <2>1, <2>3
    <3>2. c - V = 3 * p + j /\ c < S
      <4> DEFINE n3 == Count("vectorOut")
      <4>1. n3 \in Nat /\ p + 1 <= n3 /\ S = V + 3 * n3
        BY <1>3, <1>4, <3>1
      <4>2. j \in 0..2 /\ V \in Nat /\ p \in Nat
        BY <1>5, <3>1
      <4> HIDE DEF n3
      <4> QED BY <2>3, <4>1, <4>2
    <3>3. \A i \in {0, 1, 2} : (3 * p + i) \div 3 = p /\ ((3 * p + i) % 3) = i
      BY <3>1
    <3>4. j \in {0, 1, 2}
      OBVIOUS
    <3>5. (c - V) \div 3 = p /\ ((c - V) % 3) = j
      BY <3>2, <3>3, <3>4
    <3> QED BY <1>5, <2>3, <3>1, <3>2, <3>5
  <2>5. row[c] = <<Columns!Layout["vectorOut"][p + 1], fed, j>>
    BY <1>1, <1>6, <2>4
  <2> QED BY <2>1, <2>5 DEF c
<1>9. DOMAIN row = DOMAIN cOutput
  BY <1>6
<1>10. /\ \A n \in Names("scalarOut"), j \in 0..Columns!WidthOf("scalarOut") - 1 :
            row[First("scalarOut", n) + j] = <<n, fed, j>>
       /\ \A n \in Names("vectorOut"), j \in 0..Columns!WidthOf("vectorOut") - 1 :
            row[First("vectorOut", n) + j] = <<n, fed, j>>
  BY <1>4, <1>7, <1>8
<1> QED BY <1>9, <1>10

\* What is read at a name's first column is its value, component by component.
LEMMA SlotReads ==
  ASSUME NEW row, NEW form, NEW n, NEW who, NEW value,
         \A j \in 0..Columns!WidthOf(form) - 1 : row[First(form, n) + j] = <<who, value, j>>
  PROVE  Columns!At(row, First(form, n), Columns!WidthOf(form)) = Columns!Components(who, value, form)
BY DEF Columns!At, Columns!Components

LEMMA ColumnsPeriod ==
  ASSUME ColumnInv, Columns!Period
  PROVE  ColumnInv'
<1> USE ColumnConstants
<1>1. /\ cReadout' = IF heard = <<>> THEN cReadout ELSE Columns!Collected
      /\ Columns!Dispatch(cPendingReset)
      /\ cOutput' = Columns!Answered
      /\ returned' = [value |-> fed, last |-> IF heard = <<>> THEN -1 ELSE returned.value]
      /\ cfg' = cfg /\ cFeed' = cFeed /\ fed' = fed
  BY DEF Columns!Period
<1>2. ColumnTypes /\ cfg \in Configurations
  BY DEF ColumnInv, ColumnTypes
<1>3. /\ \A form : Names(form)' = Names(form) /\ Columns!Offset(form)' = Columns!Offset(form)
      /\ \A form, n : First(form, n)' = First(form, n)
      /\ Columns!Setters' = Columns!Setters
  BY <1>1, ColumnsKept
<1> DEFINE row == input'
           fedCell == <<"reset", cPendingReset, 0>>
<1>4. /\ DOMAIN row = 0..Columns!Offset("reset")
      /\ \A c \in 0..Simulated - 1 : row[c] = <<"sim", 0, c>>
      /\ \A form \in {"scalarIn", "vectorIn"} : \A n \in Names(form) :
           \A j \in 0..Columns!WidthOf(form) - 1 :
             row[First(form, n) + j] = <<"fed", cFeed[n], j>>
      /\ row[Columns!Offset("reset")] = fedCell
      /\ dispatched' = [feed |-> cFeed, reset |-> fedCell]
      /\ heard' = [sensors |-> Columns!At(row, 0, Simulated),
                   scalars |-> Columns!Taken(row, "scalarIn"),
                   vectors |-> Columns!Taken(row, "vectorIn"),
                   reset |-> row[Columns!Offset("reset")]]
  BY <1>1, <1>2, DispatchIs
<1>5. /\ DOMAIN cOutput' = DOMAIN cOutput
      /\ \A form \in {"scalarOut", "vectorOut"} : \A n \in Names(form) :
           \A j \in 0..Columns!WidthOf(form) - 1 :
             cOutput'[First(form, n) + j] = <<n, fed, j>>
  BY <1>1, <1>2, AnsweredIs
<1>6. ColumnTypes'
  BY <1>1, <1>2, <1>3, <1>4, <1>5 DEF ColumnTypes
<1>7. Returned'
  BY <1>1, <1>3, <1>5 DEF Returned, Columns!WidthOf
<1>8. \A form \in {"scalarIn", "vectorIn"} : \A n \in Names(form) :
        Columns!Taken(row, form)[n] = Columns!Components("fed", cFeed[n], form)
  <2> SUFFICES ASSUME NEW form \in {"scalarIn", "vectorIn"}, NEW n \in Names(form)
               PROVE  Columns!Taken(row, form)[n] = Columns!Components("fed", cFeed[n], form)
    OBVIOUS
  <2>1. Columns!Taken(row, form)[n] = Columns!At(row, First(form, n), Columns!WidthOf(form))
    BY DEF Columns!Taken, First, Place, Names
  <2>2. \A j \in 0..Columns!WidthOf(form) - 1 : row[First(form, n) + j] = <<"fed", cFeed[n], j>>
    BY <1>4
  <2> HIDE DEF row
  <2>3. Columns!At(row, First(form, n), Columns!WidthOf(form)) = Columns!Components("fed", cFeed[n], form)
    BY <2>2, SlotReads
  <2> QED BY <2>1, <2>3
<1> HIDE DEF row, fedCell
<1>9. Columns!CallbacksHearTheirFeeds'
  <2>1. heard'.scalars = Columns!Taken(row, "scalarIn") /\ heard'.vectors = Columns!Taken(row, "vectorIn")
    BY <1>4
  <2>2. dispatched'.feed = cFeed
    BY <1>4
  <2>3. /\ \A n \in Columns!ToSet(cfg'.scalarIn) :
             heard'.scalars[n] = Columns!Components("fed", dispatched'.feed[n], "scalarIn")
        /\ \A n \in Columns!ToSet(cfg'.vectorIn) :
             heard'.vectors[n] = Columns!Components("fed", dispatched'.feed[n], "vectorIn")
    BY <1>1, <1>8, <2>1, <2>2 DEF Names
  <2> QED BY <2>3 DEF Columns!CallbacksHearTheirFeeds
<1>10. Columns!ColumnsAreKeptApart'
  <2>1. heard'.sensors = Columns!At(row, 0, Simulated) /\ heard'.reset = fedCell /\ dispatched'.reset = fedCell
    BY <1>4
  <2>2. Columns!At(row, 0, Simulated) = [c \in 0..Simulated - 1 |-> <<"sim", 0, c>>]
    BY <1>4 DEF Columns!At
  <2> QED BY <2>1, <2>2 DEF Columns!ColumnsAreKeptApart
<1>11. Columns!ReadoutsAreTheGetters'
  <2>1. CASE heard = <<>>
    <3>1. returned'.last = -1
      BY <1>1, <2>1
    <3> QED BY <3>1 DEF Columns!ReadoutsAreTheGetters
  <2>2. CASE heard # <<>>
    <3>1. cReadout' = Columns!Collected /\ returned'.last = returned.value
      BY <1>1, <2>2
    <3>2. ASSUME NEW form \in {"scalarOut", "vectorOut"}, NEW n \in Names(form)
          PROVE  cReadout'[form][n] = Columns!Components(n, returned.value, form)
      <4>1. cReadout'[form][n] = Columns!At(cOutput, Columns!Columns(form)[n], Columns!WidthOf(form))
        BY <3>1 DEF Columns!Collected, Columns!Getters, Names
      <4>2. \A j \in 0..Columns!WidthOf(form) - 1 :
              cOutput[First(form, n) + j] = <<n, returned.value, j>>
        BY <2>2 DEF ColumnInv, Returned
      <4>3. Columns!At(cOutput, First(form, n), Columns!WidthOf(form))
              = Columns!Components(n, returned.value, form)
        BY <4>2, SlotReads
      <4> QED BY <4>1, <4>3, ColumnIs
    <3>3. \A form \in Columns!Getters : \A n \in Columns!ToSet(cfg'[form]) :
            cReadout'[form][n] = Columns!Components(n, returned'.last, form)
      BY <1>1, <3>1, <3>2 DEF Columns!Getters, Names
    <3> QED BY <3>3 DEF Columns!ReadoutsAreTheGetters
  <2> QED BY <2>1, <2>2
<1> QED BY <1>6, <1>7, <1>9, <1>10, <1>11 DEF ColumnInv

LEMMA ReadoutsKept ==
  ASSUME Columns!ReadoutsAreTheGetters, UNCHANGED <<cfg, heard, returned, cReadout>>
  PROVE  Columns!ReadoutsAreTheGetters'
<1>1. \A form \in Columns!Getters : \A n \in Columns!ToSet(cfg[form]) :
        heard # <<>> /\ returned.last >= 0 =>
          cReadout[form][n] = Columns!Components(n, returned.last, form)
  BY DEF Columns!ReadoutsAreTheGetters
<1>2. \A form \in Columns!Getters : \A n \in Columns!ToSet(cfg'[form]) :
        heard' # <<>> /\ returned'.last >= 0 =>
          cReadout'[form][n] = Columns!Components(n, returned'.last, form)
  BY <1>1
<1> QED BY <1>2, Zenon DEF Columns!ReadoutsAreTheGetters

LEMMA ColumnsSet ==
  ASSUME ColumnInv, NEW n \in Columns!Setters, Columns!SetInput(n)
  PROVE  ColumnInv'
<1> USE ColumnConstants
<1>1. /\ fed < MaxFeeds /\ fed' = fed + 1 /\ cFeed' = [cFeed EXCEPT ![n] = fed']
      /\ UNCHANGED <<cfg, input, cOutput, cPendingReset, heard, returned, dispatched, cReadout>>
  BY DEF Columns!SetInput
<1>2. ColumnTypes /\ (heard # <<>> => Returned) /\ Columns!CallbacksHearTheirFeeds
      /\ Columns!ColumnsAreKeptApart /\ Columns!ReadoutsAreTheGetters
  BY DEF ColumnInv
<1>3. /\ \A form : Names(form)' = Names(form) /\ Columns!Offset(form)' = Columns!Offset(form)
      /\ \A form, m : First(form, m)' = First(form, m)
      /\ Columns!Setters' = Columns!Setters
  BY <1>1, ColumnsKept
<1>4. ColumnTypes'
  <2>1. /\ cfg \in Configurations /\ fed \in 0..MaxFeeds /\ cFeed \in [Columns!Setters -> 0..fed]
        /\ DOMAIN input = 0..Columns!Offset("reset") /\ DOMAIN cOutput = 0..Columns!Offset("status")
    BY <1>2 DEF ColumnTypes
  <2>2. fed' \in 0..MaxFeeds /\ fed' \in 0..fed' /\ 0..fed \subseteq 0..fed'
    BY <1>1, <2>1
  <2>3. cFeed' \in [Columns!Setters -> 0..fed']
    BY <1>1, <2>1, <2>2
  <2> QED BY <1>1, <1>3, <2>1, <2>2, <2>3 DEF ColumnTypes
<1>5. (heard # <<>> => Returned)'
  <2> SUFFICES ASSUME heard # <<>> PROVE Returned'
    BY <1>1
  <2>1. \A form \in {"scalarOut", "vectorOut"} : \A m \in Names(form) :
          \A j \in 0..Columns!WidthOf(form) - 1 :
            cOutput[First(form, m) + j] = <<m, returned.value, j>>
    BY <1>2 DEF Returned
  <2> QED BY <1>1, <1>3, <2>1 DEF Returned, Columns!WidthOf
<1>6. Columns!CallbacksHearTheirFeeds'
  BY <1>1, <1>2 DEF Columns!CallbacksHearTheirFeeds, Columns!Components, Columns!WidthOf
<1>7. Columns!ColumnsAreKeptApart'
  BY <1>1, <1>2 DEF Columns!ColumnsAreKeptApart
<1>8. Columns!ReadoutsAreTheGetters'
  BY <1>1, <1>2, ReadoutsKept
<1> QED BY <1>4, <1>5, <1>6, <1>7, <1>8 DEF ColumnInv

\* The invariant of the columns.
LEMMA ColumnInvariant ==
  /\ Columns!Init => ColumnInv
  /\ ColumnInv /\ [Columns!Next]_columnVars => ColumnInv'
<1> USE ColumnConstants
<1>1. ASSUME Columns!Init PROVE ColumnInv
  <2>1. /\ cfg \in Configurations
        /\ input = [c \in 0..Columns!InputSize - 1 |-> <<"zero", 0, 0>>]
        /\ cOutput = [c \in 0..Columns!Offset("status") |-> <<"zero", 0, 0>>]
        /\ cFeed = [n \in Columns!Setters |-> 0] /\ fed = 0 /\ heard = <<>>
    BY <1>1 DEF Columns!Init
  <2>2. Columns!Offset("reset") \in Nat
    <3>1. Count("scalarIn") \in Nat /\ Count("vectorIn") \in Nat
      BY <2>1, LayoutFacts DEF Kinds
    <3> QED BY <3>1, OffsetsAre
  <2>3. Columns!InputSize - 1 = Columns!Offset("reset")
    BY <2>2 DEF Columns!InputSize
  <2>4. ColumnTypes
    BY <2>1, <2>3 DEF ColumnTypes
  <2> QED BY <2>1, <2>4 DEF ColumnInv, Columns!CallbacksHearTheirFeeds,
           Columns!ColumnsAreKeptApart, Columns!ReadoutsAreTheGetters
<1>2. ASSUME ColumnInv, [Columns!Next]_columnVars PROVE ColumnInv'
  <2>1. CASE Columns!Period
    BY <1>2, <2>1, ColumnsPeriod
  <2>2. ASSUME NEW n \in Columns!Setters, Columns!SetInput(n) PROVE ColumnInv'
    BY <1>2, <2>2, ColumnsSet
  <2>3. CASE UNCHANGED columnVars
    <3>1. UNCHANGED <<cfg, input, cOutput, cFeed, fed, cPendingReset, heard, returned,
                      dispatched, cReadout>>
      BY <2>3 DEF columnVars
    <3>2. /\ \A form : Names(form)' = Names(form) /\ Columns!Offset(form)' = Columns!Offset(form)
          /\ \A form, n : First(form, n)' = First(form, n)
          /\ Columns!Setters' = Columns!Setters
      BY <3>1, ColumnsKept
    <3>3. ColumnTypes'
      BY <1>2, <3>1, <3>2 DEF ColumnInv, ColumnTypes
    <3>5. Columns!CallbacksHearTheirFeeds'
      BY <1>2, <3>1 DEF ColumnInv, Columns!CallbacksHearTheirFeeds, Columns!Components, Columns!WidthOf
    <3>6. Columns!ColumnsAreKeptApart'
      BY <1>2, <3>1 DEF ColumnInv, Columns!ColumnsAreKeptApart
    <3>7. Columns!ReadoutsAreTheGetters'
      BY <1>2, <3>1, ReadoutsKept DEF ColumnInv
    <3>4. (heard # <<>> => Returned)'
      BY <1>2, <3>1, <3>2 DEF ColumnInv, Returned, Columns!WidthOf
    <3> QED BY <3>3, <3>4, <3>5, <3>6, <3>7 DEF ColumnInv
  <2> QED BY <1>2, <2>1, <2>2, <2>3 DEF Columns!Next
<1> QED BY <1>1, <1>2

LEMMA ColumnsGovern ==
  ColumnInv => Columns!TypeOK /\ Columns!CallbacksHearTheirFeeds /\ Columns!ColumnsAreKeptApart
                 /\ Columns!ReadoutsAreTheGetters
BY DEF ColumnInv, ColumnTypes, Columns!TypeOK

-----------------------------------------------------------------------------
(***************************************************************************)
(* The actuator law.                                                       *)
(***************************************************************************)

LEMMA LawConstants ==
  /\ Default \in Nat \ {0} /\ Reference \in Nat \ {0} /\ EffortLimit \in Nat /\ Cap \in Nat
  /\ Spread \in Nat /\ Spread < Default /\ Spread < Reference
  /\ EffortSpread \in Nat /\ EffortSpread <= EffortLimit
  /\ Torques \subseteq Int /\ Residuals \subseteq Int
BY PartsAssumption DEF Law!LawAssumption

\* What is done with a joint from the construction of the action on, in order.
Work == Law!Built \o (IF randomized THEN Law!Startup ELSE <<>>)

\* The first d of it are done.
Left(d) == [i \in 1..(Len(Work) - d) |-> Work[d + i]]

LEMMA WorkIs ==
  ASSUME kind \in {"position", "torque", "mpc"}
  PROVE  /\ Work \in Seq(Law!Steps) /\ Work[1] = "apply"
         /\ kind = "position" =>
              /\ ~randomized => Len(Work) = 1
              /\ randomized => Len(Work) = 3 /\ Work[2] = "gains" /\ Work[3] = "effort"
         /\ kind = "torque" =>
              /\ Work[2] = "read" /\ Work[3] = "zero"
              /\ ~randomized => Len(Work) = 3
              /\ randomized => Len(Work) = 5 /\ Work[4] = "gains" /\ Work[5] = "effort"
         /\ kind = "mpc" =>
              /\ Work[2] = "read" /\ Work[3] = "zero" /\ Work[4] = "refresh"
              /\ ~randomized => Len(Work) = 4
              /\ randomized => /\ Len(Work) = 7 /\ Work[5] = "gains" /\ Work[6] = "effort"
                              /\ Work[7] = "refresh"
<1> DEFINE first == Law!Built
           then == IF randomized THEN Law!Startup ELSE <<>>
<1>1. /\ first \in Seq(Law!Steps) /\ first[1] = "apply"
      /\ kind = "position" => Len(first) = 1
      /\ kind = "torque" => Len(first) = 3 /\ first[2] = "read" /\ first[3] = "zero"
      /\ kind = "mpc" => /\ Len(first) = 4 /\ first[2] = "read" /\ first[3] = "zero"
                         /\ first[4] = "refresh"
  <2>1. CASE kind = "position"
    BY <2>1 DEF Law!Built, Law!Steps
  <2>2. CASE kind = "torque"
    BY <2>2 DEF Law!Built, Law!Steps
  <2>3. CASE kind = "mpc"
    BY <2>3 DEF Law!Built, Law!Steps
  <2> QED BY <2>1, <2>2, <2>3
<1>6. /\ then \in Seq(Law!Steps)
      /\ ~randomized => Len(then) = 0
      /\ randomized => then[1] = "gains" /\ then[2] = "effort"
      /\ kind = "mpc" => (randomized => Len(then) = 3 /\ then[3] = "refresh")
      /\ kind # "mpc" => (randomized => Len(then) = 2)
  <2>1. CASE kind = "mpc" /\ randomized
    BY <2>1 DEF Law!Startup, Law!Steps
  <2>2. CASE kind # "mpc" /\ randomized
    BY <2>2 DEF Law!Startup, Law!Steps
  <2>3. CASE ~randomized
    BY <2>3 DEF Law!Steps
  <2> QED BY <2>1, <2>2, <2>3
<1>7. Work = first \o then
  BY DEF Work
<1> HIDE DEF first, then
<1>2. /\ Work \in Seq(Law!Steps) /\ Len(Work) = Len(first) + Len(then)
      /\ \A i \in 1..Len(first) : Work[i] = first[i]
      /\ \A i \in 1..Len(then) : Work[Len(first) + i] = then[i]
  BY <1>1, <1>6, <1>7
<1>3. CASE kind = "position"
  <2>1. Len(first) = 1 /\ Len(Work) = 1 + Len(then)
    BY <1>1, <1>2, <1>3
  <2>2. \A i \in 1..1 : Work[i] = first[i]
    BY <1>2, <2>1
  <2>3. randomized => Len(then) = 2 /\ 1 \in 1..Len(then) /\ 2 \in 1..Len(then)
    BY <1>6, <1>3
  <2>4. randomized => Work[1 + 1] = then[1] /\ Work[1 + 2] = then[2]
    BY <1>2, <2>1, <2>3
  <2> QED BY <1>1, <1>2, <1>6, <1>3, <2>1, <2>2, <2>3, <2>4
<1>4. CASE kind = "torque"
  <2>1. Len(first) = 3 /\ Len(Work) = 3 + Len(then)
    BY <1>1, <1>2, <1>4
  <2>2. \A i \in 1..3 : Work[i] = first[i]
    BY <1>2, <2>1
  <2>3. randomized => Len(then) = 2 /\ 1 \in 1..Len(then) /\ 2 \in 1..Len(then)
    BY <1>6, <1>4
  <2>4. randomized => Work[3 + 1] = then[1] /\ Work[3 + 2] = then[2]
    BY <1>2, <2>1, <2>3
  <2> QED BY <1>1, <1>2, <1>6, <1>4, <2>1, <2>2, <2>3, <2>4
<1>5. CASE kind = "mpc"
  <2>1. Len(first) = 4 /\ Len(Work) = 4 + Len(then)
    BY <1>1, <1>2, <1>5
  <2>2. \A i \in 1..4 : Work[i] = first[i]
    BY <1>2, <2>1
  <2>3. /\ Work[1] = "apply" /\ Work[2] = "read" /\ Work[3] = "zero" /\ Work[4] = "refresh"
        /\ ~randomized => Len(Work) = 4
    BY <1>1, <1>5, <1>6, <2>1, <2>2
  <2>4. ASSUME randomized
        PROVE  Len(Work) = 7 /\ Work[5] = "gains" /\ Work[6] = "effort" /\ Work[7] = "refresh"
    <3>1. Len(then) = 3 /\ then[1] = "gains" /\ then[2] = "effort" /\ then[3] = "refresh"
      BY <1>5, <1>6, <2>4
    <3>2. Work[4 + 1] = then[1] /\ Work[4 + 2] = then[2] /\ Work[4 + 3] = then[3]
      BY <1>2, <2>1, <3>1
    <3> QED BY <2>1, <3>1, <3>2
  <2> QED BY <1>2, <1>5, <2>3, <2>4
<1> QED BY <1>3, <1>4, <1>5

Base == IF listed THEN Reference ELSE Default
Around == {Base - Spread, Base, Base + Spread}

GainsDone(d) ==
  \/ kind = "position" /\ d >= 2
  \/ kind = "torque" /\ d >= 4
  \/ kind = "mpc" /\ d >= 5

\* The gains after the first d.
Gains(d) ==
  /\ kind = "position" =>
       /\ own = 0
       /\ sim \in (IF d = 0 THEN {Default} ELSE IF GainsDone(d) THEN Around ELSE {Base})
  /\ kind # "position" =>
       /\ sim = (IF d = 0 THEN Default ELSE IF d <= 2 THEN Base ELSE 0)
       /\ own \in (IF d <= 1 THEN {0} ELSE IF GainsDone(d) THEN Around ELSE {Base})

\* The bounds after the first d, and that no substep came before the last.
Bounds(d) ==
  /\ d < Len(Work) => lStep = Law!None
  /\ kind = "mpc" /\ d = Len(Work) => bound = force /\ scale = Law!PaperScale(force, own)

\* Where nothing is randomized the torque action and its actuator have the same limits.
ModuleLimits == kind = "torque" /\ ~randomized => bound = EffortLimit /\ force = EffortLimit

LawTypes ==
  /\ kind \in {"position", "torque", "mpc"} /\ randomized \in BOOLEAN /\ listed \in BOOLEAN
  /\ {sim, own, force, bound, scale} \subseteq Nat
  /\ lStep.effort \in -bound..bound
  /\ ModuleLimits /\ Law!ExecutedIsApplied

LawAt(d) == todo = Left(d) /\ Gains(d) /\ Bounds(d)

LawInv == LawTypes /\ \E d \in 0..Len(Work) : LawAt(d)

LEMMA WorkFacts ==
  ASSUME kind \in {"position", "torque", "mpc"}, randomized \in BOOLEAN
  PROVE  /\ Len(Work) \in 1..7
         /\ Work \in Seq(Law!Steps)
         /\ kind = "mpc" => Work[Len(Work)] = "refresh"
         /\ \A d \in 0..(Len(Work) - 1) :
              /\ Work[d + 1] = "apply" <=> d = 0
              /\ Work[d + 1] = "read" <=> kind # "position" /\ d = 1
              /\ Work[d + 1] = "zero" <=> kind # "position" /\ d = 2
              /\ Work[d + 1] = "refresh" <=> kind = "mpc" /\ d \in {3, 6}
              /\ Work[d + 1] = "gains" <=>
                   \/ kind = "position" /\ d = 1
                   \/ kind = "torque" /\ d = 3
                   \/ kind = "mpc" /\ d = 4
              /\ Work[d + 1] = "effort" <=>
                   \/ kind = "position" /\ d = 2
                   \/ kind = "torque" /\ d = 4
                   \/ kind = "mpc" /\ d = 5
<1>1. CASE kind = "position"
  BY <1>1, WorkIs
<1>2. CASE kind = "torque"
  BY <1>2, WorkIs
<1>3. CASE kind = "mpc"
  <2>1. /\ Work \in Seq(Law!Steps) /\ Work[1] = "apply" /\ Work[2] = "read"
        /\ Work[3] = "zero" /\ Work[4] = "refresh"
    BY <1>3, WorkIs
  <2>2. CASE randomized
    <3>1. /\ Len(Work) = 7 /\ Work[5] = "gains" /\ Work[6] = "effort" /\ Work[7] = "refresh"
      BY <1>3, <2>2, WorkIs
    <3>2. Work[Len(Work)] = "refresh"
      BY <3>1
    <3> QED BY <1>3, <2>1, <3>1, <3>2
  <2>3. CASE ~randomized
    <3>1. Len(Work) = 4
      BY <1>3, <2>3, WorkIs
    <3>2. Work[Len(Work)] = "refresh"
      BY <2>1, <3>1
    <3> QED BY <1>3, <2>1, <3>1, <3>2
  <2> QED BY <2>2, <2>3
<1> QED BY <1>1, <1>2, <1>3

\* A step that is due is the first that is left, and one less is left after it.
LEMMA WorkStep ==
  ASSUME kind \in {"position", "torque", "mpc"}, randomized \in BOOLEAN,
         NEW d \in 0..Len(Work), todo = Left(d), NEW name, Law!Due(name),
         UNCHANGED <<kind, randomized>>
  PROVE  /\ d < Len(Work) /\ d + 1 \in 1..Len(Work)
         /\ Work[d + 1] = name /\ todo' = Left(d + 1)' /\ Work' = Work
<1>1. Len(Work) \in Nat /\ d \in Nat
  BY WorkFacts
<1> DEFINE n == Len(Work) - d
<1>2. n \in Nat /\ Left(d) = [i \in 1..n |-> Work[d + i]]
  BY <1>1 DEF Left
<1> HIDE DEF n
<1>3. Len(todo) = n
  BY <1>2
<1>4. todo # <<>> /\ Head(todo) = name /\ todo' = Tail(todo)
  BY DEF Law!Due
<1>5. n > 0
  BY <1>2, <1>3, <1>4
<1>6. Head(todo) = Work[d + 1]
  BY <1>2, <1>5
<1>7. todo \in Seq(Law!Steps)
  <2>1. \A i \in 1..n : d + i \in 1..Len(Work)
    BY <1>1, <1>2 DEF n
  <2>2. \A i \in 1..n : Work[d + i] \in Law!Steps
    BY <2>1, WorkFacts
  <2> QED BY <1>2, <2>2
<1>8. ASSUME NEW i \in 1..(n - 1) PROVE todo[i + 1] = Work[(d + 1) + i]
  <2>1. i + 1 \in 1..n /\ d + (i + 1) = (d + 1) + i
    BY <1>1, <1>2
  <2> QED BY <1>2, <2>1
<1>9. Tail(todo) = [i \in 1..(n - 1) |-> Work[(d + 1) + i]]
  <2> DEFINE t == Tail(todo)
  <2>1. /\ t \in Seq(Law!Steps) /\ Len(t) = n - 1
        /\ \A i \in 1..(n - 1) : t[i] = todo[i + 1]
    BY <1>3, <1>4, <1>7, HeadTailProperties
  <2> HIDE DEF t
  <2>2. t = [i \in 1..(n - 1) |-> t[i]]
    BY <2>1
  <2> QED BY <1>8, <2>1, <2>2 DEF t
<1>10. Work' = Work
  BY DEF Work, Law!Built, Law!Startup
<1>11. n - 1 = Len(Work) - (d + 1)
  BY <1>1 DEF n
<1>12. Left(d + 1)' = [i \in 1..(n - 1) |-> Work[(d + 1) + i]]
  BY <1>10, <1>11 DEF Left
<1>13. d < Len(Work) /\ d + 1 \in 1..Len(Work)
  BY <1>1, <1>5 DEF n
<1> QED BY <1>4, <1>6, <1>9, <1>10, <1>12, <1>13

\* A step of the construction or of the startup keeps the invariant if it brings the gains
\* to those after it; no substep came before, and the last of a ResidualMPC action is the
\* refresh.
LEMMA LawWorks ==
  ASSUME LawInv, NEW name, Law!Due(name), UNCHANGED <<kind, randomized, listed, lStep>>,
         {sim', own', force', bound', scale'} \subseteq Nat,
         name = "refresh" => bound' = force' /\ scale' = Law!PaperScale(force, own)'
                               /\ sim' = sim /\ own' = own,
         name \notin {"refresh", "effort"} => bound' = bound /\ force' = force,
         NEW d \in 0..Len(Work), LawAt(d), name # "refresh" => Gains(d + 1)'
  PROVE  LawInv'
<1>1. /\ kind \in {"position", "torque", "mpc"} /\ randomized \in BOOLEAN /\ todo = Left(d)
  BY DEF LawInv, LawTypes, LawAt
<1>2. /\ d < Len(Work) /\ d + 1 \in 1..Len(Work) /\ Work[d + 1] = name
      /\ todo' = Left(d + 1)' /\ Work' = Work
  BY <1>1, WorkStep
<1>3. Len(Work) \in 1..7
  BY <1>1, WorkFacts
<1>4. lStep = Law!None
  BY <1>2 DEF LawAt, Bounds
<1>5. Gains(d + 1)'
  <2>1. CASE name # "refresh"
    BY <2>1
  <2>2. CASE name = "refresh"
    <3>1. kind = "mpc" /\ d \in {3, 6}
      BY <1>1, <1>2, <1>3, <2>2, WorkFacts
    <3>2. sim = 0 /\ own \in (IF GainsDone(d) THEN Around ELSE {Base})
      BY <3>1 DEF LawAt, Gains
    <3> QED BY <2>2, <3>1, <3>2 DEF Gains, GainsDone, Around, Base
  <2> QED BY <2>1, <2>2
<1>6. Bounds(d + 1)'
  <2>1. ASSUME kind = "mpc", d + 1 = Len(Work) PROVE name = "refresh"
    BY <1>1, <1>2, <2>1, WorkFacts
  <2> QED BY <1>2, <1>4, <2>1 DEF Bounds, Law!None
<1>7. LawTypes'
  <2>1. lStep'.effort = 0 /\ lStep'.nominal = 0 /\ lStep'.executed = 0
    BY <1>4 DEF Law!None
  <2>2. lStep'.effort \in -bound'..bound'
    BY <2>1
  <2>3. Law!ExecutedIsApplied'
    BY <2>1 DEF Law!ExecutedIsApplied, Law!Applied, Law!Clamp
  <2>4. ModuleLimits'
    <3>1. ASSUME kind = "torque", ~randomized PROVE name \in {"apply", "read", "zero"}
      <4>1. Len(Work) = 3 /\ Work[1] = "apply" /\ Work[2] = "read" /\ Work[3] = "zero"
        BY <1>1, <3>1, WorkIs
      <4>2. d + 1 \in 1..3 /\ Work[d + 1] = name
        BY <1>2, <4>1
      <4> QED BY <4>1, <4>2
    <3> QED BY <3>1 DEF LawInv, LawTypes, ModuleLimits
  <2> QED BY <2>2, <2>3, <2>4 DEF LawInv, LawTypes
<1> QED BY <1>2, <1>3, <1>5, <1>6, <1>7 DEF LawInv, LawAt

LEMMA LawSteps ==
  ASSUME LawInv, [Law!Next]_lawVars
  PROVE  LawInv'
<1> USE LawConstants
<1>1. PICK d \in 0..Len(Work) : LawAt(d)
  BY DEF LawInv
<1>2. /\ kind \in {"position", "torque", "mpc"} /\ randomized \in BOOLEAN
      /\ {sim, own, force, bound, scale} \subseteq Nat /\ Len(Work) \in 1..7
      /\ todo = Left(d) /\ Gains(d)
  BY <1>1, WorkFacts DEF LawInv, LawTypes, LawAt
<1>3. Base \in Nat /\ Base > Spread /\ Base \in {Default, Reference}
  BY DEF Base
<1>4. ASSUME NEW name, Law!Due(name), UNCHANGED <<kind, randomized>>
      PROVE  d \in 0..(Len(Work) - 1) /\ Work[d + 1] = name
  BY <1>2, <1>4, WorkStep
<1>5. CASE Law!ApplyReferencePdGains
  <2>1. /\ Law!Due("apply") /\ sim' = (IF listed THEN Reference ELSE sim)
        /\ UNCHANGED <<kind, randomized, listed, lStep>> /\ UNCHANGED <<own, force, bound, scale>>
    BY <1>5 DEF Law!ApplyReferencePdGains, Law!Fixed
  <2>2. d = 0
    BY <1>2, <1>4, <2>1, WorkFacts
  <2>3. sim = Default /\ own = 0
    BY <1>2, <2>2 DEF Gains, GainsDone
  <2>4. sim' = Base
    BY <2>1, <2>3 DEF Base
  <2>5. Gains(d + 1)'
    BY <2>1, <2>2, <2>3, <2>4 DEF Gains, GainsDone, Base
  <2>6. {sim', own', force', bound', scale'} \subseteq Nat
    BY <1>2, <1>3, <2>1, <2>4
  <2> QED BY <1>1, <2>1, <2>5, <2>6, LawWorks
<1>6. CASE Law!ReadPdGains
  <2>1. /\ Law!Due("read") /\ own' = sim
        /\ UNCHANGED <<kind, randomized, listed, lStep>> /\ UNCHANGED <<sim, force, bound, scale>>
    BY <1>6 DEF Law!ReadPdGains, Law!Fixed
  <2>2. kind # "position" /\ d = 1
    BY <1>2, <1>4, <2>1, WorkFacts
  <2>3. sim = Base
    BY <1>2, <2>2 DEF Gains, GainsDone
  <2>4. Gains(d + 1)'
    BY <2>1, <2>2, <2>3 DEF Gains, GainsDone, Base
  <2>5. {sim', own', force', bound', scale'} \subseteq Nat
    BY <1>2, <2>1
  <2> QED BY <1>1, <2>1, <2>4, <2>5, LawWorks
<1>7. CASE Law!ZeroPdGains
  <2>1. /\ Law!Due("zero") /\ sim' = 0
        /\ UNCHANGED <<kind, randomized, listed, lStep>> /\ UNCHANGED <<own, force, bound, scale>>
    BY <1>7 DEF Law!ZeroPdGains, Law!Fixed, Law!Zeroed
  <2>2. kind # "position" /\ d = 2
    BY <1>2, <1>4, <2>1, WorkFacts
  <2>3. own = Base
    BY <1>2, <2>2 DEF Gains, GainsDone
  <2>4. Gains(d + 1)'
    BY <2>1, <2>2, <2>3 DEF Gains, GainsDone, Base
  <2>5. {sim', own', force', bound', scale'} \subseteq Nat
    BY <1>2, <2>1
  <2> QED BY <1>1, <2>1, <2>4, <2>5, LawWorks
<1>8. CASE Law!Refresh
  <2>1. /\ Law!Due("refresh") /\ bound' = force /\ scale' = Law!PaperScale(force, own)
        /\ UNCHANGED <<kind, randomized, listed, lStep>> /\ UNCHANGED <<sim, own, force>>
    BY <1>8 DEF Law!Refresh, Law!Fixed
  <2>2. kind = "mpc" /\ d \in {3, 6}
    BY <1>2, <1>4, <2>1, WorkFacts
  <2>3. own \in Around \cup {Base}
    BY <1>2, <2>2 DEF Gains
  <2>4. own > 0
    BY <1>3, <2>3 DEF Around
  <2>5. Law!PaperScale(force, own) \in Nat
    <3>1. force \div 5 \in Nat
      BY <1>2
    <3> DEFINE q == force \div 5
    <3>2. q \in Nat /\ own \in Nat /\ own > 0
      BY <1>2, <2>4, <3>1
    <3> HIDE DEF q
    <3>3. q \div own \in Nat
      BY <3>2
    <3> QED BY <3>3 DEF Law!PaperScale, Law!LeastOf, q
  <2>6. {sim', own', force', bound', scale'} \subseteq Nat
    BY <1>2, <2>1, <2>5
  <2>7. Law!PaperScale(force, own)' = Law!PaperScale(force, own)
    BY <2>1 DEF Law!PaperScale, Law!LeastOf
  <2> QED BY <1>1, <2>1, <2>6, <2>7, LawWorks
<1>9. CASE Law!RandomizeGains
  <2>1. PICK by \in {-Spread, 0, Spread} :
          sim' = Law!RandomizedGains(by)[1] /\ own' = Law!RandomizedGains(by)[2]
    BY <1>9 DEF Law!RandomizeGains
  <2>2. /\ Law!Due("gains")
        /\ UNCHANGED <<kind, randomized, listed, lStep>> /\ UNCHANGED <<force, bound, scale>>
    BY <1>9 DEF Law!RandomizeGains, Law!Fixed
  <2>3. \/ kind = "position" /\ d = 1
        \/ kind = "torque" /\ d = 3
        \/ kind = "mpc" /\ d = 4
    BY <1>2, <1>4, <2>2, WorkFacts
  <2>4. Base + by \in Around /\ Base + by \in Nat /\ Base # 0
    BY <1>3 DEF Around
  <2>5. CASE kind = "position"
    <3>1. sim = Base /\ own = 0
      BY <1>2, <2>3, <2>5 DEF Gains, GainsDone
    <3>2. sim' = Base + by /\ own' = 0
      BY <2>1, <2>4, <2>5, <3>1 DEF Law!RandomizedGains, Law!Scaled
    <3>3. Gains(d + 1)'
      BY <2>2, <2>3, <2>4, <2>5, <3>2 DEF Gains, GainsDone, Base, Around
    <3>4. {sim', own', force', bound', scale'} \subseteq Nat
      BY <1>2, <2>2, <2>4, <3>2
    <3> QED BY <1>1, <2>2, <3>3, <3>4, LawWorks
  <2>6. CASE kind # "position"
    <3>1. sim = 0 /\ own = Base
      BY <1>2, <2>3, <2>6 DEF Gains, GainsDone
    <3>2. sim' = 0 /\ own' = Base + by
      BY <2>1, <2>4, <2>6, <3>1 DEF Law!RandomizedGains, Law!Scaled
    <3>3. Gains(d + 1)'
      BY <2>2, <2>3, <2>4, <2>6, <3>2 DEF Gains, GainsDone, Base, Around
    <3>4. {sim', own', force', bound', scale'} \subseteq Nat
      BY <1>2, <2>2, <2>4, <3>2
    <3> QED BY <1>1, <2>2, <3>3, <3>4, LawWorks
  <2> QED BY <2>5, <2>6
<1>10. CASE Law!RandomizeEffort
  <2>1. PICK by \in {-EffortSpread, 0, EffortSpread} : force' = EffortLimit + by
    BY <1>10 DEF Law!RandomizeEffort
  <2>2. /\ Law!Due("effort")
        /\ UNCHANGED <<kind, randomized, listed, lStep>> /\ UNCHANGED <<sim, own, bound, scale>>
    BY <1>10 DEF Law!RandomizeEffort, Law!Fixed
  <2>3. \/ kind = "position" /\ d = 2
        \/ kind = "torque" /\ d = 4
        \/ kind = "mpc" /\ d = 5
    BY <1>2, <1>4, <2>2, WorkFacts
  <2>4. Gains(d + 1)'
    BY <1>2, <2>2, <2>3 DEF Gains, GainsDone, Base, Around
  <2>5. {sim', own', force', bound', scale'} \subseteq Nat
    BY <1>2, <2>1, <2>2
  <2> QED BY <1>1, <2>2, <2>4, <2>5, LawWorks
<1>11. CASE Law!ApplyControl
  <2>1. todo = <<>> /\ UNCHANGED <<kind, randomized, listed, todo, sim, own, force, bound, scale>>
    BY <1>11 DEF Law!ApplyControl
  <2>2. d = Len(Work)
    <3> DEFINE n == Len(Work) - d
    <3>1. n \in Nat /\ todo = [i \in 1..n |-> Work[d + i]]
      BY <1>2 DEF Left
    <3> HIDE DEF n
    <3>2. n = 0
      BY <2>1, <3>1
    <3> QED BY <1>2, <3>2 DEF n
  <2>3. PICK torque \in Torques, residual \in Residuals :
          LET nominal == Law!Nominal(torque) IN
          lStep' = IF kind = "position" THEN Law!None
                  ELSE [torque |-> torque, nominal |-> nominal, residual |-> residual,
                        effort |-> Law!Projected(nominal, residual)[1],
                        executed |-> Law!Projected(nominal, residual)[2]]
    BY <1>11 DEF Law!ApplyControl
  <2> DEFINE nominal == Law!Nominal(torque)
             x == nominal + residual
  <2>7. torque \in Int /\ residual \in Int /\ own \in Int
    BY <1>2
  <2>4. nominal \in Int /\ x \in Int
    BY <2>7 DEF Law!Nominal
  <2>5. CASE kind = "position"
    <3>1. lStep'.effort = 0
      BY <2>3, <2>5 DEF Law!None
    <3>2. LawTypes'
      BY <1>2, <2>1, <2>5, <3>1 DEF LawInv, LawTypes, ModuleLimits, Law!ExecutedIsApplied
    <3>3. Work' = Work
      BY <2>1 DEF Work, Law!Built, Law!Startup
    <3>4. LawAt(d)'
      BY <1>1, <2>1, <2>2, <2>5, <3>3 DEF LawAt, Left, Gains, GainsDone, Bounds, Base, Around
    <3> QED BY <3>2, <3>3, <3>4 DEF LawInv
  <2>6. CASE kind # "position"
    <3>1. /\ lStep'.nominal = nominal /\ lStep'.effort = Law!Clamp(x, bound)
          /\ lStep'.executed = Law!Clamp(x, bound) - Law!Clamp(nominal, bound)
      BY <2>3, <2>6 DEF Law!Projected
    <3> HIDE DEF nominal, x
    <3>2. lStep'.effort \in -bound..bound
      BY <1>2, <2>4, <3>1 DEF Law!Clamp
    <3>3. kind = "mpc" \/ ~randomized => bound = force
      BY <1>1, <1>2, <2>2, <2>6 DEF LawAt, Bounds, LawInv, LawTypes, ModuleLimits
    <3>4. Law!Clamp(Law!Clamp(x, bound), bound) = Law!Clamp(x, bound)
      BY <1>2, <2>4 DEF Law!Clamp
    <3>5. Law!ExecutedIsApplied'
      BY <2>1, <3>1, <3>3, <3>4 DEF Law!ExecutedIsApplied, Law!Applied, Law!Clamp
    <3>6. LawTypes'
      BY <1>2, <2>1, <3>2, <3>5 DEF LawInv, LawTypes, ModuleLimits
    <3>7. Work' = Work
      BY <2>1 DEF Work, Law!Built, Law!Startup
    <3>8. LawAt(d)'
      BY <1>1, <2>1, <2>2, <3>7
         DEF LawAt, Left, Gains, GainsDone, Bounds, Base, Around, Law!PaperScale, Law!LeastOf
    <3> QED BY <3>6, <3>7, <3>8 DEF LawInv
  <2> QED BY <2>5, <2>6
<1>12. CASE UNCHANGED lawVars
  <2>1. UNCHANGED <<kind, randomized, listed, todo, sim, own, force, bound, scale, lStep>>
    BY <1>12 DEF lawVars
  <2>2. Work' = Work
    BY <2>1 DEF Work, Law!Built, Law!Startup
  <2>3. LawTypes'
    BY <2>1 DEF LawInv, LawTypes, ModuleLimits, Law!ExecutedIsApplied, Law!Running,
               Law!Applied, Law!Clamp
  <2>4. LawAt(d)'
    BY <1>1, <2>1, <2>2
       DEF LawAt, Left, Gains, GainsDone, Bounds, Base, Around, Law!PaperScale, Law!LeastOf
  <2> QED BY <2>2, <2>3, <2>4 DEF LawInv
<1> QED BY <1>5, <1>6, <1>7, <1>8, <1>9, <1>10, <1>11, <1>12 DEF Law!Next

LEMMA LawInvariant ==
  /\ Law!Init => LawInv
  /\ LawInv /\ [Law!Next]_lawVars => LawInv'
<1> USE LawConstants
<1>1. ASSUME Law!Init PROVE LawInv
  <2>1. /\ kind \in {"position", "torque", "mpc"} /\ randomized \in BOOLEAN
        /\ listed \in BOOLEAN /\ todo = Work
        /\ sim = Default /\ own = 0 /\ force = EffortLimit /\ bound = EffortLimit
        /\ scale = 0 /\ lStep = Law!None
    BY <1>1 DEF Law!Init, Law!ModuleBound, Work
  <2>2. Len(Work) \in 1..7 /\ Work \in Seq(Law!Steps)
    BY <2>1, WorkFacts
  <2>3. todo = Left(0)
    <3>1. Len(Work) - 0 = Len(Work) /\ \A i \in 1..Len(Work) : 0 + i = i
      BY <2>2
    <3>2. Left(0) = [i \in 1..Len(Work) |-> Work[i]]
      BY <3>1 DEF Left
    <3>3. Work = [i \in 1..Len(Work) |-> Work[i]]
      BY <2>2
    <3> QED BY <2>1, <3>2, <3>3
  <2>4. LawAt(0)
    <3>1. Gains(0)
      BY <2>1 DEF Gains
    <3>2. Bounds(0)
      BY <2>1, <2>2 DEF Bounds
    <3> QED BY <2>3, <3>1, <3>2 DEF LawAt
  <2>5. LawTypes
    BY <2>1 DEF LawTypes, ModuleLimits, Law!ExecutedIsApplied, Law!Applied, Law!Clamp, Law!None
  <2>6. 0 \in 0..Len(Work)
    BY <2>2
  <2> QED BY <2>4, <2>5, <2>6 DEF LawInv
<1> QED BY <1>1, LawSteps

\* A quotient times its divisor is not more than what was divided.
LEMMA QuotientFits ==
  ASSUME NEW n \in Nat, NEW b \in Nat, b > 0
  PROVE  n \div b \in Nat /\ b * (n \div b) <= n
<1>1. n \div b \in Nat /\ n % b \in 0..(b - 1) /\ n = b * (n \div b) + (n % b)
  OBVIOUS
<1> QED BY <1>1

\* What the invariant says once the joint runs.
LEMMA LawGoverns ==
  ASSUME LawInv
  PROVE  /\ Law!TypeOK /\ Law!OnePdLaw /\ Law!LawHasTheReferenceGains
         /\ Law!ActionTorqueIsBounded /\ Law!ExecutedIsApplied
<1> USE LawConstants
<1>1. PICK d \in 0..Len(Work) : LawAt(d)
  BY DEF LawInv
<1>2. /\ kind \in {"position", "torque", "mpc"} /\ randomized \in BOOLEAN
      /\ {sim, own, force, bound, scale} \subseteq Nat /\ Len(Work) \in 1..7
      /\ todo = Left(d) /\ Gains(d)
  BY <1>1, WorkFacts DEF LawInv, LawTypes, LawAt
<1>3. Base \in Nat /\ Base > Spread /\ (Base = IF listed THEN Reference ELSE Default)
  BY DEF Base
<1>4. Law!Running => d = Len(Work)
  <2> DEFINE n == Len(Work) - d
  <2>1. n \in Nat /\ todo = [i \in 1..n |-> Work[d + i]]
    BY <1>2 DEF Left
  <2> HIDE DEF n
  <2>2. Law!Running => n = 0
    BY <2>1 DEF Law!Running
  <2> QED BY <1>2, <2>2 DEF n
<1>5. Law!TypeOK
  <2>1. todo \in Seq(Law!Steps)
    <3> DEFINE n == Len(Work) - d
    <3>1. n \in Nat /\ todo = [i \in 1..n |-> Work[d + i]]
      BY <1>2 DEF Left
    <3>2. \A i \in 1..n : d + i \in 1..Len(Work)
      BY <1>2
    <3>3. \A i \in 1..n : Work[d + i] \in Law!Steps
      BY <1>2, <3>2, WorkFacts
    <3> HIDE DEF n
    <3> QED BY <3>1, <3>3
  <2> QED BY <2>1 DEF LawInv, LawTypes, Law!TypeOK
<1>6. Around \subseteq Nat \ {0} /\ Base \in Around
  BY <1>3 DEF Around
<1>7. ASSUME Law!Running
      PROVE  /\ kind = "position" => own = 0 /\ sim # 0
             /\ kind # "position" => own # 0 /\ sim = 0
             /\ randomized => (IF own = 0 THEN sim ELSE own) \in Around
             /\ ~randomized => (IF own = 0 THEN sim ELSE own) = Base
  <2>1. d = Len(Work)
    BY <1>4, <1>7
  <2>2. CASE kind = "position"
    <3>1. (randomized => d = 3) /\ (~randomized => d = 1)
      BY <1>2, <2>1, <2>2, WorkIs
    <3> QED BY <1>2, <1>6, <2>2, <3>1 DEF Gains, GainsDone
  <2>3. CASE kind = "torque"
    <3>1. (randomized => d = 5) /\ (~randomized => d = 3)
      BY <1>2, <2>1, <2>3, WorkIs
    <3> QED BY <1>2, <1>6, <2>3, <3>1 DEF Gains, GainsDone
  <2>4. CASE kind = "mpc"
    <3>1. (randomized => d = 7) /\ (~randomized => d = 4)
      BY <1>2, <2>1, <2>4, WorkIs
    <3> QED BY <1>2, <1>6, <2>4, <3>1 DEF Gains, GainsDone
  <2> QED BY <1>2, <2>2, <2>3, <2>4
<1>8. Law!OnePdLaw
  BY <1>2, <1>7 DEF Law!OnePdLaw
<1>9. Law!LawHasTheReferenceGains
  BY <1>3, <1>7 DEF Law!LawHasTheReferenceGains, Around
<1>10. Law!ActionTorqueIsBounded
  <2> SUFFICES ASSUME Law!Running, kind = "mpc" PROVE own * scale <= force \div 5
    BY DEF Law!ActionTorqueIsBounded
  <2>1. scale = Law!PaperScale(force, own)
    BY <1>1, <1>4 DEF LawAt, Bounds
  <2> DEFINE q == force \div 5
             r == q \div own
  <2>2. q \in Nat
    BY <1>2
  <2>3. own \in Nat /\ own > 0 /\ scale \in Nat
    BY <1>2, <1>7
  <2>4. r \in Nat /\ own * r <= q
    BY <2>2, <2>3, QuotientFits
  <2>5. scale <= r
    BY <2>1, <2>4 DEF Law!PaperScale, Law!LeastOf
  <2> HIDE DEF q, r
  <2>6. own * scale <= own * r /\ own * scale \in Nat /\ own * r \in Nat
    BY <2>3, <2>4, <2>5
  <2> QED BY <2>2, <2>4, <2>6 DEF q
<1> QED BY <1>5, <1>8, <1>9, <1>10 DEF LawInv, LawTypes

-----------------------------------------------------------------------------
(***************************************************************************)
(* The life of the terms.                                                  *)
(***************************************************************************)

Blocks == {"none", "mapped", "unlinked", "twice"}

TermRecords ==
  [stage : Life!Stages, input : Blocks, output : Blocks,
   manager : {"none", "running", "closed"}, finalizer : {"none", "armed", "spent"},
   has : SUBSET {"input", "output", "views", "manager", "finalizer"}]

\* A term that was not closed: it holds what it created, and the finalizer came last.
Whole(r) ==
  /\ r.input \in {"none", "mapped"} /\ r.output \in {"none", "mapped"}
  /\ r.manager \in {"none", "running"} /\ r.finalizer \in {"none", "armed"}
  /\ "input" \in r.has <=> r.input = "mapped"
  /\ "output" \in r.has <=> r.output = "mapped"
  /\ "manager" \in r.has <=> r.manager = "running"
  /\ "finalizer" \in r.has <=> r.finalizer = "armed"
  /\ r.finalizer = "armed" => r.input = "mapped" /\ r.output = "mapped" /\ r.manager = "running"

\* How far its constructor is.
Progress(r) ==
  /\ r.stage \in {"validate", "residual", "bridge", "input", "output", "manager"} => r.manager = "none"
  /\ r.stage \in {"validate", "residual", "bridge", "input"} => r.input = "none"
  /\ r.stage \in {"validate", "residual", "bridge", "input", "output"} => r.output = "none"
  /\ r.stage \in {"output", "manager", "finalizer"} => r.input = "mapped"
  /\ r.stage \in {"manager", "finalizer"} => r.output = "mapped"
  /\ r.stage = "finalizer" => r.manager = "running"
  /\ r.stage \in {"initialize", "finish", "subclass", "ready"} => r.finalizer = "armed"

\* Its blocks were unlinked once at most, and after the workers were gone.
Sound(r) ==
  /\ r.input # "twice" /\ r.output # "twice"
  /\ r.input = "unlinked" \/ r.output = "unlinked" => r.manager # "running"

\* Nothing of it is left to the resource tracker: the finalizer still has to run, or there
\* is nothing mapped.
Clean(r) == r.finalizer # "armed" => r.input # "mapped" /\ r.output # "mapped"

\* What the finalizer would still unlink was not unlinked yet.
Pending(r) == r.finalizer = "armed" => r.input = "mapped" /\ r.output = "mapped"

LEMMA UnlinkIs ==
  ASSUME NEW b \in Blocks, NEW does
  PROVE  /\ Life!Unlink(b, does) \in Blocks
         /\ ~does => Life!Unlink(b, does) = b
         /\ does => /\ b = "none" => Life!Unlink(b, does) = "none"
                    /\ b = "mapped" => Life!Unlink(b, does) = "unlinked"
                    /\ b \in {"unlinked", "twice"} => Life!Unlink(b, does) = "twice"
BY DEF Life!Unlink, Blocks

\* The first k steps of a release.
LEMMA ReleaseIs ==
  ASSUME NEW r \in TermRecords, NEW k \in Nat
  PROVE  LET s == Life!Release(r, k)
         IN  /\ s \in TermRecords /\ s.stage = r.stage /\ s.has = r.has
             /\ s.finalizer = (IF r.finalizer = "armed" /\ k >= 1 THEN "spent" ELSE r.finalizer)
             /\ s.manager = (IF r.finalizer = "armed" /\ k >= 2 THEN "closed" ELSE r.manager)
             /\ s.input = Life!Unlink(r.input, r.finalizer = "armed" /\ k >= 3)
             /\ s.output = Life!Unlink(r.output, r.finalizer = "armed" /\ k >= 4)
<1> DEFINE i == Life!Unlink(r.input, r.finalizer = "armed" /\ k >= 3)
           o == Life!Unlink(r.output, r.finalizer = "armed" /\ k >= 4)
           s == Life!Release(r, k)
<1>1. r.input \in Blocks /\ r.output \in Blocks
  BY DEF TermRecords
<1>2. i \in Blocks /\ o \in Blocks
  BY <1>1, UnlinkIs
<1>3. s = [r EXCEPT !.finalizer = IF r.finalizer = "armed" /\ k >= 1 THEN "spent" ELSE @,
                    !.manager = IF r.finalizer = "armed" /\ k >= 2 THEN "closed" ELSE @,
                    !.input = i, !.output = o]
  BY DEF Life!Release
<1> HIDE DEF i, o, s
<1>4. /\ s \in TermRecords /\ s.stage = r.stage /\ s.has = r.has
      /\ s.finalizer = (IF r.finalizer = "armed" /\ k >= 1 THEN "spent" ELSE r.finalizer)
      /\ s.manager = (IF r.finalizer = "armed" /\ k >= 2 THEN "closed" ELSE r.manager)
      /\ s.input = i /\ s.output = o
  BY <1>2, <1>3 DEF TermRecords
<1> QED BY <1>4 DEF i, o, s

\* The first k steps of a close, of a term that was not closed before.
LEMMA CloseIs ==
  ASSUME NEW r \in TermRecords, Whole(r), NEW k \in 0..Life!CloseSteps
  PROVE  LET c == Life!Close(r, k)
         IN  /\ c \in TermRecords /\ c.stage = r.stage /\ Sound(c) /\ Pending(c)
             /\ k = Life!CloseSteps => /\ Clean(c) /\ c.manager # "running"
                                       /\ r.finalizer = "armed" => c.manager = "closed"


<1> DEFINE c == Life!Close(r, k)
           kept == r.has \ Life!Dropped(r, k)
           called == IF "finalizer" \in r.has THEN Life!Release(r, k)
                     ELSE [r EXCEPT !.manager =
                             IF k >= 2 /\ "manager" \in r.has THEN "closed" ELSE @]
           i == Life!Unlink(called.input, k >= 8 /\ "input" \in kept)
           o == Life!Unlink(called.output, k >= 9 /\ "output" \in kept)
           left == kept \ ((IF k >= 8 THEN {"input"} ELSE {}) \cup (IF k >= 9 THEN {"output"} ELSE {}))
<1>1. k \in Nat /\ k <= 9 /\ Life!CloseSteps = 9
  BY DEF Life!CloseSteps
<1>2. c = [called EXCEPT !.input = i, !.output = o, !.has = left]
  BY DEF Life!Close
<1>3. called \in TermRecords /\ called.stage = r.stage
  <2>1. CASE "finalizer" \in r.has
    BY <1>1, <2>1, ReleaseIs
  <2>2. CASE "finalizer" \notin r.has
    BY <2>2 DEF TermRecords
  <2> QED BY <2>1, <2>2
<1>4. left \in SUBSET {"input", "output", "views", "manager", "finalizer"}
  BY DEF TermRecords
<1>5. called.input \in Blocks /\ called.output \in Blocks
  BY <1>3 DEF TermRecords
<1>6. i \in Blocks /\ o \in Blocks
  BY <1>5, UnlinkIs
<1>7. CASE "finalizer" \in r.has
  <2>1. r.finalizer = "armed" /\ r.input = "mapped" /\ r.output = "mapped" /\ r.manager = "running"
    BY <1>7 DEF Whole
  <2>2. called = Life!Release(r, k)
    BY <1>7
  <2>3. k >= 5 => "input" \notin kept /\ "output" \notin kept
    BY <1>7 DEF Life!Dropped
  <2>4. /\ called.finalizer = (IF k >= 1 THEN "spent" ELSE "armed")
        /\ called.manager = (IF k >= 2 THEN "closed" ELSE "running")
        /\ called.input = Life!Unlink("mapped", r.finalizer = "armed" /\ k >= 3)
        /\ called.output = Life!Unlink("mapped", r.finalizer = "armed" /\ k >= 4)
    <3> DEFINE s == Life!Release(r, k)
    <3>1. /\ s.finalizer = (IF r.finalizer = "armed" /\ k >= 1 THEN "spent" ELSE r.finalizer)
          /\ s.manager = (IF r.finalizer = "armed" /\ k >= 2 THEN "closed" ELSE r.manager)
          /\ s.input = Life!Unlink(r.input, r.finalizer = "armed" /\ k >= 3)
          /\ s.output = Life!Unlink(r.output, r.finalizer = "armed" /\ k >= 4)
      BY <1>1, ReleaseIs
    <3>2. called = s
      BY <2>2
    <3> HIDE DEF s, called
    <3> QED BY <2>1, <3>1, <3>2
  <2>5. "mapped" \in Blocks
    BY DEF Blocks
  <2>6. /\ called.input = (IF k >= 3 THEN "unlinked" ELSE "mapped")
        /\ called.output = (IF k >= 4 THEN "unlinked" ELSE "mapped")
    BY <2>1, <2>4, <2>5, UnlinkIs
  <2>7. i = called.input
    <3>1. ~(k >= 8 /\ "input" \in kept)
      BY <1>1, <2>3
    <3> HIDE DEF called, kept
    <3> QED BY <1>5, <3>1, UnlinkIs
  <2>8. o = called.output
    <3>1. ~(k >= 9 /\ "output" \in kept)
      BY <1>1, <2>3
    <3> HIDE DEF called, kept
    <3> QED BY <1>5, <3>1, UnlinkIs
  <2> HIDE DEF c, called, i, o, left
  <2>9. /\ c \in TermRecords /\ c.stage = r.stage /\ c.finalizer = called.finalizer
        /\ c.manager = called.manager /\ c.input = i /\ c.output = o
    BY <1>2, <1>3, <1>4, <1>6 DEF TermRecords
  <2>10. Sound(c) /\ Pending(c)
    BY <1>1, <2>4, <2>6, <2>7, <2>8, <2>9 DEF Sound, Pending
  <2>11. k = 9 => Clean(c) /\ c.manager = "closed"
    BY <2>4, <2>6, <2>7, <2>8, <2>9 DEF Clean
  <2> QED BY <1>1, <2>9, <2>10, <2>11 DEF c
<1>8. CASE "finalizer" \notin r.has
  <2>1. called = [r EXCEPT !.manager = IF k >= 2 /\ "manager" \in r.has THEN "closed" ELSE @]
    BY <1>8
  <2>2. /\ called.finalizer = r.finalizer /\ called.input = r.input /\ called.output = r.output
        /\ called.manager = (IF k >= 2 /\ r.manager = "running" THEN "closed" ELSE r.manager)
        /\ r.finalizer = "none"
    BY <1>8, <2>1 DEF TermRecords, Whole
  <2>3. /\ "input" \in kept <=> r.input = "mapped"
        /\ "output" \in kept <=> r.output = "mapped"
    BY <1>8 DEF Life!Dropped, Whole
  <2>4. /\ i = (IF k >= 8 /\ r.input = "mapped" THEN "unlinked" ELSE r.input)
        /\ o = (IF k >= 9 /\ r.output = "mapped" THEN "unlinked" ELSE r.output)
    <3> DEFINE first == k >= 8 /\ "input" \in kept
               second == k >= 9 /\ "output" \in kept
    <3>1. /\ i = Life!Unlink(r.input, first) /\ o = Life!Unlink(r.output, second)
          /\ r.input \in Blocks /\ r.output \in Blocks
      BY <1>5, <2>2
    <3>2. /\ first <=> k >= 8 /\ r.input = "mapped"
          /\ second <=> k >= 9 /\ r.output = "mapped"
      BY <2>3
    <3> HIDE DEF first, second, i, o
    <3>5. i = (IF k >= 8 /\ r.input = "mapped" THEN "unlinked" ELSE r.input)
      BY <3>1, <3>2, UnlinkIs
    <3>6. o = (IF k >= 9 /\ r.output = "mapped" THEN "unlinked" ELSE r.output)
      BY <3>1, <3>2, UnlinkIs
    <3> QED BY <3>5, <3>6
  <2> HIDE DEF c, called, i, o, left
  <2>5. /\ c \in TermRecords /\ c.stage = r.stage /\ c.finalizer = called.finalizer
        /\ c.manager = called.manager /\ c.input = i /\ c.output = o
    BY <1>2, <1>3, <1>4, <1>6 DEF TermRecords
  <2>6. Sound(c) /\ Pending(c)
    BY <1>1, <2>2, <2>4, <2>5 DEF Sound, Pending, Whole
  <2>7. k = 9 => Clean(c) /\ c.manager # "running"
    BY <2>2, <2>4, <2>5 DEF Clean, Whole
  <2> QED BY <1>1, <2>2, <2>5, <2>6, <2>7 DEF c
<1> QED BY <1>7, <1>8

\* What is left of a term when the interpreter ended.
Final(r) ==
  LET s == Life!Release(r, Life!CloseSteps)
  IN  [s EXCEPT !.manager = IF @ = "running" THEN "closed" ELSE @, !.has = {}]

LEMMA ExitIs ==
  ASSUME NEW r \in TermRecords, Sound(r), Pending(r)
  PROVE  LET s == Life!Release(r, Life!CloseSteps)
         IN  /\ Final(r) \in TermRecords /\ Sound(Final(r)) /\ Pending(Final(r))
             /\ r.manager = "closed" => Final(r).manager = "closed"
             /\ Clean(r) => s.input # "mapped" /\ s.output # "mapped"
<1> DEFINE s == Life!Release(r, Life!CloseSteps)
<1>1. PICK k \in Nat : k = 9 /\ k = Life!CloseSteps
  BY DEF Life!CloseSteps
<1>2. /\ s \in TermRecords
      /\ s.finalizer = (IF r.finalizer = "armed" /\ k >= 1 THEN "spent" ELSE r.finalizer)
      /\ s.manager = (IF r.finalizer = "armed" /\ k >= 2 THEN "closed" ELSE r.manager)
      /\ s.input = Life!Unlink(r.input, r.finalizer = "armed" /\ k >= 3)
      /\ s.output = Life!Unlink(r.output, r.finalizer = "armed" /\ k >= 4)
  BY <1>1, ReleaseIs
<1>3. Final(r) = [s EXCEPT !.manager = IF @ = "running" THEN "closed" ELSE @, !.has = {}]
  BY DEF Final
<1> HIDE DEF s
<1>4. /\ Final(r) \in TermRecords /\ Final(r).finalizer = s.finalizer
      /\ Final(r).input = s.input /\ Final(r).output = s.output
      /\ Final(r).manager = (IF s.manager = "running" THEN "closed" ELSE s.manager)
  BY <1>2, <1>3 DEF TermRecords
<1>5. r.input \in Blocks /\ r.output \in Blocks
  BY DEF TermRecords
<1>6. CASE r.finalizer = "armed"
  <2>1. r.input = "mapped" /\ r.output = "mapped"
    BY <1>6 DEF Pending
  <2>2. s.input = "unlinked" /\ s.output = "unlinked"
    <3> DEFINE third == r.finalizer = "armed" /\ k >= 3
               fourth == r.finalizer = "armed" /\ k >= 4
    <3>1. /\ third /\ s.input = Life!Unlink("mapped", third)
          /\ fourth /\ s.output = Life!Unlink("mapped", fourth)
      BY <1>1, <1>2, <1>6, <2>1
    <3> HIDE DEF third, fourth
    <3> QED BY <1>5, <2>1, <3>1, UnlinkIs
  <2>3. s.finalizer = "spent" /\ s.manager = "closed"
    BY <1>1, <1>2, <1>6
  <2> QED BY <1>4, <2>2, <2>3 DEF Sound, Pending, s
<1>7. CASE r.finalizer # "armed"
  <2>1. s.input = r.input /\ s.output = r.output
    <3> DEFINE third == r.finalizer = "armed" /\ k >= 3
               fourth == r.finalizer = "armed" /\ k >= 4
    <3>1. /\ ~third /\ s.input = Life!Unlink(r.input, third)
          /\ ~fourth /\ s.output = Life!Unlink(r.output, fourth)
      BY <1>2, <1>7
    <3> HIDE DEF third, fourth
    <3> QED BY <1>5, <3>1, UnlinkIs
  <2>2. s.finalizer = r.finalizer /\ s.manager = r.manager
    BY <1>2, <1>7
  <2> QED BY <1>4, <1>7, <2>1, <2>2 DEF Sound, Pending, Clean, s
<1> QED BY <1>6, <1>7

Term == 1..Terms

\* The terms before the current one are ready, those after it untouched; a term that was
\* closed is clean unless an interrupt cut that close short.
LifeStages ==
  /\ proc = "build" =>
       /\ \A t \in Term : Whole(terms[t]) /\ Progress(terms[t])
       /\ \A t \in Term : t < term => terms[t].stage = "ready"
       /\ \A t \in Term : t > term => terms[t].stage = "validate"
  /\ proc = "body" => term = Terms
  /\ proc \in {"body", "unwind"} =>
       \A t \in Term : t <= term => Whole(terms[t]) /\ terms[t].finalizer = "armed"
  /\ proc = "unwind" =>
       \A t \in Term : t > term => t \in interrupted \/ (Clean(terms[t]) /\ terms[t].manager = "closed")
  /\ proc = "exit" => \A t \in Term : t \in interrupted \/ Clean(terms[t])
  /\ proc \notin {"exit", "gone"} => ~envClosed
  /\ Life!NothingIsLeaked /\ Life!ControllersCloseFirst

LifeInv ==
  /\ proc \in {"build", "body", "unwind", "exit", "gone"} /\ term \in Term
  /\ terms \in [Term -> TermRecords]
  /\ \A t \in Term : Sound(terms[t]) /\ Pending(terms[t])
  /\ interrupted \subseteq Term /\ leaked \subseteq Term
  /\ LifeStages

LEMMA LifeConstants == Terms \in Nat \ {0} /\ Life!Term = Term
BY PartsAssumption DEF Life!LifecycleAssumption, Life!Term, Term

\* A step of the constructor keeps the term whole and on its way.
LEMMA Constructs ==
  ASSUME LifeInv, NEW stage, NEW next \in Life!Stages, NEW after,
         Life!Construct(stage, next, after), stage # "ready",
         LET r == [after EXCEPT !.stage = next]
         IN  r \in TermRecords /\ Whole(r) /\ Progress(r)
  PROVE  LifeInv'
<1> USE LifeConstants
<1> DEFINE r == [after EXCEPT !.stage = next]
<1>1. /\ proc = "build" /\ terms[term].stage = stage /\ terms' = [terms EXCEPT ![term] = r]
      /\ UNCHANGED <<proc, term, managed, envClosed, interrupted, leaked>>
  BY DEF Life!Construct
<1>2. r \in TermRecords /\ Whole(r) /\ Progress(r)
  OBVIOUS
<1> HIDE DEF r
<1>3. terms \in [Term -> TermRecords] /\ term \in Term
  BY DEF LifeInv
<1>4. Sound(r) /\ Pending(r)
  BY <1>2 DEF Whole, Sound, Pending
<1>5. terms' \in [Term -> TermRecords] /\ \A t \in Term : terms'[t] = IF t = term THEN r ELSE terms[t]
  BY <1>1, <1>2, <1>3
<1>6. \A t \in Term : Sound(terms'[t]) /\ Pending(terms'[t])
  BY <1>4, <1>5 DEF LifeInv
<1>7. \A t \in Term : Whole(terms'[t]) /\ Progress(terms'[t])
  BY <1>1, <1>2, <1>5 DEF LifeInv, LifeStages
<1>8. /\ \A t \in Term : t < term => terms'[t].stage = "ready"
      /\ \A t \in Term : t > term => terms'[t].stage = "validate"
  BY <1>1, <1>3, <1>5 DEF LifeInv, LifeStages, Term
<1>9. LifeStages'
  BY <1>1, <1>7, <1>8
     DEF LifeInv, LifeStages, Life!NothingIsLeaked, Life!ControllersCloseFirst
<1> QED BY <1>1, <1>5, <1>6, <1>9 DEF LifeInv

LEMMA Built ==
  ASSUME LifeInv,
         \/ Life!ValidateCfg \/ Life!SetupResidual \/ Life!BuildBridge \/ Life!CreateInput
         \/ Life!CreateOutput \/ Life!StartManager \/ Life!ArmFinalizer \/ Life!Initialize
         \/ Life!FinishInitialization \/ Life!SubclassInit
  PROVE  LifeInv'
<1> USE LifeConstants
<1> DEFINE now == terms[term]
<1>1. /\ proc = "build" /\ now \in TermRecords /\ Whole(now) /\ Progress(now) /\ Life!Now = now
  BY DEF LifeInv, LifeStages, Life!Now, Life!Construct, Life!ValidateCfg, Life!SetupResidual,
         Life!BuildBridge, Life!CreateInput, Life!CreateOutput, Life!StartManager,
         Life!ArmFinalizer, Life!Initialize, Life!FinishInitialization, Life!SubclassInit
<1>2. ASSUME NEW stage, NEW next, NEW after, Life!Construct(stage, next, after)
      PROVE  now.stage = stage
  BY <1>2 DEF Life!Construct
<1> HIDE DEF now
<1>3. CASE Life!ValidateCfg
  <2> DEFINE r == [now EXCEPT !.stage = "residual"]
  <2>1. Life!Construct("validate", "residual", now)
    BY <1>1, <1>3 DEF Life!ValidateCfg
  <2>2. r \in TermRecords /\ Whole(r) /\ Progress(r)
    BY <1>1, <1>2, <2>1 DEF TermRecords, Whole, Progress, Life!Stages
  <2> QED BY <2>1, <2>2, Constructs DEF Life!Stages
<1>4. CASE Life!SetupResidual
  <2> DEFINE r == [now EXCEPT !.stage = "bridge"]
  <2>1. Life!Construct("residual", "bridge", now)
    BY <1>1, <1>4 DEF Life!SetupResidual
  <2>2. r \in TermRecords /\ Whole(r) /\ Progress(r)
    BY <1>1, <1>2, <2>1 DEF TermRecords, Whole, Progress, Life!Stages
  <2> QED BY <2>1, <2>2, Constructs DEF Life!Stages
<1>5. CASE Life!BuildBridge
  <2> DEFINE r == [now EXCEPT !.stage = "input"]
  <2>1. Life!Construct("bridge", "input", now)
    BY <1>1, <1>5 DEF Life!BuildBridge
  <2>2. r \in TermRecords /\ Whole(r) /\ Progress(r)
    BY <1>1, <1>2, <2>1 DEF TermRecords, Whole, Progress, Life!Stages
  <2> QED BY <2>1, <2>2, Constructs DEF Life!Stages
<1>6. CASE Life!CreateInput
  <2> DEFINE a == [now EXCEPT !.input = "mapped", !.has = @ \cup {"input"}]
             r == [a EXCEPT !.stage = "output"]
  <2>1. Life!Construct("input", "output", a)
    BY <1>1, <1>6 DEF Life!CreateInput
  <2>2. r \in TermRecords /\ Whole(r) /\ Progress(r)
    BY <1>1, <1>2, <2>1 DEF TermRecords, Whole, Progress, Life!Stages, Blocks
  <2> QED BY <2>1, <2>2, Constructs DEF Life!Stages
<1>7. CASE Life!CreateOutput
  <2> DEFINE a == [now EXCEPT !.output = "mapped", !.has = @ \cup {"output", "views"}]
             r == [a EXCEPT !.stage = "manager"]
  <2>1. Life!Construct("output", "manager", a)
    BY <1>1, <1>7 DEF Life!CreateOutput
  <2>2. r \in TermRecords /\ Whole(r) /\ Progress(r)
    BY <1>1, <1>2, <2>1 DEF TermRecords, Whole, Progress, Life!Stages, Blocks
  <2> QED BY <2>1, <2>2, Constructs DEF Life!Stages
<1>8. CASE Life!StartManager
  <2> DEFINE a == [now EXCEPT !.manager = "running", !.has = @ \cup {"manager"}]
             r == [a EXCEPT !.stage = "finalizer"]
  <2>1. Life!Construct("manager", "finalizer", a)
    BY <1>1, <1>8 DEF Life!StartManager
  <2>2. r \in TermRecords /\ Whole(r) /\ Progress(r)
    BY <1>1, <1>2, <2>1 DEF TermRecords, Whole, Progress, Life!Stages
  <2> QED BY <2>1, <2>2, Constructs DEF Life!Stages
<1>9. CASE Life!ArmFinalizer
  <2> DEFINE a == [now EXCEPT !.finalizer = "armed", !.has = @ \cup {"finalizer"}]
             r == [a EXCEPT !.stage = "initialize"]
  <2>1. Life!Construct("finalizer", "initialize", a)
    BY <1>1, <1>9 DEF Life!ArmFinalizer
  <2>2. r \in TermRecords /\ Whole(r) /\ Progress(r)
    BY <1>1, <1>2, <2>1 DEF TermRecords, Whole, Progress, Life!Stages
  <2> QED BY <2>1, <2>2, Constructs DEF Life!Stages
<1>10. CASE Life!Initialize
  <2> DEFINE r == [now EXCEPT !.stage = "finish"]
  <2>1. Life!Construct("initialize", "finish", now)
    BY <1>1, <1>10 DEF Life!Initialize
  <2>2. r \in TermRecords /\ Whole(r) /\ Progress(r)
    BY <1>1, <1>2, <2>1 DEF TermRecords, Whole, Progress, Life!Stages
  <2> QED BY <2>1, <2>2, Constructs DEF Life!Stages
<1>11. CASE Life!FinishInitialization
  <2> DEFINE r == [now EXCEPT !.stage = "subclass"]
  <2>1. Life!Construct("finish", "subclass", now)
    BY <1>1, <1>11 DEF Life!FinishInitialization
  <2>2. r \in TermRecords /\ Whole(r) /\ Progress(r)
    BY <1>1, <1>2, <2>1 DEF TermRecords, Whole, Progress, Life!Stages
  <2> QED BY <2>1, <2>2, Constructs DEF Life!Stages
<1>12. CASE Life!SubclassInit
  <2> DEFINE r == [now EXCEPT !.stage = "ready"]
  <2>1. Life!Construct("subclass", "ready", now)
    BY <1>1, <1>12 DEF Life!SubclassInit
  <2>2. r \in TermRecords /\ Whole(r) /\ Progress(r)
    BY <1>1, <1>2, <2>1 DEF TermRecords, Whole, Progress, Life!Stages
  <2> QED BY <2>1, <2>2, Constructs DEF Life!Stages
<1> QED BY <1>3, <1>4, <1>5, <1>6, <1>7, <1>8, <1>9, <1>10, <1>11, <1>12

\* Closing the current term leaves the others alone.
LEMMA ClosesOne ==
  ASSUME LifeInv, Whole(terms[term]), NEW k \in 0..Life!CloseSteps, Life!CloseCurrent(k)
  PROVE  LET c == terms'[term]
         IN  /\ terms' \in [Term -> TermRecords]
             /\ \A t \in Term : t # term => terms'[t] = terms[t]
             /\ \A t \in Term : Sound(terms'[t]) /\ Pending(terms'[t])
             /\ interrupted' \subseteq Term /\ interrupted \subseteq interrupted'
             /\ term \in interrupted' \/ (Clean(c) /\ c.manager # "running")
             /\ terms[term].finalizer = "armed" => term \in interrupted' \/ c.manager = "closed"
<1> USE LifeConstants
<1> DEFINE r == Life!Close(terms[term], k)
<1>1. terms \in [Term -> TermRecords] /\ term \in Term /\ terms[term] \in TermRecords
  BY DEF LifeInv
<1>2. terms' = [terms EXCEPT ![term] = r]
  BY DEF Life!CloseCurrent
<1>3. /\ r \in TermRecords /\ Sound(r) /\ Pending(r)
      /\ k = Life!CloseSteps => /\ Clean(r) /\ r.manager # "running"
                                /\ terms[term].finalizer = "armed" => r.manager = "closed"
  BY <1>1, CloseIs
<1> HIDE DEF r
<1>4. /\ terms' \in [Term -> TermRecords] /\ terms'[term] = r
      /\ \A t \in Term : t # term => terms'[t] = terms[t]
  BY <1>1, <1>2, <1>3
<1>5. \A t \in Term : Sound(terms'[t]) /\ Pending(terms'[t])
  BY <1>3, <1>4 DEF LifeInv
<1>6. k = Life!CloseSteps => interrupted' = interrupted
  BY DEF Life!CloseCurrent
<1>7. k # Life!CloseSteps => interrupted' = interrupted \cup {term}
  BY DEF Life!CloseCurrent
<1>8. interrupted' \subseteq Term /\ interrupted \subseteq interrupted'
  BY <1>1, <1>6, <1>7 DEF LifeInv
<1>9. term \in interrupted' \/ k = Life!CloseSteps
  BY <1>7
<1> QED BY <1>3, <1>4, <1>5, <1>8, <1>9

LEMMA Closes ==
  ASSUME LifeInv, Life!ConstructionFails \/ Life!Unwind
  PROVE  LifeInv'
<1> USE LifeConstants
<1>1. terms \in [Term -> TermRecords] /\ term \in Term /\ leaked \subseteq Term
  BY DEF LifeInv
<1>2. ASSUME NEW t \in Term, Whole(terms[t]), terms[t].finalizer = "armed"
      PROVE  Clean(terms[t])
  BY <1>2 DEF Clean
<1>3. CASE Life!ConstructionFails
  <2>1. /\ proc = "build" /\ proc' = "exit" /\ terms[term].stage # "ready"
        /\ UNCHANGED <<term, managed, envClosed, leaked>>
    BY <1>3 DEF Life!ConstructionFails, Life!Now
  <2>2. /\ \A t \in Term : Whole(terms[t]) /\ Progress(terms[t])
        /\ \A t \in Term : t < term => terms[t].stage = "ready"
        /\ \A t \in Term : t > term => terms[t].stage = "validate"
        /\ ~envClosed /\ Life!NothingIsLeaked
    BY <2>1 DEF LifeInv, LifeStages
  <2>3. ASSUME NEW t \in Term, t # term PROVE Clean(terms[t])
    <3>1. t < term \/ t > term
      BY <1>1, <2>3 DEF Term
    <3> QED BY <2>2, <3>1 DEF Clean, Progress
  <2>4. CASE terms[term].stage \in Life!Guarded
    <3>1. PICK k \in 0..Life!CloseSteps : Life!CloseCurrent(k)
      BY <1>3, <2>4 DEF Life!ConstructionFails, Life!Now
    <3>2. Whole(terms[term])
      BY <1>1, <2>2
    <3>3. /\ terms' \in [Term -> TermRecords]
          /\ \A t \in Term : t # term => terms'[t] = terms[t]
          /\ \A t \in Term : Sound(terms'[t]) /\ Pending(terms'[t])
          /\ interrupted' \subseteq Term /\ interrupted \subseteq interrupted'
          /\ term \in interrupted' \/ Clean(terms'[term])
      BY <3>1, <3>2, ClosesOne
    <3>4. \A t \in Term : t \in interrupted' \/ Clean(terms'[t])
      BY <2>3, <3>3
    <3>5. LifeStages'
      BY <2>1, <2>2, <3>3, <3>4
         DEF LifeStages, Life!NothingIsLeaked, Life!ControllersCloseFirst
    <3> QED BY <1>1, <2>1, <3>3, <3>5 DEF LifeInv
  <2>5. CASE terms[term].stage \notin Life!Guarded
    <3>1. UNCHANGED <<terms, interrupted>>
      BY <1>3, <2>5 DEF Life!ConstructionFails, Life!Now
    <3>2. terms[term].stage \in {"validate", "residual", "bridge", "subclass"}
      BY <1>1, <2>1, <2>5 DEF TermRecords, Life!Stages, Life!Guarded
    <3>3. Clean(terms[term])
      BY <1>1, <2>2, <3>2 DEF Clean, Progress
    <3>4. \A t \in Term : Clean(terms'[t])
      BY <2>3, <3>1, <3>3
    <3>5. LifeStages'
      BY <2>1, <2>2, <3>1, <3>4
         DEF LifeStages, Life!NothingIsLeaked, Life!ControllersCloseFirst
    <3> QED BY <2>1, <3>1, <3>5 DEF LifeInv
  <2> QED BY <2>4, <2>5
<1>4. CASE Life!Unwind
  <2>1. PICK k \in 0..Life!CloseSteps :
          /\ Life!CloseCurrent(k)
          /\ IF Life!Unwound(k) > 1 THEN term' = term - 1 /\ UNCHANGED <<proc, envClosed>>
             ELSE proc' = "exit" /\ envClosed' = TRUE /\ UNCHANGED term
    BY <1>4, Zenon DEF Life!Unwind
  <2>2. proc = "unwind" /\ UNCHANGED <<managed, leaked>>
    BY <1>4 DEF Life!Unwind
  <2>3. /\ \A t \in Term : t <= term => Whole(terms[t]) /\ terms[t].finalizer = "armed"
        /\ \A t \in Term : t > term =>
              t \in interrupted \/ (Clean(terms[t]) /\ terms[t].manager = "closed")
        /\ Life!NothingIsLeaked /\ ~envClosed
    BY <2>2 DEF LifeInv, LifeStages
  <2>4. Whole(terms[term]) /\ terms[term].finalizer = "armed"
    BY <1>1, <2>3 DEF Term
  <2>5. /\ terms' \in [Term -> TermRecords]
        /\ \A t \in Term : t # term => terms'[t] = terms[t]
        /\ \A t \in Term : Sound(terms'[t]) /\ Pending(terms'[t])
        /\ interrupted' \subseteq Term /\ interrupted \subseteq interrupted'
        /\ term \in interrupted' \/ (Clean(terms'[term]) /\ terms'[term].manager = "closed")
    BY <2>1, <2>4, ClosesOne
  <2>6. ASSUME NEW t \in Term, t >= term
        PROVE  t \in interrupted' \/ (Clean(terms'[t]) /\ terms'[t].manager = "closed")
    <3>1. t = term \/ t > term
      BY <1>1, <2>6 DEF Term
    <3> QED BY <2>3, <2>5, <3>1
  <2>7. CASE term > 1
    <3>1. term' = term - 1 /\ UNCHANGED <<proc, envClosed>>
      BY <2>1, <2>7 DEF Life!Unwound
    <3>2. term' \in Term
      BY <1>1, <2>7, <3>1 DEF Term
    <3>3. \A t \in Term : t <= term' => Whole(terms'[t]) /\ terms'[t].finalizer = "armed"
      <4> SUFFICES ASSUME NEW t \in Term, t <= term' PROVE Whole(terms'[t]) /\ terms'[t].finalizer = "armed"
        OBVIOUS
      <4>1. t <= term /\ t # term
        BY <1>1, <3>1 DEF Term
      <4> QED BY <2>3, <2>5, <4>1
    <3>4. \A t \in Term : t > term' =>
            t \in interrupted' \/ (Clean(terms'[t]) /\ terms'[t].manager = "closed")
      <4> SUFFICES ASSUME NEW t \in Term, t > term' PROVE t >= term
        BY <2>6
      <4> QED BY <1>1, <3>1 DEF Term
    <3>5. LifeStages'
      BY <2>2, <2>3, <2>5, <3>1, <3>3, <3>4
         DEF LifeStages, Life!NothingIsLeaked, Life!ControllersCloseFirst
    <3> QED BY <1>1, <2>2, <2>5, <3>1, <3>2, <3>5 DEF LifeInv
  <2>8. CASE ~(term > 1)
    <3>1. proc' = "exit" /\ envClosed' = TRUE /\ term' = term
      BY <2>1, <2>8 DEF Life!Unwound
    <3>2. \A t \in Term : t >= term
      BY <1>1, <2>8 DEF Term
    <3>3. \A t \in Term : t \in interrupted' \/ (Clean(terms'[t]) /\ terms'[t].manager = "closed")
      BY <2>6, <3>2
    <3>4. LifeStages'
      BY <2>2, <2>3, <2>5, <3>1, <3>3
         DEF LifeStages, Life!NothingIsLeaked, Life!ControllersCloseFirst
    <3> QED BY <1>1, <2>2, <2>5, <3>1, <3>4 DEF LifeInv
  <2> QED BY <2>7, <2>8
<1> QED BY <1>3, <1>4

LEMMA Lives ==
  ASSUME LifeInv, Life!TermBuilt \/ Life!BodyEnds \/ UNCHANGED lifeVars
  PROVE  LifeInv'
<1> USE LifeConstants
<1>1. terms \in [Term -> TermRecords] /\ term \in Term /\ leaked \subseteq Term
  BY DEF LifeInv
<1>2. CASE Life!TermBuilt
  <2>1. /\ proc = "build" /\ terms[term].stage = "ready"
        /\ IF term < Terms THEN term' = term + 1 /\ UNCHANGED proc
           ELSE proc' = "body" /\ UNCHANGED term
        /\ UNCHANGED <<terms, managed, envClosed, interrupted, leaked>>
    BY <1>2 DEF Life!TermBuilt, Life!Now
  <2>2. /\ \A t \in Term : Whole(terms[t]) /\ Progress(terms[t])
        /\ \A t \in Term : t < term => terms[t].stage = "ready"
        /\ \A t \in Term : t > term => terms[t].stage = "validate"
        /\ ~envClosed /\ Life!NothingIsLeaked
    BY <2>1 DEF LifeInv, LifeStages
  <2>3. \A t \in Term : t <= term => terms[t].stage = "ready"
    <3> SUFFICES ASSUME NEW t \in Term, t <= term PROVE terms[t].stage = "ready"
      OBVIOUS
    <3>1. t < term \/ t = term
      BY <1>1 DEF Term
    <3> QED BY <2>1, <2>2, <3>1
  <2>4. CASE term < Terms
    <3>1. term' = term + 1 /\ proc' = proc /\ term' \in Term
      BY <1>1, <2>1, <2>4 DEF Term
    <3>2. /\ \A t \in Term : t < term' => terms'[t].stage = "ready"
          /\ \A t \in Term : t > term' => terms'[t].stage = "validate"
      <4>1. \A t \in Term : (t < term' => t <= term) /\ (t > term' => t > term)
        BY <1>1, <3>1 DEF Term
      <4> QED BY <2>1, <2>2, <2>3, <4>1
    <3>3. LifeStages'
      BY <2>1, <2>2, <3>1, <3>2 DEF LifeStages, Life!NothingIsLeaked, Life!ControllersCloseFirst
    <3> QED BY <1>1, <2>1, <3>1, <3>3 DEF LifeInv
  <2>5. CASE ~(term < Terms)
    <3>1. term' = term /\ proc' = "body" /\ term = Terms
      BY <1>1, <2>1, <2>5 DEF Term
    <3>2. \A t \in Term : terms[t].stage = "ready"
      BY <2>3, <3>1 DEF Term
    <3>3. \A t \in Term : Whole(terms[t]) /\ terms[t].finalizer = "armed"
      BY <2>2, <3>2 DEF Progress
    <3>4. LifeStages'
      BY <2>1, <2>2, <3>1, <3>3 DEF LifeStages, Life!NothingIsLeaked, Life!ControllersCloseFirst
    <3> QED BY <1>1, <2>1, <3>1, <3>4 DEF LifeInv
  <2> QED BY <2>4, <2>5
<1>3. CASE Life!BodyEnds
  <2>1. /\ proc = "body" /\ UNCHANGED <<term, terms, managed, interrupted, leaked>>
        /\ IF managed THEN proc' = "unwind" /\ UNCHANGED envClosed
           ELSE proc' = "exit" /\ envClosed' \in BOOLEAN
    BY <1>3 DEF Life!BodyEnds
  <2>2. /\ \A t \in Term : t <= term => Whole(terms[t]) /\ terms[t].finalizer = "armed"
        /\ term = Terms /\ ~envClosed /\ Life!NothingIsLeaked
    BY <2>1 DEF LifeInv, LifeStages
  <2>3. \A t \in Term : t <= term /\ ~(t > term)
    BY <1>1, <2>2 DEF Term
  <2>4. \A t \in Term : Clean(terms[t])
    BY <2>2, <2>3 DEF Clean, Whole
  <2>5. CASE managed
    <3>1. proc' = "unwind" /\ envClosed' = envClosed
      BY <2>1, <2>5
    <3>2. LifeStages'
      BY <2>1, <2>2, <2>3, <3>1 DEF LifeStages, Life!NothingIsLeaked, Life!ControllersCloseFirst
    <3> QED BY <1>1, <2>1, <3>1, <3>2 DEF LifeInv
  <2>6. CASE ~managed
    <3>1. proc' = "exit" /\ ~managed'
      BY <2>1, <2>6
    <3>2. LifeStages'
      BY <2>1, <2>2, <2>4, <3>1 DEF LifeStages, Life!NothingIsLeaked, Life!ControllersCloseFirst
    <3> QED BY <1>1, <2>1, <3>1, <3>2 DEF LifeInv
  <2> QED BY <2>5, <2>6
<1>4. CASE UNCHANGED lifeVars
  <2>1. UNCHANGED <<proc, term, terms, managed, envClosed, interrupted, leaked>>
    BY <1>4 DEF lifeVars
  <2>2. LifeStages'
    BY <2>1 DEF LifeInv, LifeStages, Life!NothingIsLeaked, Life!ControllersCloseFirst
  <2> QED BY <2>1, <2>2 DEF LifeInv
<1> QED BY <1>2, <1>3, <1>4

LEMMA Exits ==
  ASSUME LifeInv, Life!Exit
  PROVE  LifeInv'
<1> USE LifeConstants
<1>1. terms \in [Term -> TermRecords] /\ term \in Term
  BY DEF LifeInv
<1>2. /\ proc = "exit" /\ proc' = "gone" /\ UNCHANGED <<term, managed, envClosed, interrupted>>
  BY DEF Life!Exit
<1> DEFINE s == [t \in Term |-> Life!Release(terms[t], Life!CloseSteps)]
<1>3. /\ leaked' = {t \in Term : "mapped" \in {s[t].input, s[t].output}}
      /\ terms' = [t \in Term |-> [s[t] EXCEPT
                      !.manager = IF @ = "running" THEN "closed" ELSE @, !.has = {}]]
  BY DEF Life!Exit
<1>4. \A t \in Term : terms'[t] = Final(terms[t])
  BY <1>3 DEF Final
<1>5. \A t \in Term : terms[t] \in TermRecords /\ Sound(terms[t]) /\ Pending(terms[t])
  BY <1>1 DEF LifeInv
<1>6. \A t \in Term :
        /\ Final(terms[t]) \in TermRecords /\ Sound(Final(terms[t])) /\ Pending(Final(terms[t]))
        /\ terms[t].manager = "closed" => Final(terms[t]).manager = "closed"
        /\ Clean(terms[t]) => s[t].input # "mapped" /\ s[t].output # "mapped"
  BY <1>5, ExitIs
<1>7. terms' \in [Term -> TermRecords]
  <2>1. terms' = [t \in Term |-> terms'[t]]
    BY <1>3
  <2> QED BY <1>4, <1>6, <2>1
<1>8. /\ \A t \in Term : t \in interrupted \/ Clean(terms[t])
      /\ Life!ControllersCloseFirst
  BY <1>2 DEF LifeInv, LifeStages
<1>9. Life!NothingIsLeaked' /\ leaked' \subseteq Term
  BY <1>2, <1>3, <1>6, <1>8 DEF Life!NothingIsLeaked
<1>10. Life!ControllersCloseFirst'
  BY <1>2, <1>4, <1>6, <1>8 DEF Life!ControllersCloseFirst
<1>11. LifeStages'
  BY <1>2, <1>9, <1>10 DEF LifeStages
<1>12. \A t \in Term : Sound(terms'[t]) /\ Pending(terms'[t])
  BY <1>4, <1>6
<1> QED BY <1>1, <1>2, <1>7, <1>9, <1>11, <1>12 DEF LifeInv

LEMMA LifeInvariant ==
  /\ Life!Init => LifeInv
  /\ LifeInv /\ [Life!Next]_lifeVars => LifeInv'
<1> USE LifeConstants
<1>1. ASSUME Life!Init PROVE LifeInv
  <2>1. /\ proc = "build" /\ term = 1 /\ terms = [t \in Term |-> Life!Fresh]
        /\ ~envClosed /\ interrupted = {} /\ leaked = {}
    BY <1>1 DEF Life!Init
  <2>2. Life!Fresh \in TermRecords /\ Whole(Life!Fresh) /\ Progress(Life!Fresh)
        /\ Sound(Life!Fresh) /\ Pending(Life!Fresh) /\ Life!Fresh.stage = "validate"
    BY DEF Life!Fresh, TermRecords, Blocks, Life!Stages, Whole, Progress, Sound, Pending
  <2>3. 1 \in Term /\ \A t \in Term : ~(t < 1)
    BY DEF Term
  <2>4. \A t \in Term : terms[t] = Life!Fresh
    BY <2>1
  <2>5. LifeStages
    BY <2>1, <2>2, <2>3, <2>4 DEF LifeStages, Life!NothingIsLeaked, Life!ControllersCloseFirst
  <2> QED BY <2>1, <2>2, <2>3, <2>4, <2>5 DEF LifeInv
<1>2. ASSUME LifeInv, [Life!Next]_lifeVars PROVE LifeInv'
  BY <1>2, Built, Closes, Lives, Exits DEF Life!Next
<1> QED BY <1>1, <1>2

\* What the invariant says of every end a term can come to.
LEMMA LifeIsOrdered ==
  ASSUME LifeInv
  PROVE  /\ Life!TypeOK /\ Life!WorkersGoFirst /\ Life!UnlinkedOnce /\ Life!NothingIsLeaked
         /\ Life!ControllersCloseFirst
<1> USE LifeConstants
<1>1. \A t \in Term : terms[t] \in TermRecords /\ Sound(terms[t])
  BY DEF LifeInv
<1>2. Life!TypeOK
  BY <1>1 DEF LifeInv, Life!TypeOK, TermRecords, Blocks, Sound
<1>3. Life!WorkersGoFirst /\ Life!UnlinkedOnce
  BY <1>1 DEF Sound, Life!WorkersGoFirst, Life!UnlinkedOnce
<1> QED BY <1>2, <1>3 DEF LifeInv, LifeStages

-----------------------------------------------------------------------------
(***************************************************************************)
(* The host.                                                               *)
(***************************************************************************)

USE HostAssumption


-----------------------------------------------------------------------------
\* Hence of whatever command is executed for a row.
LEMMA RowPlausible ==
  ASSUME TypeOK, NEW i \in Rows, NEW o \in RowOutcomes(i)
  PROVE  Plausible(o)
<1>1. inst[i] \in InstanceStates /\ (i \in flags) \in BOOLEAN
  BY DEF TypeOK
<1>2. CASE command = "Initialize"
  BY <1>1, <1>2, OutcomesPlausible DEF RowOutcomes
<1>3. CASE command = "Reset"
  BY <1>1, <1>3, OutcomesPlausible DEF RowOutcomes
<1>4. CASE command = "Step"
  BY <1>1, <1>4, RequestedStepPlausible DEF RowOutcomes
<1> QED BY <1>2, <1>3, <1>4 DEF TypeOK, Commands

-----------------------------------------------------------------------------
\* A failed controller whose row threw is running only after a reset of it.
LEMMA RowThrowKeeps ==
  ASSUME TypeOK, command # "Initialize", NEW i \in Rows, inst[i] = "failed",
         NEW o \in RowOutcomes(i), o.inst = "running"
  PROVE  command = "Reset" \/ (command = "Step" /\ i \in flags)
<1> SUFFICES ASSUME command = "Step", i \notin flags PROVE FALSE
  BY DEF TypeOK, Commands
<1>1. o \in StepOutcomes("failed")
  BY DEF RowOutcomes, RequestedStepOutcomes
<1> QED BY <1>1, FailedStaysFailed

-----------------------------------------------------------------------------
(***************************************************************************)
(* Type correctness.                                                       *)
(***************************************************************************)

\* The worker's state has its type, for any number of rows and commands.
THEOREM TypeCorrect == Spec => []TypeOK
<1>1. Init => TypeOK
  <2> SUFFICES ASSUME Init PROVE TypeOK
    OBVIOUS
  <2>1. initError \in BOOLEAN /\ failure \in BOOLEAN
    BY Zenon DEF Init
  <2> QED BY <2>1 DEF Init, TypeOK, Commands, InstanceStates, RowStatuses
<1>2. TypeOK /\ [Next]_vars => TypeOK'
  <2> SUFFICES ASSUME TypeOK, [Next]_vars PROVE TypeOK'
    OBVIOUS
  <2>1. ASSUME NEW c \in Commands, NEW resetRows \in SUBSET Rows, Receive(c, resetRows)
        PROVE  TypeOK'
    <3>1. initError' \in BOOLEAN /\ failure' \in BOOLEAN
      BY <2>1, Zenon DEF TypeOK, Receive
    <3>2. ops' \in 0 .. MaxOps /\ executed' \in 0 .. MaxOps
      BY <2>1 DEF TypeOK, Receive
    <3> QED BY <2>1, <3>1, <3>2 DEF TypeOK, Receive
  <2>2. ASSUME NEW c \in Commands, Refuse(c)
        PROVE  TypeOK'
    BY <2>2 DEF TypeOK, Refuse
  <2>3. CASE ExecuteRow
    <3>1. PICK o \in RowOutcomes(index) :
            /\ inst' = [inst EXCEPT ![index] =
                          IF command = "Initialize" THEN o.inst ELSE InstanceAfter(o)]
            /\ status' = [status EXCEPT ![index] = o.status]
            /\ initError' = (initError \/ (o.threw /\ command = "Initialize"))
            /\ written' = [written EXCEPT ![index] = IF o.wrote THEN ops ELSE @]
      BY <2>3, Zenon DEF ExecuteRow
    <3>2. Plausible(o)
      BY <2>3, RowPlausible DEF ExecuteRow
    <3>3. o.inst \in InstanceStates /\ InstanceAfter(o) \in InstanceStates
      BY <3>2 DEF Plausible, Outcome, InstanceAfter, InstanceStates
    <3>4. inst' \in [Rows -> InstanceStates]
      BY <3>1, <3>3 DEF TypeOK
    <3>5. status' \in [Rows -> RowStatuses]
      BY <3>1, <3>2 DEF TypeOK, Plausible, Outcome
    <3>6. initError' \in BOOLEAN
      BY <3>1
    <3>7. /\ written' \in [Rows -> 0 .. MaxOps]
          /\ stamped' \in [Rows -> 0 .. MaxOps]
      BY <2>3, <3>1 DEF TypeOK, ExecuteRow
    <3>8. index' \in 1 .. (NumRows + 1)
      BY <2>3 DEF TypeOK, ExecuteRow, Rows
    <3> QED BY <2>3, <3>4, <3>5, <3>6, <3>7, <3>8 DEF TypeOK, ExecuteRow
  <2>7. CASE ReplaceFails
    <3>1. PICK o \in RowOutcomes(index) :
            /\ inst' = [inst EXCEPT ![index] = o.inst]
            /\ written' = [written EXCEPT ![index] = IF o.wrote THEN ops ELSE @]
      BY <2>7, Zenon DEF ReplaceFails
    <3>2. Plausible(o)
      BY <2>7, RowPlausible DEF ReplaceFails
    <3>3. inst' \in [Rows -> InstanceStates] /\ written' \in [Rows -> 0 .. MaxOps]
      BY <2>7, <3>1, <3>2 DEF ReplaceFails, TypeOK, Plausible, Outcome
    <3>4. failure' \in BOOLEAN
      BY <2>7, Zenon DEF ReplaceFails
    <3> QED BY <2>7, <3>3, <3>4 DEF ReplaceFails, TypeOK
  <2>4. CASE Answer
    BY <2>4 DEF TypeOK, Answer
  <2>5. CASE Stop
    BY <2>5 DEF TypeOK, Stop
  <2>6. CASE UNCHANGED vars
    BY <2>6 DEF TypeOK, vars
  <2> QED BY <2>1, <2>2, <2>3, <2>4, <2>5, <2>6, <2>7 DEF Next
<1> QED BY <1>1, <1>2, PTL DEF Spec

-----------------------------------------------------------------------------
(***************************************************************************)
(* The safety properties.                                                  *)
(***************************************************************************)

\* While a command is executed, the rows before `index` have been serviced by
\* it, and initError tells whether one of them failed to initialize.
Progressing ==
  phase = "executing" =>
    /\ ops = executed
    /\ ~ failure
    /\ \A i \in Rows : i < index => stamped[i] = ops
    /\ initError <=> /\ command = "Initialize"
                     /\ \E i \in Rows : i < index /\ status[i] = "WORKER_FAILED"

\* Between commands of a healthy worker every row has been serviced by the last
\* one executed.
Settled ==
  phase # "executing" /\ ~ failure => \A i \in Rows : stamped[i] = executed

\* What is invariant besides the types.
HostInv == Progressing /\ Settled /\ OkMeansServed

\* It holds when the worker has started.
LEMMA HostInvInit == Init => HostInv
<1> SUFFICES ASSUME Init PROVE HostInv
  OBVIOUS
<1>1. Progressing /\ OkMeansServed
  BY DEF Init, Progressing, OkMeansServed
<1>2. Settled
  BY DEF Init, Settled
<1> QED BY <1>1, <1>2 DEF HostInv

\* The one step that works on the rows.
LEMMA HostInvExecuteRow ==
  ASSUME TypeOK, HostInv, ExecuteRow
  PROVE  HostInv'
<1>1. PICK o \in RowOutcomes(index) :
        /\ inst' = [inst EXCEPT ![index] =
                      IF command = "Initialize" THEN o.inst ELSE InstanceAfter(o)]
        /\ status' = [status EXCEPT ![index] = o.status]
        /\ initError' = (initError \/ (o.threw /\ command = "Initialize"))
        /\ written' = [written EXCEPT ![index] = IF o.wrote THEN ops ELSE @]
  BY Zenon DEF ExecuteRow
<1>2. /\ phase = "executing" /\ index \in Rows
      /\ stamped' = [stamped EXCEPT ![index] = ops]
      /\ index' = index + 1
      /\ UNCHANGED <<phase, command, flags, failure, ops, executed>>
  BY DEF ExecuteRow
<1>3. Plausible(o)
  BY <1>2, RowPlausible
<1>4. Settled'
  BY <1>2 DEF Settled
<1>5. OkMeansServed'
  <2> SUFFICES ASSUME NEW i \in Rows, status'[i] = "OK"
               PROVE  inst'[i] = "running" /\ written'[i] = stamped'[i]
    BY DEF OkMeansServed
  <2>1. CASE i = index
    BY <1>1, <1>2, <1>3, <2>1 DEF TypeOK, Plausible, InstanceAfter
  <2>2. CASE i # index
    <3>1. ~ failure
      BY <1>2 DEF HostInv, Progressing
    <3> QED BY <1>1, <1>2, <2>2, <3>1 DEF TypeOK, HostInv, OkMeansServed
  <2> QED BY <2>1, <2>2
<1>6. Progressing'
  <2>1. ops' = executed' /\ ~ failure'
    BY <1>2 DEF HostInv, Progressing
  <2>2. \A i \in Rows : i < index' => stamped'[i] = ops'
    BY <1>2 DEF HostInv, Progressing, TypeOK, Rows
  <2>3. initError <=> /\ command = "Initialize"
                      /\ \E i \in Rows : i < index /\ status[i] = "WORKER_FAILED"
    BY <1>2 DEF HostInv, Progressing
  <2>4. \A i \in Rows : i < index' => (i < index \/ i = index)
    BY <1>2 DEF TypeOK, Rows
  <2>5. \A i \in Rows : i < index => i < index' /\ status'[i] = status[i]
    BY <1>1, <1>2 DEF TypeOK, Rows
  <2>6. command = "Initialize" => (o.threw <=> status'[index] = "WORKER_FAILED")
    <3> SUFFICES ASSUME command = "Initialize"
                 PROVE  o.threw <=> status'[index] = "WORKER_FAILED"
      OBVIOUS
    <3>1. o \in InitializeOutcomes(inst[index])
      BY DEF RowOutcomes
    <3>2. status'[index] = o.status
      BY <1>1, <1>2 DEF TypeOK
    <3> QED BY <3>1, <3>2, InitializeStatus
  <2>7. index < index'
    BY <1>2 DEF TypeOK, Rows
  <2>8. initError' <=> /\ command' = "Initialize"
                       /\ \E i \in Rows : i < index' /\ status'[i] = "WORKER_FAILED"
    <3>1. command' = command
      BY <1>2
    <3> QED BY <1>1, <1>2, <2>3, <2>4, <2>5, <2>6, <2>7, <3>1, Zenon
  <2> QED BY <2>1, <2>2, <2>8 DEF Progressing
<1> QED BY <1>4, <1>5, <1>6 DEF HostInv

\* No step breaks it.
LEMMA HostInvStep ==
  ASSUME TypeOK, HostInv, [Next]_vars
  PROVE  HostInv'
<1>1. ASSUME NEW c \in Commands, NEW resetRows \in SUBSET Rows, Receive(c, resetRows)
      PROVE  HostInv'
  <2>1. \A i \in Rows : ~ (i < index')
    BY <1>1 DEF Receive, Rows
  <2>2. ~ initError' /\ ~ failure'
    BY <1>1, Zenon DEF Receive
  <2>3. ops' = executed' /\ phase' = "executing"
    BY <1>1 DEF Receive
  <2>4. Progressing' /\ Settled'
    BY <2>1, <2>2, <2>3, Zenon DEF Progressing, Settled
  <2>5. OkMeansServed'
    BY <1>1 DEF Receive, HostInv, OkMeansServed
  <2> QED BY <2>4, <2>5 DEF HostInv
<1>2. ASSUME NEW c \in Commands, Refuse(c)
      PROVE  HostInv'
  BY <1>2 DEF Refuse, HostInv, Progressing, Settled, OkMeansServed
<1>3. CASE ExecuteRow
  BY <1>3, HostInvExecuteRow
<1>7. CASE ReplaceFails
  <2>1. failure' /\ phase' = "waiting"
    BY <1>7, Zenon DEF ReplaceFails
  <2> QED BY <2>1 DEF HostInv, Progressing, Settled, OkMeansServed
<1>4. CASE Answer
  <2>1. \A i \in Rows : i < index
    BY <1>4 DEF Answer, TypeOK, Rows
  <2> QED BY <1>4, <2>1 DEF Answer, HostInv, Progressing, Settled, OkMeansServed
<1>5. CASE Stop
  BY <1>5 DEF Stop, HostInv, Progressing, Settled, OkMeansServed
<1>6. CASE UNCHANGED vars
  BY <1>6 DEF vars, HostInv, Progressing, Settled, OkMeansServed
<1> QED BY <1>1, <1>2, <1>3, <1>4, <1>5, <1>6, <1>7 DEF Next

\* Both invariants hold for ever.
LEMMA HostInvariant == Spec => [](TypeOK /\ HostInv)
<1>1. TypeOK /\ HostInv /\ [Next]_vars => HostInv'
  BY HostInvStep
<1> QED BY <1>1, HostInvInit, TypeCorrect, PTL DEF Spec

\* An OK in the status column is backed by outputs of the same command, for
\* any number of rows.
THEOREM OkIsServed == Spec => []OkMeansServed
<1>1. HostInv => OkMeansServed
  BY DEF HostInv
<1> QED BY <1>1, HostInvariant, PTL

\* An answered command has serviced every row of the slice, whichever threw.
THEOREM EveryRowIsAnswered == Spec => []EveryRowAnswered
<1>1. HostInv => EveryRowAnswered
  BY DEF HostInv, Settled, EveryRowAnswered
<1> QED BY <1>1, HostInvariant, PTL

\* Only a reset revives a row whose QP has failed.
THEOREM QpFailureLatches == Spec => QpFailureIsLatched
<1>1. TypeOK /\ [Next]_vars =>
        [\A i \in Rows :
           inst[i] = "failed" /\ inst'[i] = "running" =>
             command = "Reset" \/ (command = "Step" /\ i \in flags)]_vars
  <2> SUFFICES ASSUME TypeOK, Next, NEW i \in Rows,
                      inst[i] = "failed", inst'[i] = "running"
               PROVE  command = "Reset" \/ (command = "Step" /\ i \in flags)
    OBVIOUS
  <2>0. CASE ReplaceFails
    <3>1. PICK o \in RowOutcomes(index) :
            inst' = [inst EXCEPT ![index] = o.inst]
      BY <2>0, Zenon DEF ReplaceFails
    <3>2. i = index /\ o.inst = "running"
      BY <2>0, <3>1 DEF TypeOK, ReplaceFails
    <3> QED BY <2>0, <3>2, RowThrowKeeps DEF ReplaceFails
  <2>1. CASE ExecuteRow
    <3>1. PICK o \in RowOutcomes(index) :
            inst' = [inst EXCEPT ![index] =
                       IF command = "Initialize" THEN o.inst ELSE InstanceAfter(o)]
      BY <2>1, Zenon DEF ExecuteRow
    <3>2. i = index /\ o.inst = "running"
      BY <2>1, <3>1 DEF TypeOK, ExecuteRow, InstanceAfter
    <3>3. command # "Initialize"
      BY <3>2, FailedStaysFailed DEF RowOutcomes
    <3> QED BY <3>2, <3>3, RowThrowKeeps
  <2> QED BY <2>0, <2>1 DEF Next, Receive, Refuse, Answer, Stop
<1> QED BY <1>1, TypeCorrect, PTL DEF Spec, QpFailureIsLatched

\* A worker refuses later commands exactly when an Initialize failed a row or
\* a command was abandoned.
THEOREM RefusalIsExact == Spec => RefusalIsEarned
<1>1. TypeOK /\ HostInv /\ [Next]_vars =>
        [(phase = "executing" /\ phase' = "waiting") =>
           (failure' <=> \/ index \in Rows
                         \/ /\ command = "Initialize"
                            /\ \E i \in Rows : status[i] = "WORKER_FAILED")]_vars
  <2> SUFFICES ASSUME TypeOK, HostInv, Next, phase = "executing", phase' = "waiting"
               PROVE  failure' <=> \/ index \in Rows
                                   \/ /\ command = "Initialize"
                                      /\ \E i \in Rows : status[i] = "WORKER_FAILED"
    OBVIOUS
  <2>1. Answer \/ ReplaceFails
    BY DEF Next, Receive, Refuse, ExecuteRow, Stop
  <2>2. CASE ReplaceFails
    BY <2>2, Zenon DEF ReplaceFails
  <2>3. CASE Answer
    <3>1. \A i \in Rows : i < index
      BY <2>3 DEF Answer, TypeOK, Rows
    <3>2. ~ failure
      BY DEF HostInv, Progressing
    <3>3. failure' = (failure \/ initError) /\ index \notin Rows
      BY <2>3 DEF Answer
    <3>4. failure' <=> initError
      BY <3>2, <3>3
    <3> QED BY <3>1, <3>3, <3>4, Zenon DEF HostInv, Progressing
  <2> QED BY <2>1, <2>2, <2>3
<1> QED BY <1>1, HostInvariant, PTL DEF Spec, RefusalIsEarned

\* Every row answers for the command that was answered, and its OK for its outputs.
THEOREM RowsAreAccounted == Spec => []ServiceIsAccounted
BY OkIsServed, EveryRowIsAnswered, PTL DEF ServiceIsAccounted

-----------------------------------------------------------------------------
(***************************************************************************)
(* The suite: a behaviour moves one part and leaves the others.            *)
(***************************************************************************)

LEMMA EachPartIsItsOwn ==
  /\ TermInit => Gate!Init /\ Feedback!Init /\ Columns!Init /\ Law!Init /\ Life!Init
  /\ [TermNext]_termVars =>
       /\ [Gate!Next]_gateVars /\ [Feedback!Next]_feedbackVars /\ [Columns!Next]_columnVars
       /\ [Law!Next]_lawVars /\ [Life!Next]_lifeVars
BY Zenon DEF TermInit, TermNext, termVars

LEMMA HistoryKept == GateInv => Gate!HistoryIsTheEpisodes
BY DEF GateInv, Remembered, Ago, Gate!HistoryIsTheEpisodes

\* PPO reads, after whatever resets happened since, the authority of the step it masks.
THEOREM MaskIsApplied == TermSpec => []MaskIsAuthorityApplied
<1>1. GateInv => MaskIsAuthorityApplied
  BY DEF GateInv, Granted, MaskIsAuthorityApplied
<1> QED BY <1>1, EachPartIsItsOwn, GateInvariant, PTL DEF TermSpec

\* A burst ends within its maximum and the next one waits for a rest of its own.
THEOREM BurstsRest == TermSpec => BurstsAreRare
<1>1. GateInv => Gate!BurstIsBounded
  BY DEF GateInv, Rested
<1>2. GateInv /\ [Gate!Next]_gateVars => [~f.active /\ f'.active => rested]_gateVars
  BY BurstsNeedRest, Zenon
<1> QED BY <1>1, <1>2, EachPartIsItsOwn, GateInvariant, PTL
        DEF TermSpec, BurstsAreRare, Gate!BurstsAreSeparated, Gate!vars, gateVars

\* Nothing of an earlier step or episode is told, rewarded or remembered, in an action of
\* any class; a position or torque action without authority executes nothing, and no action
\* executes more than the residual its law asked for.
THEOREM EpisodesAreApart == TermSpec => []NothingOutlivesItsEpisode
<1>1. GateInv /\ FeedbackInv => NothingOutlivesItsEpisode
  BY FeedbackIsOfItsEpisode, HistoryKept
     DEF GateInv, GateTypes, Granted, NothingOutlivesItsEpisode
<1> QED BY <1>1, EachPartIsItsOwn, GateInvariant, FeedbackInvariant, PTL DEF TermSpec

\* A callback hears its setter and a readout is its getter, for every configuration.
THEOREM FeedsReach == TermSpec => []FeedsReachTheirCallbacks
<1>1. ColumnInv => FeedsReachTheirCallbacks
  BY ColumnsGovern DEF FeedsReachTheirCallbacks
<1> QED BY <1>1, EachPartIsItsOwn, ColumnInvariant, PTL DEF TermSpec

\* One law acts, with the reference gains; ResidualMPC reports the torque that is applied
\* under any randomized limit, the plain torque action where no limit is randomized.
THEOREM OneLawActs == TermSpec => []TorqueIsTheLaws
<1>1. LawInv => TorqueIsTheLaws
  BY LawGoverns DEF TorqueIsTheLaws
<1> QED BY <1>1, EachPartIsItsOwn, LawInvariant, PTL DEF TermSpec

\* Wherever construction or close stops, workers go before their memory and nothing leaks.
THEOREM TeardownHolds == TermSpec => []TeardownIsOrdered
<1>1. LifeInv => TeardownIsOrdered
  BY LifeIsOrdered DEF TeardownIsOrdered
<1> QED BY <1>1, EachPartIsItsOwn, LifeInvariant, PTL DEF TermSpec
=============================================================================
