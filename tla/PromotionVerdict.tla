--------------------------- MODULE PromotionVerdict ---------------------------
(***************************************************************************)
(* The verdicts of scripts/qualify_checkpoints.py: every checkpoint runs   *)
(* every scenario under every seed, evaluation/qualification.py summarises *)
(* the paired differences by cluster and applies the promotion gates, and  *)
(* the best checkpoint that passes all of them is selected.  A change is   *)
(* relative to the baseline, in units of the gates' 5%: of the recovery in *)
(* the finite impulse, of the CoM velocity in the nominal scenario.  None  *)
(* stands for NaN, with which every comparison is false.  Baselines are not*)
(* zero (a zero one skips its gate); the gates of single metrics with a    *)
(* limit of their own are flags, those of ZMP and foot slip with their     *)
(* sampling floor among them.                                              *)
(***************************************************************************)
EXTENDS Integers, Sequences, FiniteSets, FiniteSetsExt, SequencesExt

CONSTANTS Campaigns,  \* [checkpoints, scenarios, seeds, envs, samples], as asked for
          None

Ratios == {"hazard ratio", "scenario hazard"}
Gates == {"worker", "unsafe", "duty", "com", "unreadable", "below", "unresolved", "early"} \cup Ratios
Range1(s) == {s[i] : i \in DOMAIN s}

\* One pair of a cluster; base and policy: the arm fell; duty: authority duty, ZMP or foot
\* slip is over its limit.
AllSamples ==
  [worker : BOOLEAN, unsafe : BOOLEAN, duty : BOOLEAN, early : BOOLEAN,
   base : BOOLEAN, policy : BOOLEAN, change : Int \cup {None}]

\* What is assumed of the constants: the lists are in the order they are run and not empty.
VerdictAssumption ==
  /\ None \notin Int
  /\ \A c \in Campaigns :
       /\ c.checkpoints \in Seq(Nat) /\ c.seeds \in Seq(Nat)
       /\ c.scenarios \in Seq({"nominal", "current_kick", "finite_impulse", "robust"})
       /\ <<>> \notin {c.checkpoints, c.seeds, c.scenarios}
       /\ IsFiniteSet(c.envs) /\ c.samples \subseteq AllSamples

VARIABLES
  campaign,
  at,        \* the run to come: its indices in the lists
  result,    \* the episodes of the scenario being run, one sample per cluster
  summaries, \* by_scenario of the checkpoint being run
  verdicts,  \* the promotion of every checkpoint judged
  selected, pc

vars == <<campaign, at, result, summaries, verdicts, selected, pc>>

Checkpoints == campaign.checkpoints
Scenarios == campaign.scenarios
Seeds == campaign.seeds

Init == /\ campaign \in Campaigns
        /\ at = [checkpoint |-> 1, scenario |-> 1, seed |-> 1]
        /\ result = <<>> /\ summaries = <<>> /\ verdicts = <<>>
        /\ selected = None /\ pc = "run"
-----------------------------------------------------------------------------
\* cluster_stats over the finite changes: their number, sum and sum of squares.
Stats(sample) ==
  LET finite == {c \in DOMAIN sample : sample[c].change # None}
      change == [c \in finite |-> sample[c].change]
  IN  [n |-> Cardinality(finite),
       sum |-> MapThenSumSet(LAMBDA c : change[c], finite),
       squares |-> MapThenSumSet(LAMBDA c : change[c] * change[c], finite)]

\* The squares of _T_CRITICAL_95 for the clusters that occur, rounded.
Critical(n) == CASE n = 2 -> 161 [] n = 3 -> 19 [] n = 4 -> 10 [] OTHER -> 4

\* ci_high < bound, where the radius of a single cluster is infinite.
UpperBelow(st, bound) ==
  /\ st.n > 1 /\ bound * st.n > st.sum
  /\ Critical(st.n) * (st.n * st.squares - st.sum * st.sum)
       < (bound * st.n - st.sum) * (bound * st.n - st.sum) * (st.n - 1)

\* ci_high >= bound, which is false without a finite pair.
UpperAtLeast(st, bound) == st.n > 0 /\ ~UpperBelow(st, bound)

Cluster(seed, env) == <<seed, env>>

\* summarize: the paired summaries of one scenario, the falls as the clusters they were in.
Summary(sample) ==
  LET Where(Holds(_)) == {c \in DOMAIN sample : Holds(sample[c])}
  IN  [over |-> DOMAIN sample,
       worker |-> Where(LAMBDA x : x.worker) # {}, unsafe |-> Where(LAMBDA x : x.unsafe) # {},
       duty |-> Where(LAMBDA x : x.duty) # {}, early |-> Where(LAMBDA x : x.early) # {},
       base |-> Where(LAMBDA x : x.base), policy |-> Where(LAMBDA x : x.policy),
       change |-> Stats(sample)]

Invalid(by) == {s \in DOMAIN by : by[s].worker}

\* The ratio of the falls exceeds tenths/10; without any fall it is 1.
Exceeds(base, policy, tenths) ==
  IF base = {} THEN policy # {} \/ tenths < 10
  ELSE 10 * Cardinality(policy) > tenths * Cardinality(base)

Safety(by) ==
  {<<s, "worker">> : s \in Invalid(by)} \cup {<<s, "unsafe">> : s \in {t \in DOMAIN by : by[t].unsafe}}

Nominal(by) ==
  {<<s, "duty">> : s \in {t \in DOMAIN by : t = "nominal" /\ by[t].duty}}
    \cup {<<s, "com">> : s \in {t \in DOMAIN by : t = "nominal" /\ UpperAtLeast(by[t].change, 1)}}
    \cup {<<s, "early">> : s \in {t \in DOMAIN by : t = "robust" /\ by[t].early}}

\* Mutant: the improvement need not be resolved.
Recovery_Mean(by) ==
  LET st == by["finite_impulse"].change
  IN  IF "finite_impulse" \notin DOMAIN by THEN {}
      ELSE IF by["finite_impulse"].worker THEN {<<"finite_impulse", "unreadable">>}
      ELSE IF st.n > 0 /\ -st.sum < st.n THEN {<<"finite_impulse", "below">>} ELSE {}

Recovery(by) ==
  LET st == by["finite_impulse"].change
  IN  IF "finite_impulse" \notin DOMAIN by THEN {}
      ELSE IF by["finite_impulse"].worker THEN {<<"finite_impulse", "unreadable">>}
      ELSE IF st.n > 0 /\ -st.sum < st.n THEN {<<"finite_impulse", "below">>}
      ELSE IF ~UpperBelow(st, 0) THEN {<<"finite_impulse", "unresolved">>} ELSE {}

\* int(paired["clusters"]) of a scenario without a single finite pair.
Raises(by) ==
  "finite_impulse" \in DOMAIN by /\ ~by["finite_impulse"].worker /\ by["finite_impulse"].change.n = 0

ScoredScenarios(by) == DOMAIN by \ Invalid(by)

TotalBase(by) == UNION {{s} \X by[s].base : s \in ScoredScenarios(by)}
TotalPolicy(by) == UNION {{s} \X by[s].policy : s \in ScoredScenarios(by)}

Hazard(by) ==
  LET scored == ScoredScenarios(by)
  IN  {<<"overall", "hazard ratio">> : s \in {t \in scored : Exceeds(TotalBase(by), TotalPolicy(by), 9)}}
        \cup {<<s, "scenario hazard">> : s \in {t \in scored : Exceeds(by[t].base, by[t].policy, 11)}}

Promotion(by) == [reasons |-> Safety(by) \cup Nominal(by) \cup Recovery(by) \cup Hazard(by), by |-> by]

Eligible(v) == v.reasons = {}
-----------------------------------------------------------------------------
\* The episodes of the seeds run so far, and of this one.
Collected(measured) ==
  LET mine == {Cluster(Seeds[at.seed], e) : e \in campaign.envs}
      kept == IF at.seed = 1 THEN {} ELSE DOMAIN result
  IN  [c \in kept \cup mine |-> IF c \in mine THEN measured[c[2]] ELSE result[c]]

\* The flags of the gates of one scenario are measured there.
MayMeasure(scenario) ==
  {x \in campaign.samples : /\ scenario # "nominal" => ~x.duty
                            /\ scenario # "robust" => ~x.early}

\* by_scenario with the scenario that has just been run.
Summarized ==
  LET scenario == Scenarios[at.scenario]
      begun == IF at.scenario = 1 THEN <<>> ELSE summaries
  IN  [s \in DOMAIN begun \cup {scenario} |-> IF s = scenario THEN Summary(result') ELSE begun[s]]

SeedDone ==
  /\ at.seed < Len(Seeds) /\ at' = [at EXCEPT !.seed = @ + 1]
  /\ UNCHANGED <<summaries, verdicts, pc>>

ScenarioDone ==
  /\ at.seed = Len(Seeds) /\ at.scenario < Len(Scenarios)
  /\ at' = [at EXCEPT !.scenario = @ + 1, !.seed = 1]
  /\ summaries' = Summarized
  /\ UNCHANGED <<verdicts, pc>>

CheckpointDone ==
  /\ at.seed = Len(Seeds) /\ at.scenario = Len(Scenarios)
  /\ at' = [checkpoint |-> at.checkpoint + 1, scenario |-> 1, seed |-> 1]
  /\ summaries' = Summarized
  /\ IF Raises(summaries') THEN pc' = "raised" /\ UNCHANGED verdicts
     ELSE LET judged == Checkpoints[at.checkpoint]
          IN  /\ verdicts' = [c \in DOMAIN verdicts \cup {judged} |->
                                IF c = judged THEN Promotion(summaries') ELSE verdicts[c]]
              /\ UNCHANGED pc

\* One run_checkpoint, and after the last seed of a scenario its summary, after the last
\* scenario of a checkpoint its verdict.
RunSeed ==
  /\ pc = "run" /\ at.checkpoint <= Len(Checkpoints)
  /\ \E measured \in [campaign.envs -> MayMeasure(Scenarios[at.scenario])] :
       result' = Collected(measured)
  /\ SeedDone \/ ScenarioDone \/ CheckpointDone
  /\ UNCHANGED <<campaign, selected>>

Gain(v) == IF "finite_impulse" \in DOMAIN v.by THEN -v.by["finite_impulse"].change.sum ELSE 0
Share(v) == v.by["finite_impulse"].change.n

\* The ranks differ in the recovery gain; the other two entries only break ties.
Better(v, w) ==
  "finite_impulse" \in DOMAIN v.by /\ Gain(v) * Share(w) > Gain(w) * Share(v)

\* The selection, and the outputs written with it.
Select ==
  /\ pc = "run" /\ at.checkpoint > Len(Checkpoints) /\ pc' = "written"
  /\ LET eligible == {c \in DOMAIN verdicts : Eligible(verdicts[c])}
     IN IF eligible = {} THEN UNCHANGED selected
        ELSE selected' \in {c \in eligible : \A d \in eligible : ~Better(verdicts[d], verdicts[c])}
  /\ UNCHANGED <<campaign, at, result, summaries, verdicts>>

Next == RunSeed \/ Select

Spec == Init /\ [][Next]_vars /\ WF_vars(Next)
-----------------------------------------------------------------------------
TypeOK ==
  /\ campaign \in Campaigns
  /\ DOMAIN result \subseteq Range1(Seeds) \X campaign.envs
  /\ Range1(result) \subseteq campaign.samples
  /\ DOMAIN summaries \subseteq Range1(Scenarios) /\ DOMAIN verdicts \subseteq Range1(Checkpoints)
  /\ \A c \in DOMAIN verdicts :
       verdicts[c].reasons \subseteq (Range1(Scenarios) \cup {"overall"}) \X Gates
  /\ selected \in Range1(Checkpoints) \cup {None} /\ pc \in {"run", "raised", "written"}

\* docs/evaluation.md: only an improvement of recovery that the clusters resolve, with
\* fewer falls and no lost worker, makes a checkpoint eligible where recovery is judged; a
\* recovery without a value never does, nor a single cluster where a gate reads its
\* interval.  (A nominal scenario without any value passes: its bound is NaN.)
EligibleIsEarned ==
  \A c \in DOMAIN verdicts : Eligible(verdicts[c]) =>
    LET by == verdicts[c].by
    IN  /\ \A s \in DOMAIN by : ~by[s].worker
        /\ "nominal" \in DOMAIN by => by["nominal"].change.n # 1
        /\ "finite_impulse" \in DOMAIN by =>
             \A st \in {by["finite_impulse"].change} :
               st.n > 1 /\ st.sum <= -st.n /\ UpperBelow(st, 0)
        /\ Cardinality(TotalPolicy(by)) < Cardinality(TotalBase(by))

\* A second seed adds clusters (docs/evaluation.md#clusters_for_confidence): a scenario is
\* judged on the episodes of all its seeds and environments, and on no other's.
ClustersAreSeedEnvironments ==
  \A c \in DOMAIN verdicts : \A s \in DOMAIN verdicts[c].by :
    /\ verdicts[c].by[s].over = Range1(Seeds) \X campaign.envs
    /\ verdicts[c].by[s].change.n <= Cardinality(verdicts[c].by[s].over)

\* qualification.py: a gate read off an invalidated scenario is no verdict.  Its recovery
\* and its falls are not judged.
InvalidRecoveryIsNotRead ==
  \A c \in DOMAIN verdicts : \A s \in Invalid(verdicts[c].by) :
    verdicts[c].reasons \cap ({s} \X {"below", "unresolved", "scenario hazard"}) = {}

\* The overall ratio is one over the scenarios that are valid.
RatioIsOverValidScenarios ==
  \A c \in DOMAIN verdicts : <<"overall", "hazard ratio">> \in verdicts[c].reasons =>
    LET by == verdicts[c].by
        valid == {s \in DOMAIN by : ~by[s].worker}
    IN  /\ valid # {}
        /\ 10 * Cardinality(UNION {{s} \X by[s].policy : s \in valid})
             >= 9 * Cardinality(UNION {{s} \X by[s].base : s \in valid})

\* docs/evaluation.md#invalidated_scenarios: a scenario whose arm lost a worker is removed
\* from every substantive gate (violated).
InvalidScenariosAreNotRead ==
  \A c \in DOMAIN verdicts : \A s \in Invalid(verdicts[c].by) :
    \A g \in Gates \ {"worker", "unreadable", "unsafe"} : <<s, g>> \notin verdicts[c].reasons

\* The selected checkpoint passed every gate and no other passing one recovers better.
SelectedIsTheBest ==
  selected # None => \A c \in DOMAIN verdicts : Eligible(verdicts[c]) =>
    /\ Eligible(verdicts[selected])
    /\ "finite_impulse" \in Range1(Scenarios) =>
         Gain(verdicts[c]) * Share(verdicts[selected]) <= Gain(verdicts[selected]) * Share(verdicts[c])

\* Every checkpoint is judged and the report written (violated: Raises).
EveryCheckpointIsJudged == <>(pc = "written" /\ DOMAIN verdicts = Range1(Checkpoints))
=============================================================================
