--------------------------- MODULE PairedEvaluation ---------------------------
(***************************************************************************)
(* The crossover of one environment in scripts/qualify_checkpoints.py: its *)
(* baseline and policy episodes alternate, PairedDisturbances pushes both  *)
(* arms of a pair by the same draws, and StratifiedDiagnostics assigns     *)
(* every step to a stratum.  A draw is named by the pair and occurrence    *)
(* that seed it; its duration counts half policy steps, since it is drawn  *)
(* from a continuous range.                                                *)
(***************************************************************************)
EXTENDS Integers, Sequences, FiniteSets, FiniteSetsExt, SequencesExt

CONSTANTS Scenario,          \* "nominal", "kick" or "impulse"
          Episodes,          \* episodes_per_env
          First, Interval,   \* ages of the first push and of the following ones
          Recovery,          \* the recovery window
          MaxLength, Durations

\* What is assumed of the constants.
EvaluationAssumption ==
  /\ Scenario \in {"nominal", "kick", "impulse"}
  /\ {Episodes, First, Interval, Recovery, MaxLength} \subseteq Nat \ {0}
  /\ Durations \subseteq Nat \ {0} /\ \A d \in Durations : d < 2 * Interval

Arms == {"baseline", "policy"}
Strata == {"startup", "sustained", "recovery"}
Draws == (0..Episodes - 1) \X (0..MaxLength \div Interval)

VARIABLES
  duration,                          \* the draw's duration, fixed by the seed
  arm, pair, counts, active,         \* current_policy, pairs, counts, active
  others,                            \* another environment is still active
  length, since, wrench, remaining,  \* as in ImpulseSchedule; wrench is the draw or <<>>
  steps, last,                       \* _counts and _last_stratum of StratifiedDiagnostics
  episodes,                          \* the recorded episodes and their strata
  pc, worn, seen                     \* worn and seen for the properties

vars == <<duration, arm, pair, counts, active, others, length, since, wrench, remaining,
          steps, last, episodes, pc, worn, seen>>

Never == MaxLength + 1
NoSteps == [s \in Strata |-> 0]
Other(a) == CHOOSE b \in Arms : b # a
Clear == wrench' = <<>> /\ remaining' = 0

\* The starting arm is balanced across environment ids.
Init ==
  /\ duration \in [Draws -> Durations]
  /\ arm \in Arms /\ pair = 0 /\ counts = [a \in Arms |-> 0] /\ active = TRUE
  /\ others \in BOOLEAN
  /\ length = 0 /\ since = Never /\ wrench = <<>> /\ remaining = 0
  /\ steps = NoSteps /\ last = "startup" /\ episodes = {} /\ pc = "before" /\ worn = 0 /\ seen = <<>>
-----------------------------------------------------------------------------
Due == /\ active /\ Scenario # "nominal"
       /\ length >= First /\ (length - First) % Interval = 0

\* Mutant: seeded by the episode instead of the pair.
Draw_PerEpisode ==
  <<Min({counts["baseline"] + counts["policy"], Episodes - 1}), (length - First) \div Interval>>

\* The stream of random numbers is seeded by the pair and the occurrence, never by the arm.
Draw == <<pair, (length - First) \div Interval>>

Impulse(draw) ==
  /\ wrench' = draw /\ remaining' = (duration[draw] + 1) \div 2 /\ worn' = 0

Trigger ==
  /\ IF Scenario = "impulse" THEN Impulse(Draw) ELSE UNCHANGED <<wrench, remaining, worn>>
  /\ since' = 0 /\ seen' = Append(seen, Draw)

Expire ==
  /\ IF remaining = 0 /\ wrench # <<>> THEN Clear ELSE UNCHANGED <<wrench, remaining>>
  /\ UNCHANGED <<since, worn, seen>>

BeforeStep ==
  /\ pc = "before" /\ (active \/ others) /\ pc' = "step"
  /\ IF Due THEN Trigger ELSE Expire
  /\ UNCHANGED <<duration, arm, pair, counts, active, others, length, steps, last, episodes>>

AfterStep == remaining' = Max({remaining - 1, 0})

\* classify_strata, on the counters of the step just taken.
Stratum(len, age) ==
  IF age \in 1..Recovery /\ age < len THEN "recovery"
  ELSE IF len <= First THEN "startup" ELSE "sustained"

Capture ==
  IF active THEN /\ last' = Stratum(length', since')
                 /\ steps' = [steps EXCEPT ![last'] = @ + 1]
            ELSE UNCHANGED <<steps, last>>

\* The episode may end at any length and ends at the cap.
Step ==
  /\ pc = "step" /\ length < MaxLength
  /\ length' = length + 1 /\ since' = Min({since + 1, Never})
  /\ worn' = IF wrench = <<>> THEN worn ELSE worn + 1
  /\ AfterStep /\ Capture
  /\ pc' \in {"finish"} \cup (IF length' < MaxLength THEN {"before"} ELSE {})
  /\ UNCHANGED <<duration, arm, pair, counts, active, others, wrench, episodes, seen>>

\* finish of StratifiedDiagnostics: a row for each stratum the episode was in, the cause
\* of its termination in the row of the last step.
StrataRecords ==
  {[stratum |-> s, steps |-> steps[s], cause |-> s = last] : s \in {t \in Strata : steps[t] > 0}}

Record == episodes' = episodes \cup
  {[pair |-> pair, arm |-> arm, length |-> length, strata |-> StrataRecords, seen |-> seen]}

\* Mutant: the episode is not counted.
Switch_NotCounted ==
  LET done == [counts EXCEPT ![arm] = @ + 0]
  IN  /\ counts' = done
      /\ IF \A a \in Arms : done[a] >= Episodes
         THEN active' = FALSE /\ UNCHANGED <<arm, pair>>
         ELSE active' = active /\ arm' = Other(arm) /\ pair' = done[arm']

\* The environment retires, or goes on with the other arm at that arm's own count.
Switch ==
  LET done == [counts EXCEPT ![arm] = @ + 1]
  IN  /\ counts' = done
      /\ IF \A a \in Arms : done[a] >= Episodes
         THEN active' = FALSE /\ UNCHANGED <<arm, pair>>
         ELSE active' = active /\ arm' = Other(arm) /\ pair' = done[arm']

Finish ==
  /\ pc = "finish" /\ pc' = "before"
  /\ IF active THEN Record /\ Switch ELSE UNCHANGED <<episodes, counts, active, arm, pair>>
  /\ Clear
  /\ length' = 0 /\ since' = Never /\ steps' = NoSteps /\ last' = "startup" /\ worn' = 0 /\ seen' = <<>>
  /\ UNCHANGED <<duration, others>>

OthersFinish ==
  /\ pc = "before" /\ others /\ others' = FALSE
  /\ UNCHANGED <<duration, arm, pair, counts, active, length, since, wrench, remaining,
                 steps, last, episodes, pc, worn, seen>>

Stop == /\ pc = "before" /\ ~active /\ ~others /\ pc' = "end"
        /\ UNCHANGED <<duration, arm, pair, counts, active, others, length, since, wrench,
                       remaining, steps, last, episodes, worn, seen>>

Next == BeforeStep \/ Step \/ Finish \/ OthersFinish \/ Stop

\* The loop runs on; the other environments' episodes are capped as well.
Spec == Init /\ [][Next]_vars /\ WF_vars(BeforeStep) /\ WF_vars(Step) /\ WF_vars(Finish)
        /\ WF_vars(Stop) /\ SF_vars(OthersFinish)
-----------------------------------------------------------------------------
TypeOK ==
  /\ arm \in Arms /\ pair \in 0..Episodes - 1 /\ counts \in [Arms -> 0..Episodes]
  /\ length \in 0..MaxLength /\ since \in 0..Never
  /\ wrench = <<>> \/ wrench \in Draws
  /\ steps \in [Strata -> 0..MaxLength] /\ last \in Strata
  /\ pc \in {"before", "step", "finish", "end"}

\* docs/evaluation.md: every environment runs a crossover.  No arm of a pair is recorded
\* twice, and at the end every pair has both.
PairsAreComplete ==
  /\ \A e, g \in episodes : e.pair = g.pair /\ e.arm = g.arm => e = g
  /\ pc = "end" => {<<e.pair, e.arm>> : e \in episodes} = (0..Episodes - 1) \X Arms

\* docs/evaluation.md: both arms of a pair see the same schedule, the shorter episode a
\* prefix of it.
SameSchedule ==
  \A e, g \in episodes : e.pair = g.pair =>
    IsPrefix(e.seen, g.seen) \/ IsPrefix(g.seen, e.seen)

StepsIn(e, s) ==
  LET rows == {row \in e.strata : row.stratum = s}
  IN  IF rows = {} THEN 0 ELSE (CHOOSE row \in rows : TRUE).steps

\* docs/evaluation.md: every episode step belongs to exactly one stratum, and a step is
\* in recovery only after a push of its own episode.
StrataPartitionEpisodes ==
  \A e \in episodes :
    /\ \A r, q \in e.strata : r.stratum = q.stratum => r = q
    /\ StepsIn(e, "startup") + StepsIn(e, "sustained") + StepsIn(e, "recovery") = e.length
    /\ (\E row \in e.strata : row.stratum = "recovery") <=> e.seen # <<>>

\* docs/evaluation.md: a termination is booked once, to the stratum the episode ended in.
CauseIsBookedOnce ==
  \A e \in episodes : Cardinality({row \in e.strata : row.cause}) = 1

\* A wrench acts only while the episode it was drawn for runs, for the steps it has left.
WrenchIsThePairs ==
  wrench # <<>> => /\ active /\ seen # <<>> /\ wrench[1] = pair /\ wrench = Last(seen)
                   /\ worn + remaining = (duration[wrench] + 1) \div 2

\* The recorded equivalent velocity is what the wrench delivers: force times the time it
\* acts, where the force was computed for the drawn duration (docs/difficulty.md; violated).
ImpulseIsTheRecorded ==
  wrench # <<>> /\ remaining = 0 => 2 * worn = duration[wrench]

\* Every environment completes its pairs, so the qualification ends.
QualificationEnds == <>(pc = "end")
=============================================================================
