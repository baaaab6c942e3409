---------------------------- MODULE WatchdogPolicy ----------------------------
(***************************************************************************)
(* The pure decisions of the training watchdog: thresholds mapped to       *)
(* intervention levels, the five health signals combined, the next         *)
(* intervention chosen, the verdict on a dead trainer, and the baseline    *)
(* against which a qualification report regresses.  A level is its rank in *)
(* LEVELS; a threshold triple is <<warn, preserve, stop>>.                 *)
(***************************************************************************)
EXTENDS Integers, FiniteSets, FiniteSetsExt, SequencesExt

CONSTANTS Thresholds,        \* [signal -> <<warn, preserve, stop>>]
          NoReading          \* nvidia-smi failed, or a metric that is not finite

Ok == 0
Warn == 1
Preserve == 2
Stop == 3
Levels == Ok..Stop

Rising == {"heartbeat", "checkpoint", "worker", "qualification"}

ValidThresholds ==
  /\ \A s \in Rising : /\ Thresholds[s][1] <= Thresholds[s][2]
                       /\ Thresholds[s][2] <= Thresholds[s][3]
  /\ Thresholds.gpu[1] >= Thresholds.gpu[2]
  /\ Thresholds.gpu[2] >= Thresholds.gpu[3]

ASSUME ThresholdsAssumption == ValidThresholds

ThresholdLevel(value, limits) == Max({Ok} \cup {l \in Warn..Stop : value >= limits[l]})
LowLevel(value, limits) == Max({Ok} \cup {l \in Warn..Stop : value <= limits[l]})

\* One poll never stops on memory alone.
GpuLevel(free, streak) ==
  IF free = NoReading \/ streak = 0 THEN Ok
  ELSE LET level == LowLevel(free, Thresholds.gpu)
       IN  IF level = Stop /\ streak < 2 THEN Preserve ELSE level

GpuStreak(free, streak) ==
  IF free # NoReading /\ free <= Thresholds.gpu[Warn] THEN streak + 1 ELSE 0

DecideHealth(o) ==
  Max({ ThresholdLevel(o.heartbeat, Thresholds.heartbeat),
        ThresholdLevel(o.checkpoint, Thresholds.checkpoint),
        GpuLevel(o.gpu, o.streak),
        ThresholdLevel(o.worker, Thresholds.worker),
        ThresholdLevel(o.qualification, Thresholds.qualification) })

InterventionFor(desired, maximum, acknowledged, pending) ==
  LET bounded == Min({desired, maximum})
  IN  CASE pending \/ bounded < Warn -> Ok
        [] ~pending /\ bounded = Warn -> Warn
        [] ~pending /\ bounded = Preserve -> IF acknowledged THEN Ok ELSE Preserve
        [] ~pending /\ bounded = Stop -> IF acknowledged THEN Stop ELSE Preserve

TerminalVerdict(status) ==
  CASE status = "completed" -> "completed"
    [] status = "stopped_by_watchdog" -> "stopped_by_watchdog"
    [] status = "failed" -> "trainer_failed"
    [] OTHER -> "trainer_exited_unexpectedly"

-----------------------------------------------------------------------------
(* Qualification: a snapshot is [eligible, hazard, recovery]; the ratios    *)
(* are integers in units of the margins' scale, or NoReading for NaN.       *)

Finite(values) == {i \in DOMAIN values : values[i] # NoReading}

\* What comes before the i-th value in the sorted order, itself included.
UpTo(values, i) ==
  {j \in Finite(values) : values[j] < values[i] \/ (values[j] = values[i] /\ j <= i)}

Sorted(values) ==
  [k \in 1..Cardinality(Finite(values)) |->
     values[CHOOSE i \in Finite(values) : Cardinality(UpTo(values, i)) = k]]

\* Twice the median, so that the mean of two middle values stays an integer.
TwiceMedian(values) ==
  LET sorted == Sorted(values)
      count == Cardinality(Finite(values))
      half == count \div 2
  IN  IF count = 0 THEN NoReading
      ELSE IF count % 2 = 1 THEN 2 * sorted[half + 1]
      ELSE sorted[half] + sorted[half + 1]

QualificationBaseline(samples) ==
  [ eligible |-> 2 * Cardinality({i \in DOMAIN samples : samples[i].eligible}) > Len(samples),
    hazard   |-> TwiceMedian([i \in DOMAIN samples |-> samples[i].hazard]),
    recovery |-> TwiceMedian([i \in DOMAIN samples |-> samples[i].recovery]) ]

\* The promotion metrics that are worse than the baseline by their margin.
QualificationRegressions(base, now, hazardMargin, recoveryMargin) ==
  {reason \in {"eligible", "hazard", "recovery"} :
     \/ reason = "eligible" /\ base.eligible /\ ~now.eligible
     \/ /\ reason = "hazard" /\ NoReading \notin {base.hazard, now.hazard}
        /\ 2 * now.hazard > base.hazard + 2 * hazardMargin
     \/ /\ reason = "recovery" /\ NoReading \notin {base.recovery, now.recovery}
        /\ 2 * now.recovery < base.recovery - 2 * recoveryMargin}
=============================================================================
