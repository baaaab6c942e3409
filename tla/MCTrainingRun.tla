----------------------------- MODULE MCTrainingRun -----------------------------
(***************************************************************************)
(* TrainingRun for TLC: the sets its configuration takes values from.      *)
(***************************************************************************)
EXTENDS TrainingRun

\* Every level of every signal is reachable with the values tried.
SmallThresholds ==
  [heartbeat |-> <<1, 2, 2>>, checkpoint |-> <<2, 2, 2>>, gpu |-> <<3, 2, 1>>,
   worker |-> <<1, 1, 2>>, qualification |-> <<1, 2, 2>>]
Readings == {0, 3, NoReading}

\* Reports that improve, regress in one metric each, and lack a metric.
Report(e, h, r) == [eligible |-> e, hazard |-> h, recovery |-> r, whole |-> TRUE]
ReportChoices == {Report(TRUE, 8, 2), Report(FALSE, 8, 2), Report(TRUE, 10, 2),
                  Report(TRUE, 8, 0), Report(TRUE, NoReading, 3)}

KlChoices == {0, 1, 4, 10}
OneJoint == {"ankle"}
AllKeys == {"func", "gain", "initial_stage", "order", "workers", "scale"}
=============================================================================
