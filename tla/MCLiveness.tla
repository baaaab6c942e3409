------------------------------- MODULE MCLiveness -------------------------------
(***************************************************************************)
(* What has to happen in the end, each part on a small instance and under  *)
(* the fairness its own module states: the pool of workers, the action     *)
(* term's handshake, trainer and monitor, a paired qualification; and the  *)
(* loop that starts the pool (SpawnLoop, whose constants the configuration *)
(* gives).  A behaviour moves one part and leaves the others in their      *)
(* initial state.                                                          *)
(***************************************************************************)
EXTENDS SpawnLoop

CONSTANT NoReading

VARIABLES
  part,
  pc, rest, batch, closed, status, generation, resetRows, proc, failure, requests, replies,
  calls, sent, answered, owed,
  slice, covered, open, rPc, substep, ending, pendingDispatch, pendingReset,
  dispatchResets, inst, native, solved, rStatus, output, hasStaged, staged, previous,
  next, readout, readoutFresh, controllerFailed, workerFailed,
  wPc, serving, lastRequest, attached, wStatus, heartbeat, checkpointAge, response,
  request, mon, maxLevel, durable, preserved,
  duration, arm, pair, counts, active, others, length, since, wrench, remaining, steps,
  last, episodes, ePc, worn, seen

poolVars ==
  <<pc, rest, batch, closed, status, generation, resetRows, proc, failure, requests,
    replies, calls, sent, answered, owed>>
handshakeVars ==
  <<slice, covered, open, rPc, substep, ending, pendingDispatch, pendingReset,
    dispatchResets, inst, native, solved, rStatus, output, hasStaged, staged, previous,
    next, readout, readoutFresh, controllerFailed, workerFailed>>
watchdogVars ==
  <<wPc, serving, lastRequest, attached, wStatus, heartbeat, checkpointAge, response,
    request, mon, maxLevel, durable, preserved>>
evaluationVars ==
  <<duration, arm, pair, counts, active, others, length, since, wrench, remaining, steps,
    last, episodes, ePc, worn, seen>>

Small == [heartbeat |-> <<1, 2, 2>>, checkpoint |-> <<2, 2, 2>>, gpu |-> <<3, 2, 1>>,
          worker |-> <<1, 1, 2>>, qualification |-> <<1, 2, 2>>]

Pool == INSTANCE ControllersManager WITH
  NumControllers <- 2, NumWorkers <- 2, MaxCalls <- 1, MaxGeneration <- 1
Handshake == INSTANCE ResidualAction WITH
  Worker <- {1}, Row <- {1, 2}, RowsOf <- <<{1, 2}>>, Frameskip <- 2, Decimation <- 4,
  pc <- rPc, status <- rStatus
Watchdog == INSTANCE TrainingWatchdog WITH
  Thresholds <- Small, MaxAge <- 0, MaxFailures <- 0, GpuReadings <- {0},
  MaxBadStreak <- 0, MaxMonitors <- 2, MaxLevels <- {3}, TrainerMayFail <- TRUE,
  pc <- wPc, status <- wStatus
Evaluation == INSTANCE PairedEvaluation WITH
  Scenario <- "kick", Episodes <- 2, First <- 1, Interval <- 3, Recovery <- 1,
  MaxLength <- 5, Durations <- {2}, pc <- ePc

AllInit ==
  /\ part \in {"spawn", "pool", "handshake", "watchdog", "evaluation"}
  /\ Init /\ Pool!Init /\ Handshake!Init /\ Watchdog!Init /\ Evaluation!Init
  /\ part # "evaluation" => arm = "baseline" /\ others
  /\ part # "spawn" => numControllers = 2 /\ numWorkers = 2 /\ rowSize = 1 /\ base = 0

\* The steps of one part.
SpawnStep(A) == part = "spawn" /\ A
  /\ UNCHANGED <<part, poolVars, handshakeVars, watchdogVars, evaluationVars>>
PoolStep(A) == part = "pool" /\ A
  /\ UNCHANGED <<part, vars, handshakeVars, watchdogVars, evaluationVars>>
HandshakeStep(A) == part = "handshake" /\ A
  /\ UNCHANGED <<part, vars, poolVars, watchdogVars, evaluationVars>>
WatchdogStep(A) == part = "watchdog" /\ A
  /\ UNCHANGED <<part, vars, poolVars, handshakeVars, evaluationVars>>
EvaluationStep(A) == part = "evaluation" /\ A
  /\ UNCHANGED <<part, vars, poolVars, handshakeVars, watchdogVars>>

AllNext ==
  \/ SpawnStep(Next) \/ PoolStep(Pool!Next) \/ HandshakeStep(Handshake!Next)
  \/ WatchdogStep(Watchdog!Next) \/ EvaluationStep(Evaluation!Next)

allVars ==
  <<part, vars, poolVars, handshakeVars, watchdogVars, evaluationVars>>

\* The fairness of ControllersManager, ResidualAction, TrainingWatchdog and PairedEvaluation.
AllSpec ==
  /\ AllInit /\ [][AllNext]_allVars
  /\ WF_allVars(PoolStep(Pool!Progress))
  /\ WF_allVars(HandshakeStep(Handshake!EnvironmentStep))
  /\ WF_allVars(WatchdogStep(Watchdog!TrainerStep))
  /\ WF_allVars(WatchdogStep(Watchdog!MonitorStep))
  /\ WF_allVars(EvaluationStep(Evaluation!BeforeStep))
  /\ WF_allVars(EvaluationStep(Evaluation!Step))
  /\ WF_allVars(EvaluationStep(Evaluation!Finish))
  /\ WF_allVars(EvaluationStep(Evaluation!Stop))
  /\ SF_allVars(EvaluationStep(Evaluation!OthersFinish))
-----------------------------------------------------------------------------
\* Every call into the pool returns, whatever the workers do, and a close that has begun
\* completes, with no worker process left.
PoolProgresses == part = "pool" => Pool!CallsReturn /\ Pool!CloseCompletes

\* A slice that lost its worker is served again, however its rows are reset.
QuarantineEnds == Handshake!QuarantineEnds

\* A request is answered or superseded unless the trainer dies; a run that stays degraded
\* is stopped; a monitor notices the end of the trainer.
WatchdogActs ==
  Watchdog!RequestAnswered /\ Watchdog!DegradedRunStops /\ Watchdog!EndIsReported

\* A paired qualification ends, whatever lengths the episodes have.
QualificationEnds == part = "evaluation" => Evaluation!QualificationEnds
=============================================================================
