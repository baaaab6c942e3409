--------------------------- MODULE TrainingWatchdog ---------------------------
(***************************************************************************)
(* The watchdog protocol between one trainer (RunnerWatchdogBridge) and    *)
(* the monitors attached to it one after the other (watch_training.py):    *)
(* five JSON files, each replaced atomically by one writer.  Every file    *)
(* access is a step of its own, so the two processes interleave between a  *)
(* read and the decision taken on it.  Ages count ticks of a clock that is *)
(* coarser than the reading half of one poll.                              *)
(***************************************************************************)
EXTENDS WatchdogPolicy, FiniteSets

CONSTANTS MaxAge,            \* ages saturate here
          MaxFailures,       \* controller-worker failures counted
          GpuReadings,       \* what nvidia-smi may report
          MaxBadStreak,      \* consecutive qualification regressions
          MaxMonitors,       \* monitors attached during the run
          MaxLevels,         \* --max-level values they are started with
          TrainerMayFail     \* a step may raise, or the process be killed

ASSUME BoundsAssumption ==
  /\ {MaxAge, MaxFailures, MaxBadStreak} \subseteq Nat
  /\ MaxMonitors \in Nat \ {0}
  /\ MaxLevels \subseteq Warn..Stop
  /\ TrainerMayFail \in BOOLEAN

\* More names than the protocol can hold at once stand for uuid4.
Ids == 1..5
None == 0
NoRequest == [id |-> None, action |-> Ok, monitor |-> 0]
NoResponse == [id |-> None, action |-> Ok]
Terminal == {"completed", "failed", "stopped_by_watchdog"}

VARIABLES
  pc,          \* where the trainer is between two file accesses
  serving,     \* the request being serviced
  lastRequest, \* _last_request_id
  attached,    \* runtime.json exists
  status,      \* status.json
  heartbeat,   \* heartbeat.json: [present, age, failures]; age since the start before
  checkpointAge,
  request, response,
  mon,         \* the monitor's locals
  maxLevel,    \* --max-level of each monitor, for the properties
  durable,     \* requests whose checkpoint is on disk, for the properties
  preserved    \* monitors for which a preserve checkpoint is on disk

trainerVars == <<pc, serving, lastRequest>>
trainerFiles == <<attached, status, heartbeat, checkpointAge, response>>
ghosts == <<maxLevel, durable, preserved>>
vars == <<trainerVars, trainerFiles, request, mon, ghosts>>

Detached == [pc |-> "off", no |-> 0, status |-> "absent", age |-> 0, checkpoint |-> 0,
             base |-> NoReading, failures |-> 0, gpu |-> NoReading, streak |-> 0,
             bad |-> 0, pending |-> NoRequest, preserveAck |-> FALSE,
             stopAck |-> FALSE, verdict |-> "none"]

Init ==
  /\ pc = "boot" /\ serving = NoRequest /\ lastRequest = None
  /\ attached = FALSE /\ status = "absent"
  /\ heartbeat = [present |-> FALSE, age |-> 0, failures |-> 0]
  /\ checkpointAge = 0 /\ request = NoRequest /\ response = NoResponse
  /\ mon = Detached /\ maxLevel = <<>> /\ durable = {} /\ preserved = {}

Alive == pc # "dead"
-----------------------------------------------------------------------------
(* The trainer.                                                             *)

PublishRuntime ==
  /\ pc = "boot" /\ pc' = "starting"
  /\ attached' = TRUE
  /\ heartbeat' = [heartbeat EXCEPT !.age = 0] /\ checkpointAge' = 0
  /\ UNCHANGED <<serving, lastRequest, status, response, request, mon, ghosts>>

PublishStatus(from, state, to) ==
  /\ pc = from /\ pc' = to /\ status' = state
  /\ UNCHANGED <<serving, lastRequest, attached, heartbeat, checkpointAge, response,
                 request, mon, ghosts>>

\* One iteration is collected and learned, then its heartbeat published.
Beat ==
  /\ pc = "iterate" /\ pc' = "beaten"
  /\ \E failed \in {0, 1, MaxFailures} :
       /\ heartbeat.failures + failed <= MaxFailures
       /\ heartbeat' = [present |-> TRUE, age |-> 0, failures |-> heartbeat.failures + failed]
  /\ UNCHANGED <<serving, lastRequest, attached, status, checkpointAge, response,
                 request, mon, ghosts>>

\* Mutant: the request is not remembered as serviced.
ReadRequest_Forgets ==
  /\ pc = "service"
  /\ IF request.id \in {None, lastRequest}
     THEN pc' = "logged" /\ UNCHANGED serving
     ELSE pc' = "saving" /\ serving' = request
  /\ UNCHANGED <<lastRequest, trainerFiles, request, mon, ghosts>>

\* Mutant: request identifiers are taken for increasing numbers.
ReadRequest_Ordered ==
  /\ pc = "service"
  /\ IF request.id <= lastRequest
     THEN pc' = "logged" /\ UNCHANGED <<serving, lastRequest>>
     ELSE pc' = "saving" /\ serving' = request /\ lastRequest' = request.id
  /\ UNCHANGED <<trainerFiles, request, mon, ghosts>>

ReadRequest ==
  /\ pc = "service"
  /\ IF request.id \in {None, lastRequest}
     THEN pc' = "logged" /\ UNCHANGED <<serving, lastRequest>>
     ELSE pc' = "saving" /\ serving' = request /\ lastRequest' = request.id
  /\ UNCHANGED <<trainerFiles, request, mon, ghosts>>

\* runner.save reports the checkpoint, which refreshes a published heartbeat.
Refreshed == IF heartbeat.present THEN [heartbeat EXCEPT !.age = 0] ELSE heartbeat

SaveRequested ==
  /\ pc = "saving" /\ pc' = "saved"
  /\ checkpointAge' = 0 /\ heartbeat' = Refreshed
  /\ durable' = durable \cup {serving.id}
  /\ preserved' = IF serving.action = Preserve THEN preserved \cup {serving.monitor}
                  ELSE preserved
  /\ UNCHANGED <<serving, lastRequest, attached, status, response, request, mon, maxLevel>>

\* Mutant: acknowledged before the save.
Acknowledge_Early ==
  /\ pc = "saving" /\ pc' = "saved"
  /\ response' = [id |-> serving.id, action |-> serving.action]
  /\ UNCHANGED <<serving, lastRequest, attached, status, heartbeat, checkpointAge,
                 request, mon, ghosts>>

Acknowledge ==
  /\ pc = "saved" /\ pc' = IF serving.action = Stop THEN "stopping" ELSE "logged"
  /\ response' = [id |-> serving.id, action |-> serving.action]
  /\ UNCHANGED <<serving, lastRequest, attached, status, heartbeat, checkpointAge,
                 request, mon, ghosts>>

\* save_interval: the ordinary checkpoint of this iteration, or none.
EndIteration ==
  /\ pc = "logged" /\ pc' \in {"iterate", "finished"}
  /\ \/ pc' = "iterate" /\ UNCHANGED <<checkpointAge, heartbeat>>
     \/ checkpointAge' = 0 /\ heartbeat' = Refreshed
  /\ UNCHANGED <<serving, lastRequest, attached, status, response, request, mon, ghosts>>

\* An exception in an iteration or a save; WatchdogStop is not one of them.
Raise ==
  /\ TrainerMayFail /\ pc \in {"iterate", "saving", "logged"} /\ pc' = "raised"
  /\ UNCHANGED <<serving, lastRequest, trainerFiles, request, mon, ghosts>>

Die(from) ==
  /\ pc \in from /\ pc' = "dead"
  /\ UNCHANGED <<serving, lastRequest, trainerFiles, request, mon, ghosts>>
Exit == Die({"exiting"})
Killed == TrainerMayFail /\ Die({"starting", "iterate", "beaten", "service", "saving", "saved",
                                 "stopping", "logged", "raised", "finished"})

TrainerStep ==
  \/ PublishRuntime \/ PublishStatus("starting", "starting", "iterate")
  \/ Beat \/ PublishStatus("beaten", "running", "service")
  \/ ReadRequest \/ SaveRequested \/ Acknowledge \/ EndIteration
  \/ PublishStatus("stopping", "stopped_by_watchdog", "exiting")
  \/ PublishStatus("finished", "completed", "exiting")
  \/ PublishStatus("raised", "failed", "exiting")
  \/ Exit

-----------------------------------------------------------------------------
(* The monitor: one poll is Status, Liveness, Heartbeat, Evidence, Response *)
(* and Decide.  A local that the next poll reads anew is cleared once used. *)

MonStep(from, to) == mon.pc = from /\ mon' = to
Trainer == <<trainerVars, trainerFiles>>

Attach ==
  /\ mon.pc = "off" /\ mon.no < MaxMonitors /\ attached /\ Alive
  /\ mon' = [Detached EXCEPT !.pc = "status", !.no = mon.no + 1]
  /\ \E level \in MaxLevels : maxLevel' = Append(maxLevel, level)
  /\ UNCHANGED <<Trainer, request, durable, preserved>>

ReadStatus ==
  /\ MonStep("status", [mon EXCEPT !.pc = "alive", !.status = status])
  /\ UNCHANGED <<Trainer, request, ghosts>>

CheckAlive ==
  /\ MonStep("alive", IF Alive THEN [mon EXCEPT !.pc = "heartbeat", !.status = "absent"]
                      ELSE [mon EXCEPT !.pc = "off", !.verdict = TerminalVerdict(mon.status)])
  /\ UNCHANGED <<Trainer, request, ghosts>>

ReadHeartbeat ==
  LET base == IF heartbeat.present /\ mon.base = NoReading THEN heartbeat.failures
              ELSE mon.base
  IN  /\ MonStep("heartbeat",
           [mon EXCEPT !.pc = "evidence", !.age = heartbeat.age, !.checkpoint = checkpointAge,
              !.base = base,
              !.failures = IF base = NoReading THEN 0 ELSE Max({0, heartbeat.failures - base})])
      /\ UNCHANGED <<Trainer, request, ghosts>>

\* nvidia-smi and the qualification report.
ReadEvidence ==
  /\ \E free \in GpuReadings, bad \in {0, mon.bad, Min({mon.bad + 1, MaxBadStreak})} :
       MonStep("evidence",
         [mon EXCEPT !.pc = "response", !.gpu = free, !.bad = bad,
                     !.streak = Min({2, GpuStreak(free, mon.streak)})])
  /\ UNCHANGED <<Trainer, request, ghosts>>

ReadResponse ==
  LET answered == mon.pending # NoRequest /\ response.id = mon.pending.id
  IN  /\ MonStep("response",
           [mon EXCEPT !.pc = "decide",
              !.pending = IF answered THEN NoRequest ELSE @,
              !.preserveAck = @ \/ (answered /\ mon.pending.action = Preserve),
              !.stopAck = @ \/ (answered /\ mon.pending.action = Stop)])
      /\ UNCHANGED <<Trainer, request, ghosts>>

Observation == [heartbeat |-> mon.age, checkpoint |-> mon.checkpoint, gpu |-> mon.gpu,
                streak |-> mon.streak, worker |-> mon.failures, qualification |-> mon.bad]
Level == DecideHealth(Observation)
Action == IF mon.stopAck THEN Ok
          ELSE InterventionFor(Level, maxLevel[mon.no], mon.preserveAck,
                               mon.pending # NoRequest)
Fresh == CHOOSE i \in Ids : i \notin {request.id, response.id, lastRequest, serving.id}

Decide ==
  LET asked == [id |-> Fresh, action |-> Action, monitor |-> mon.no]
      ask == Action \in {Preserve, Stop}
  IN  /\ MonStep("decide",
           [mon EXCEPT !.pc = "status", !.age = 0, !.checkpoint = 0, !.failures = 0,
                       !.preserveAck = @ /\ Level > Warn,
                       !.pending = IF ask THEN asked ELSE @])
      /\ request' = IF ask THEN asked ELSE request
      /\ durable' = IF ask THEN durable \ {Fresh} ELSE durable
      /\ UNCHANGED <<Trainer, maxLevel, preserved>>

\* KeyboardInterrupt, --once, or a killed monitor: the trainer is not told.
Interrupt ==
  /\ mon.pc # "off" /\ mon.no < MaxMonitors
  /\ mon' = [mon EXCEPT !.pc = "off"]
  /\ UNCHANGED <<Trainer, request, ghosts>>

MonitorStep == ReadStatus \/ CheckAlive \/ ReadHeartbeat \/ ReadEvidence \/ ReadResponse
               \/ Decide

Tick ==
  /\ Alive /\ attached /\ mon.pc \in {"off", "status"}
  /\ heartbeat' = [heartbeat EXCEPT !.age = Min({@ + 1, MaxAge})]
  /\ checkpointAge' = Min({checkpointAge + 1, MaxAge})
  /\ heartbeat.age < MaxAge \/ checkpointAge < MaxAge
  /\ UNCHANGED <<trainerVars, attached, status, response, request, mon, ghosts>>

Next == TrainerStep \/ Raise \/ Killed \/ Attach \/ MonitorStep \/ Interrupt \/ Tick

\* The trainer keeps iterating and the monitor keeps polling.
Spec == Init /\ [][Next]_vars /\ WF_vars(TrainerStep) /\ WF_vars(MonitorStep)
-----------------------------------------------------------------------------
Requests == [id : Ids \cup {None}, action : Levels, monitor : 0..MaxMonitors]

\* The types of every variable of the protocol (training_watchdog.py, watch_training.py).
TypeOK ==
  /\ pc \in {"boot", "starting", "iterate", "beaten", "service", "saving", "saved",
             "stopping", "logged", "raised", "finished", "exiting", "dead"}
  /\ serving \in Requests /\ request \in Requests /\ mon.pending \in Requests
  /\ response \in [id : Ids \cup {None}, action : Levels]
  /\ status \in Terminal \cup {"absent", "starting", "running"}
  /\ {heartbeat.age, checkpointAge, mon.age, mon.checkpoint} \subseteq 0..MaxAge
  /\ heartbeat.failures \in 0..MaxFailures
  /\ mon.verdict \in {"none", "completed", "stopped_by_watchdog", "trainer_failed",
                     "trainer_exited_unexpectedly"}
  /\ durable \subseteq Ids /\ preserved \subseteq 1..MaxMonitors

\* Preserve before stop: whoever asks the trainer to stop has a preserve checkpoint of its
\* own on disk, through every interleaving with the trainer and with earlier monitors
\* (intervention_for, and the acknowledgement the monitor keeps between polls).
StopFollowsPreserve == request.action = Stop => request.monitor \in preserved

\* An acknowledgement is never published before the checkpoint it promises is durable, and
\* a trainer stopped by the watchdog leaves one (_service_request).
AcknowledgedIsDurable ==
  /\ response.id # None => response.id \in durable
  /\ status = "stopped_by_watchdog" => serving.action = Stop /\ serving.id \in durable

\* No monitor asks for more than its --max-level, whatever an earlier one left in
\* request.json, and none asks again while its last request is unanswered.
WithinMaxLevel ==
  /\ request.id # None => request.action <= maxLevel[request.monitor]
  /\ mon.pending # NoRequest => mon.pending.action <= maxLevel[mon.no]

OneOutstanding ==
  [][request' # request /\ request.monitor = mon.no /\ request.id # None
       => response.id = request.id]_vars

\* A request is checkpointed at most once, however long it stays in request.json.
ServicedOnce == [][pc = "saving" /\ pc' = "saved" => serving.id \notin durable]_vars

\* A verdict names how the trainer ended; the one verdict that claims no knowledge is
\* excepted (_terminal_verdict on the status read before the liveness check).
VerdictIsTrue ==
  mon.verdict \in {"completed", "stopped_by_watchdog", "trainer_failed"}
    => ~Alive /\ mon.verdict = TerminalVerdict(status)

\* The monitor stops a run only after a preserve of its own was acknowledged, what is
\* acknowledged is on disk, no monitor goes beyond the level it was started with, and its
\* verdict tells how the run ended.
InterventionsAreDurable ==
  TypeOK /\ StopFollowsPreserve /\ AcknowledgedIsDurable /\ WithinMaxLevel /\ VerdictIsTrue

\* Whatever dies between two file accesses, one request is outstanding and none is served
\* twice.
RequestsAreServedOnce == OneOutstanding /\ ServicedOnce

\* docs/training-watchdog.md: completion, a checkpointed stop, a reported failure and an
\* exit without a terminal status are separate verdicts (violated).
UnexpectedExitHasNoStatus ==
  mon.verdict = "trainer_exited_unexpectedly" => status \notin Terminal

\* docs/training-watchdog.md: free memory below the stop threshold stops a run only after
\* two polls have seen it there (violated).
StopTakesTwoLowPolls ==
  [][mon.pc = "evidence" /\ GpuLevel(mon'.gpu, mon'.streak) = Stop
       => mon.gpu # NoReading /\ mon.gpu <= Thresholds.gpu[Stop]]_vars

\* The trainer answers the request in request.json, unless it ends or the request is
\* replaced by another monitor's.
RequestAnswered ==
  \A i \in Ids : request.id = i ~> (response.id = i \/ request.id # i \/ ~Alive)

\* A run whose readings stay at the stop level is stopped: the monitor allowed to do so
\* gets its preserve acknowledged, then its stop.
Watching == mon.pc # "off" /\ maxLevel[mon.no] = Stop
DegradedRunStops == Watching ~> (~Watching \/ ~Alive)

\* A monitor that is not interrupted notices the end of the trainer and reports it.
EndIsReported == (~Alive /\ mon.pc # "off") ~> (mon.pc = "off")
=============================================================================
