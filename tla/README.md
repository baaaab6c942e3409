# Verification of mc_mjlab

TLA+ models, TLC runs and TLAPS proofs kept beside mc_mjlab, a reinforcement
learning environment in which every simulated robot is driven by an mc_rtc
controller plus a learned residual. This document says what the system's parts
are, which module models which, what the runs and the proofs show, and what is
left out.

Contents: 1 inventory, 2 modules and how they correspond to the code, 3 runs,
4 proofs, 5 plan, 6 what is not modelled.

## 1. Inventory

One *trainer* process steps a batch of environments. Each environment has one
controller *row*. The rows live in *worker* processes, a contiguous slice of
rows per worker, and are exchanged through two shared-memory blocks (inputs and
outputs, one row of doubles per controller).

| part | state it keeps | operations | talks to |
| --- | --- | --- | --- |
| `ControllersManager` (C++, trainer) | per worker: socket, status, child process, rows, reset flags, generation; `m_closed` | constructor, `dispatch`, `collect`, `respawn`, `close` | workers, by one PAIR socket per worker and generation |
| `IPCSocket` | a nanomsg PAIR endpoint | `send`, `receive` with deadlines | |
| worker `main` | the sticky `failure` string | startup, command loop | `ControllersHost` |
| `ControllersHost` | one `ControllerInstance` per row, the bound blocks | `initialize`, `reset`, `step` over all rows | shared blocks |
| `ControllerInstance` | the mc_rtc controller, `m_initialized`, `m_failed` | `initialize`, `reset`, `step` | mc_rtc (external) |
| residual action term (Python, trainer) | pending dispatch and resets, ramp endpoints, staged output, latches | `apply_actions`, `reset`, `close` | manager, shared blocks |
| recovery authority | per environment: armed, hold and age counters | `update`, `reset` | action term |
| achievement curriculum | stage, streaks, consumed reports, qualified checkpoints | report consumption, restore, publish | files of the qualifier |
| feedback and walking actions | offsets, commands, readouts, action history | `process_actions`, `apply_actions`, `reset` | simulator bridge, shared blocks |
| simulator bridge, datastore columns | the layout of a row, feeds and readouts | prefill, set and get, release | shared blocks, controller datastore |
| torque and ResidualMPC actions | gains, effort bounds, action scale | construction, startup events, projection | simulated actuators |
| training watchdog | trainer bridge: serviced requests; monitor: baseline, interventions | status write, request service, verdict | files between two processes |
| PPO, runner, provenance | rollout storage, masks, learning rate, manifests, checkpoints | act, update, save, load | other ranks, disk |
| disturbances and their curricula | per environment: wrench, countdown, next push, level, record of the last push; rung or stage | `__call__`, `reset`, `set_stage` | simulator, achievement curriculum |
| task configuration | the terms of a task | building, variants, later edits | every manager of the environment |
| paired qualification, verdicts | arm, pair and counts per environment; summaries | crossover, strata, gates, selection | environment, report files |
| comparison script | per environment sums and episodes | fixed cohort, cleanup | environment |
| rewards, observations, metrics, calibration and documentation scripts | none | functions of one simulation state; offline experiments | simulator, files |

What is hard about it:

* **Two clocks.** A solve is dispatched at the first substep of a control period
  and collected a period later; resets fall anywhere in between, so results
  arrive for episodes that have ended.
* **Processes fail.** A worker crashes, wedges, times out, or answers late; its
  rows are quarantined until each has been reset, at different times.
* **Shared memory has no lock.** Exclusion rests entirely on "one request is
  outstanding, and the trainer touches the blocks only after the answer".
* **Partial failure.** One row of a slice throws, one worker of a batch fails
  to start, one slice of a collect is lost.
* **Files between processes** (curriculum reports, watchdog requests) with
  crashes between two writes.
* **Values outlive their episode.** Histories, offsets, records of the last push,
  authority and readouts are per environment and reset at different moments of
  the same step, in an order that spans several modules.
* **Configurations are edited in place** by name, after they were built, and are
  compared across versions of the code.
* **Evaluations select.** Episodes end asynchronously, workers get lost, values
  are missing; what is compared must not depend on any of that.

What makes each part correct:

* manager: a reply is matched with its own request only; no process outlives
  its entry; a slice returns only after all its rows were reset; every call
  returns; `close` leaves nothing running.
* host and instance: a row's exception does not take the other rows down; an OK
  status means outputs of this very command; a QP failure is latched.
* action term: nothing of an ended episode reaches a robot; no native reset is
  lost; the blocks are touched only while no worker uses them.
* curriculum: no report is counted twice or lost, no stage is passed without its
  own run of passing reports, a rollback leaves the level fields in agreement,
  and every qualified checkpoint a state names is a finished file.
* watchdog: a run is stopped only after a preserve was acknowledged, what is
  acknowledged is on disk, no request is served twice, every request is answered.
* actions: what the controller hears, what is rewarded and what PPO learns from
  belongs to this policy step and this episode; one PD law drives a joint.
* term life cycle: workers go before the memory they map, whatever was cut short.
* disturbances: every due push happens, once, with the duration that is recorded.
* qualification: both arms of a pair see the same pushes; no checkpoint is selected
  on a recovery that was not measured, on dependent clusters or with a lost worker.
* checkpoints: moved modules and unused defaults strand none; a changed contract, a
  lost parameter or, for a full resume, another runtime is refused.

The hazards, each at its line and with the properties that cover it, are in
`PROJECT.json`.

## 2. Modules

```
RowPartition --+-- SpawnLoop --- SpawnLoop_proofs
               +-- ControllersManager --(refines)--> WorkerPool
                      +-- ControllersManager_proofs     |
ControllerInstance --+----------------------------------+-- ResidualAction --- MCResidualAction
                     +-- ControllersHost                       +-- ResidualAction_proofs

AchievementState --+-- MCAchievementState
                   +-- AchievementCurriculum --- AchievementCurriculum_proofs (of both)

ControllersHost ----------------+-- ActionTerm --+-- MCActionTerm
RecoveryGate, FeedbackAction, --+                +-- ActionTerm_proofs
DatastoreColumns, ActuatorLaw,
ActionLifecycle

WatchdogPolicy --+-- TrainingWatchdog --+-- TrainingRun --+-- MCTrainingRun
                 +-- QualificationWatch +                 +-- TrainingRun_proofs
                     RolloutPpo --------+
                     ResumeContract ----+

VelocityKicks ---------+-- Environment --+-- MCEnvironment
ImpulseSchedule, ------+                 +-- Environment_proofs
TaskConfiguration

PairedEvaluation, -----+-- Qualification --- MCQualification
FixedCohort,                             (proved in Environment_proofs)
PromotionVerdict
SpawnLoop, ControllersManager, ResidualAction,
    TrainingWatchdog, PairedEvaluation ------------- MCLiveness

RuntimeLemmas (of RowPartition and ControllerInstance) is extended by every proof
module but that of the curriculum.
```

**ActionTerm**, **TrainingRun**, **Environment** and **Qualification** put side by
side the parts of one component: each takes over the parameters of its parts,
instantiates them and lets a behaviour pick one `part` (of Qualification a `suite`)
and move that one only. The parts share no state
in the code either (what one of them tells another is an input of it, taken from
a small set), so that checking or proving them side by side is doing so for each
of them alone; nothing is claimed about their product. Their MC modules only give
values to the constants, so that a theorem about `TermSpec`, `RunSpec`,
`EnvironmentSpec` or `QualificationSpec` is about what the runs check. MCLiveness is
a suite of the same shape, for TLC only. The composition of parts that do interact
is a module of its own: the manager with its workers, the action term with pool
and controllers, trainer with qualifier and with monitor, impulses with their
curricula.

**RowPartition** holds the arithmetic of the constructor's loop and of
`build_worker_configuration`: `Share`, `FirstRow`, `RowIds`, `SliceOffset`,
`SliceSize`.

**SpawnLoop** is the constructor's loop as a state machine: the accumulator
`first_controller_index`, and the rows and bytes given to each worker. It shows
that `FirstRow`, which `ControllersManager` uses, is what the loop computes.

**ControllersManager** is the process pool. Every C++ loop over `m_workers` is a
value of `pc` with the set `rest` of workers it has still to visit (the smallest
first), so the worker processes take steps, crash or stop between any two
visits. An endpoint is a pair (worker, generation), as in the path the code
builds; `requests` and `replies` are its two queues, and `proc` the child.
Messages carry the number of the operation they belong to, which the code does
not have: it is there so that properties can compare a reply with the request it
was accepted for. `sent`, `answered` and `owed` are history variables.

| action | code |
| --- | --- |
| `Launch`, `LaunchFails` | `spawn_worker`, from the constructor or `respawn_workers` |
| `Started`, `StartFails` | `await_worker_start` |
| `Dispatch`, `DispatchTo`, `SendFails`, `DispatchSkips` | `dispatch` |
| `Collect`, `Harvest`, `HarvestFails`, `HarvestSkips`, `Retire`, `RetireFails` | `collect`, `retire_worker` |
| `Respawn` | `respawn` |
| `CloseCall`, `Stop`, `Drain`, `Reap` | `close` |
| `Boot`, `TakeOperation`, `FinishOperation`, `TakeStop`, `Die` | `main` of worker.cpp |

A wedged worker is one that takes no more steps: no fairness is assumed of it.
A deadline is an action that may be taken at any time the code is waiting, with
or without the reply in the queue.

**WorkerPool** is what the pool promises, without processes or messages: a slice
is Idle, Asked, Lost or Down; a Down slice returns only after all its rows have
been reset. `ControllersManager!Pool` is the refinement mapping;
`ImplementsWorkerPool` is checked as a property.

**ControllerInstance** gives, for each operation, the set of outcomes it may
have: the instance afterwards, whether it threw, whether it had begun to write
the row's outputs, and the status. mc_rtc is external: any of its calls may
throw, and `run` may report an unsolvable QP.

**ControllersHost** composes `main`'s command loop with `execute`, one row per
step. `ReplaceFails` is the path in which constructing the replacement throws
outside the `try` block.

**ResidualAction** is the action term on the trainer's thread composed with
WorkerPool and ControllerInstance. Numbers are abstracted to the episode they
stem from: `seed`, `current` (computed by a controller that was reset in the
row's running episode) or `stale`. Ending an episode turns what it computed
stale wherever it is held, so `NoStaleTarget` is about the code clearing or
overwriting every copy. `collect` is one step here; that it is a loop is what
ControllersManager refines away. The dispatch snapshot `_dispatch_resets` and the
reset column of the input block are one variable, since the code assigns both
in adjacent statements with no worker running. An environment step is
`Decimation` substeps; `_validate_cfg` rejects a decimation that `frameskip`
does not divide. A row whose QP failed is not served, so it goes on replaying its
last ramp until its episode ends; the model keeps that.

**AchievementState** is `apply_qualification` with the `AchievementState` record
it maps to a new one. A report is a record of what it says; `processed` keeps the
reports whose tokens the code keeps, so that a state carries its own
justification and a property can ask for it (`IsEarned`). The five outcomes of
the code are `IsDuplicate`, `PassPending`, `Advanced`, `RegressionPending` and
`Demoted`. `weights` in a report stands for everything measured on the
checkpoint's contents: two reports that agree in all fields are one report.

**AchievementCurriculum** puts that state between three parties that share only
files: the trainer (its bridge and the runner that saves it), the qualifier, and
whoever starts the trainer again in the same directory.

| action | code |
| --- | --- |
| `Attach`, `PublishInitial` | `AchievementCurriculumBridge.__init__` |
| `Restore`, `PublishRestored` | `runner.load` of a full resume, `restore` |
| `StartAfresh` | a training that loads nothing |
| `NothingNew`, `ReadToken`, `RejectReport`, `CountReport`, `QualifyReport` | `_consume_report`, which reads the file twice |
| `AlreadyPreserved`, `Collision`, `BeginCopy`, `EndCopy` | `_preserve_checkpoint` |
| `PublishDecision` | `_publish_state` at the end of `_consume_report` |
| `BeginSave`, `EndSave`, `NextIteration`, `Complete` | `runner.save`, the logging hook, `learn` |
| `Evaluate`, `BeginReport`, `EndReport` | `qualify_checkpoints.py --achievement-stage` |
| `Crash`, `QualifierDies` | the death of a process between any two file accesses |

`report`, `request`, `models` and `copies` are the files. A write in place (the
report, a copy, a saved checkpoint) has a beginning and an end; the two
`atomic_json` files have one step. Left out: `state.json` and `events.jsonl`,
which no part of the code reads back; errors of writing them; the disabled and
the distributed bridge; play mode, which starts at the last stage and does not
train. The qualifier loads its checkpoint once per scenario and seed; the model
lets it measure what is there when it starts. It evaluates checkpoints the runner
saved, not the preserved copies. The loop over the iterations belongs to rsl_rl:
it restores the iteration of the loaded checkpoint, logs, then saves.

**WatchdogPolicy** has the pure decisions of the watchdog: thresholds to levels,
the five signals combined, the next intervention, the verdict on a dead trainer.
**TrainingWatchdog** lets one trainer and the monitors attached to it one after
the other share five JSON files; every file access is a step.

| action | code |
| --- | --- |
| `TrainerStep`: start, `Beat`, `ReadRequest`, save, `Acknowledge`, end | `RunnerWatchdogBridge` and the runner around it |
| `Raise`, `Killed` | an exception of a step, with its terminal status; the death of the process |
| `Attach`, `MonitorStep`, `Interrupt` | `watch_training.py`: identity and status, liveness, response, poll, request, verdict |
| `Tick` | the clock, coarser than half a poll |

Five names stand for uuid4, recycled once no file holds them. A run directory has
one trainer life, since its name is a time stamp. The last monitor is not
interrupted. Rejections no monitor of this repository provokes, and the refusal
of a distributed run, are left out. **QualificationWatch** is the part of the
monitor that follows a report another process rewrites in place.

**RecoveryGate** is one environment of the gated residual: the filter
(`recovery_authority.py`, in the order expiry, end, rearm), the gate and the
projection, the history buffers, the feedback gate, the reset, and PPO's read of
the mask after the environment was reset. Authority is a level whose zero is
"below the cutoff"; ages count policy steps. The `class` of the action decides what
is projected. A `direct` one, position or torque, asks for the gated request, so that
a gate at zero executes exactly nothing. A `blend`, ResidualMPC and its `feedback`
subclass, asks for `paper_torque_blend`: the gated request plus the pull of the PD law
to the default posture, damping included, times a factor the gate does not enter. It is
executed with a gate at zero too; what the properties claim of it is that no more than
what was asked for, and nothing of the other sign, is executed. Every class is run with
a detector and without one, where the gate is always open; of the tasks in the
repository only `residual_balance` configures a detector, and its actions are direct.

**FeedbackAction** follows one environment of the feedback, ResidualMPC and
walking actions through bridge and datastore columns. A value is the policy step
it stems from, a command or readout the episode it belongs to. Four policy steps
are enough for the three-deep action history and a reset in its middle.
`_datastore_output_fresh`, which nothing reads, is left out.

**DatastoreColumns** is one row of both blocks, cell by cell: a cell is the writer,
the value and the component. The configurations tried repeat names and permute
them. **ActuatorLaw** is one joint: who applies, copies, zeroes, randomizes and
refreshes gains and limits, in the order of the code, then the projection. That the
torque reported as executed is the one applied holds of ResidualMPC always, since it
refreshes its limits after a randomization, and of the plain torque action only
where effort limits are not randomized; `TorqueExecutedIsApplied`, below, is the rest.

**ActionLifecycle** runs two terms from construction to the end of the process.
Every step of a construction may raise, and so may the body and a close; one
interrupt may hit a close (the statements of `close` and of the finalizer are
steps, and an interrupt leaves a prefix of them). The native close does not
throw; the end of the interpreter runs the finalizers that are left.

**ImpulseSchedule** is the finite impulse of one environment in mjlab's order of
a step (physics and counters, resets with curricula before events, event terms),
under the ladder or the achievement stages, by the `kind` of the term. **VelocityKicks** is the one-shot
kick of ResidualMPC and the interval push, and the survival curriculum. Its warmup
is at least one step, as in every task of the repository.

**TaskConfiguration** builds the configuration of a task and edits it the way
variants, viewers, comparisons and profiles do. Terms are objects, so a group
holds references into a heap; names and scales are abstract.

**RolloutPpo** has one environment per rank; a rate is an exponent of 1.5, a KL
counts quarters of `desired_kl`. A rank that raises ends the training and is not
modelled. **ResumeContract** is what a checkpoint embeds and how it is compared on
a later load. The code is at one of five versions: a moved module, an impulse default
dropped and a field gained, then a parameter lost by a reward and one by an
observation; an upgrade goes over any number of them. Two edits change the code, the
controller's files, the configuration or the runtime. `runtime` stands for the versions of
Python and the packages; mc-mjlab's own version is among them, so that bumping it
refuses full resumes of every older checkpoint. The names of the configured classes
change with the code or the configuration and are part of those. The manifest's schema
version never changes and is left out. A full resume compares the whole manifest, a load
of the actor its interface; either drops what only the running side has. rsl_rl restores
the counter before the comparison and a refused load ends the process.

**PairedEvaluation** is the crossover of one environment in `qualify_checkpoints.py`
with pushes and strata; the other environments are a flag. Durations count half policy
steps. **FixedCohort** is `compare_to_baseline.py` with its recycling and cleanup: a
step earns one unit of reward, so a sum names its steps; the deadline falls anywhere
within `MaxSteps`; `skip_steps` is chosen at the start and kept. **PromotionVerdict**
runs one `campaign` (the lists of a command line): `at` holds the three loop indices,
a scenario is summarised by cluster after its last seed and a checkpoint judged after
its last scenario; the falls of an arm are the clusters they happened in; changes are
in units of the 5 % the gates compare with, the quantiles of *t* are rounded squares,
NaN is a value every comparison is false with, and ties of the selection are broken
either way. The CoM gate is computed; the other gates of single metrics are flags, those
of ZMP and foot slip with their sampling floor (qualification.py:355-357) among them.
Baselines are not zero: a zero one skips its gate. A nominal scenario without any value
passes its gates silently, since its bound is NaN (qualification.py:347), so the
properties ask for a measured recovery only.

## 3. Runs

| run | parts and instance | what it shows |
| --- | --- | --- |
| `ControllersManager_safety` | 3 rows, 2 workers, 2 dispatches, 1 replacement each | replies match requests, no orphan, quarantine until reset, implements WorkerPool |
| `ResidualAction_safety` | 3 rows on 2 workers, frameskip 2, decimation 4 | no stale target, no lost reset, exclusive blocks |
| `AchievementState_all` | 3 stages, 5 checkpoints (symmetric), 9 reports, 2 passes, 3 failures | evidence counts once, levels are earned |
| `AchievementCurriculum_safety` | 2 stages, 3 iterations, 2 lives, 3 evaluations, 1 failure | the same in every life and every saved checkpoint; files follow the state; no decision is lost |
| `AchievementCurriculum_exact` | 2 stages, 2 iterations, 2 lives, 2 evaluations | the copy need not have the evaluated weights (a finding) |
| `MCActionTerm` | hosts of 2 rows with 4 commands; gate of each class, with and without a detector, bursts of 3 and rearm 2; feedback over 4 policy steps; columns; law; life of 2 terms with 1 interrupt | statuses are truthful, bursts are rare, nothing outlives its episode, columns and torques are right, teardown is ordered |
| `MCLiveness` | spawn loop up to 7 controllers on 8 workers; pool of 2; 2 rows on 1 worker; 2 monitors; 2 paired episodes | slices partition the block; calls return, a slice comes back, the watchdog acts, a qualification ends |
| `MCTrainingRun` | 2 monitors, failing trainer; 8 writes of a report; 2 ranks with rollouts of 2; 1 checkpoint with 2 edits of code, runtime or configuration | interventions are durable, requests are served once, reports are evidence, rollouts are their own, resumes keep the contract |
| `MCEnvironment` | kicks with warmup 2 in episodes of 6; impulses of 1 or 2 steps every 3 or 4 under 3 rungs or 2 stages; 7 joints with two legs | every configuration is consistent, kicks and impulses are those of the episode |
| `MCEnvironment_rollback` | the same | after a rollback a due environment is not pushed (a finding) |
| `MCQualification` | 2 pairs; 3 environments, 5 steps, with and without a window; 4 campaigns of 1 or 2 checkpoints, seeds and clusters | pairs are comparable, the cohort is fair, the selection is earned |
| `MCQualification_invalid` | the same | gates of an invalidated scenario are read (a finding) |

A property of a composition is the conjunction of the properties its part states, under
the name of what they are about together; `PROJECT.json` lists it with its
hazards and with the bug that breaks it.

Bounds. Three rows on two workers is the smallest instance with an uneven
split, a slice whose two rows are reset apart and another slice that goes on
working. Two dispatches let the reply of one operation arrive during the next;
one replacement gives every endpoint a predecessor. Four commands make
initialize, fail, other command, reset. ResidualAction needs no bound: its
state is finite. Nine reports (`MaxReports`) are enough to master three stages
with the code's thresholds (six), or to pass one, lose it to three failures and
pass it again. In the curriculum three evaluations pass a stage and judge the
next, and two lives (`MaxLives`) give every file a predecessor; one failure
demotes there, so that a rollback fits in beside a crash. Two monitors let the
second find the files of the first. Episodes of five or six steps hold two
pushes, a cut-short one and a quiet stretch; a rollout of two has a transition
with and one without authority. Eight writes complete four reports: two of
baseline, two that regress.

Fairness. `ControllersManager!FairSpec` assumes only that the trainer's thread
goes on executing the call it is in: every wait has a deadline. Nothing is
assumed of workers. `ResidualAction!FairSpec` assumes that the training loop
keeps stepping; a solve that no worker answers is collected at its deadline.
`TrainingWatchdog!Spec` assumes that a trainer that is alive is not wedged and that
an attached monitor polls; a trainer may die at any time. `PairedEvaluation!Spec`
assumes the evaluation loop and that the episodes of the other environments
end, which the episode cap enforces. `MCLiveness` states the same fairness, part by
part. The safety suites state none.

Stopping. `SpawnLoop` ends with the constructor and `ControllersHost` with
`Stop`, the achievement modules, evaluations and life cycles end when their work or
their bounds are used up; their configurations switch the deadlock check off.
ControllersManager and ResidualAction run for ever (after `close`, further calls
change nothing).

Each property has a mutant beside the definition it mutates: the change a
plausible bug would make, under which TLC must find the property violated.

The findings:

* docs/difficulty.md:366-367 says that "the exact stage-passing checkpoint is
  retained". A report names its checkpoint by path, and a trainer started again
  in the directory saves that path again: the copy, made when the report is
  consumed, may have weights that no report measured (`ExactCheckpointIsRetained`).
* docs/difficulty.md:307-308 says that existing episodes keep their sampled level.
  `_trigger` walks the levels up to the current stage only: after a rollback an
  environment with a higher level is due, is rescheduled, counts as pushed, and is
  not pushed (`DuePushesHappen`).
* docs/evaluation.md:405-406 says that an invalidated scenario is removed from every
  substantive gate. The duty, gait and pre-disturbance gates still read it
  (`InvalidScenariosAreNotRead`).

Other statements of the documentation the code does not meet. Each is a
definition of its module, and TLC refutes it on a small
instance of that module; no run of this project repeats it.

* `StopIsAcknowledged` (ControllersManager). docs/process-workers.md:31-33: shutdown
  "drains an outstanding operation, sends `Stop`, waits for its reply". `close`
  (controllers_manager.cpp:135) receives one reply from each worker, which for a
  busy one is that of its operation. Harmless: the exit deadline follows.
* `ReplayIsAccepted` (AchievementCurriculum). docs/difficulty.md:339-341: a report the
  restored checkpoint has not counted is replayed. A partial copy left by a crash
  (achievement_curriculum.py:409) is taken for another checkpoint's, and the report
  is refused. No state ever names such a file.
* `UnexpectedExitHasNoStatus`, `StopTakesTwoLowPolls` (TrainingWatchdog).
  docs/training-watchdog.md:99-101 and :28. The status is read before the liveness
  check (watch_training.py:244); the streak of low memory counts polls at the warn
  level too (watch_training.py:277).
* `NoReportCountedTwice` (QualificationWatch). docs/training-watchdog.md:63-64. The
  modification time is read before the report (watch_training.py:287).
* `SuppressedFeedbackIsSilent`, `ResetArms` (RecoveryGate). The comment at
  residual_feedback_action.py:126-127, whose gate is one policy step old; the
  docstring at recovery_authority.py:228, while line 234 disarms.
* `ImpulseIsTheRecorded` (PairedEvaluation). docs/difficulty.md:43-45. The force is
  computed for the drawn duration and applied for whole steps
  (scripts/evaluation/disturbances.py:128).
* `FirstKOfEveryEnv` with a skipped window (FixedCohort). docs/evaluation.md:135-136.
  The counter also counts episodes shorter than the window
  (compare_to_baseline.py:142).
* `EveryCheckpointIsJudged` (PromotionVerdict). `int` of a NaN cluster count raises
  (qualification.py:372), and the verdicts of all checkpoints are lost.
* `ResumesAreUnchanged` (ResumeContract). effective_training_manifest.py:651: a
  semantically changed resume is rejected; a key only the new configuration has is
  dropped from the comparison (line 596).
* `ViewsDropFirst` (ActionLifecycle). sim_controller_bridge.py:139: views are dropped
  so that blocks can be unlinked; `close` unlinks first. The views are unused.
* `TorqueExecutedIsApplied` (ActuatorLaw). The torque action projects with limits no
  startup event refreshes (mc_rtc_residual_joint_torque_actions.py:76), while
  `randomize_strength` scales those the actuator clamps at.

## 4. Proofs

All for every value of the constants, checked by TLAPS.

* **RuntimeLemmas**. What several of the proofs below cite. `Division` and
  `Multiples` carry the arithmetic of the uneven split; from them
  `SlicesPartition`: the slices are not empty, disjoint and cover the rows. Then
  lemmas about every outcome of an operation of a controller instance
  (`Plausible`): an OK comes from a healthy instance that wrote its outputs.
* **SpawnLoop_proofs**. `LoopInv` says that after `index` iterations the
  accumulator is `FirstRow` and slice *i* is the closed form; the rows are then
  partitioned and the byte windows disjoint.
* **ControllersManager_proofs**. `OneOutstanding` is not inductive: an answer
  may arrive for a worker that failed, and a replacement may bind an endpoint.
  `ManagerInv` adds to it `Exchange` (a working worker has its last request
  either before it or answered, never both), `Fresh` (the endpoints of later
  generations are unused), `BusyHasRequest`, and three facts about the
  manager's loops: `Closing`, `Launching` (only absent or completely reset
  slices are launched; the others in the batch are waiting for their start) and
  `Dispatching`. `PoolInv` adds what the refinement needs: which loops may find
  a slice without a started worker (`Starts`), that only failed workers are
  retired (`GivenUp`), and that only a quarantined worker has reset flags.
  `OneSlice` and `ClosingIsShut` then map each step to one action of WorkerPool.
  From `SlicesPartition`, and no other assumption than the constructor's check
  of the numbers of rows and workers.
* **ResidualAction_proofs**. The invariant `ActionInv` adds to the properties:
  `Quiet` (a dispatch is pending whenever a worker is asked), `Dispatched` and
  `Executed` (what an executed row's instance, status and output are),
  `Queued`, and `NativeHasEpisode`. `NoStaleTarget` needs them because a stale
  target could enter through an output that was written before the reset and
  collected after it.

* **AchievementCurriculum_proofs**, its first part about AchievementState.
  `IsEarned` is inductive as it stands, given the
  types: one lemma per outcome of `apply_qualification`. The argument rests on
  three lemmas about appending a report: a fresh identity keeps the identities
  distinct, a run that passed a stage stays in the list, and a report with the
  verdict of a streak lengthens it.
* **AchievementCurriculum_proofs**, its second part. `IInv` adds to the properties: `AllAreSound`
  (the trainer's state *and every saved snapshot* are earned and name finished
  copies, since a restore may bring any of them back), `PreservesForStage` (while
  the checkpoint is preserved the report still qualifies the stage, and the
  unfinished copy is the trainer's own), `StagesFollow` (where the request may lag
  behind the state) and `ObservedIsSettled` (what was looked at is counted or
  answered as soon as `_consume_report` is left; a restore forgets the hash
  unless it is the last counted one). `FinishedStays` makes names survive a
  change of the files.

* **ActionTerm_proofs**, part by part. *Hosts*: `Progressing` describes the rows below
  the loop index, `Settled` the time between commands; `OkMeansServed` alone is not
  inductive because the status of one row and the outputs of another are written by
  different iterations. *Gate*: the filter's quiet age is the length of the rest that
  the history shows (`Rested`); the gate in force is followed from where it is
  computed to where PPO reads it (`Granted`); the buffers are the last transitions of
  this episode, one place apart before and after the next request (`Remembered`);
  `GateUpdate` keeps these whether a detector supervises or not.
  *Feedback*: `StepProgress` counts the substeps done, the first of which tells the
  controller its offset; `EpisodeKept` says that a controller no reset is pending for
  works on this episode. *Columns*: for any configuration, a name occurs at one place
  of the enumeration of its form (`RanksNumber` of RuntimeLemmas), so that the windows
  of two names are disjoint; `Returned` is what the inductive step needs of the output
  columns. *Law*: `LawAt` says which gains and limits each holder has after the first
  *d* of the startup events, whichever are configured; `ModuleLimits`, that without
  randomization the torque action's limit is still the actuator's. *Life*: an interrupt leaves a
  prefix of a close; `Sound`, `Pending` and `Clean` say how far a term's blocks and its
  finalizer may be apart, and `LifeStages` which terms are where.
* **TrainingRun_proofs**. *Watchdog*: trainer and monitor share files only, so what
  either knows it knows through a name. `Named` says that what is served or
  answered under the name of the current request *is* the current request;
  `Saved` follows a request from named to served to durable to acknowledged;
  `PreserveKnown` follows a preserve from its save over the acknowledgement and
  the monitor's flag to the stop that relies on it; `Pending` says that a monitor
  waits for the current request, or that it is answered; `Ends` that a terminal
  status is the last one, so that what a monitor read of it stays true. Each is
  one lemma per step of either process. `FreshIsNew` stands for uuid4: five names,
  of which the files and the trainer hold at most four. *Reports*: `Newer` orders the
  modification times that were attached to, polled and counted; `Trailing` says that
  the streak is what follows the last healthy report, which holds because a verdict
  is about the counted reports only. That an improvement is healthy rests on
  the median of the baseline lying between two of its samples (`RanksNumber`, `LeastNumber`).
  *PPO*: `RolloutAt` ties masks, cursor and authority of a rank to where it is in its
  update; `OneRate` is inductive because no rank adapts before all have reduced.
  *Resume*: `Versions`: no process finds a checkpoint that is newer than its own
  code; `Judged`: what a load decided stays true of the checkpoint there is. That the
  verdict is the one the properties name is `MatchesLoad`, from what is in a
  manifest, key by key.
* **Environment_proofs**. *Kicks*: `KickRecord` is the inductive core: since no push
  falls on the first step of an episode (the warmup is positive), a push of the episode
  is younger than the episode and any earlier one is not, although no reset
  clears the record. `KickSurvival`: without a survivor every smoothed sample is
  zero. *Impulses*: `Scheduled` relates the next push to the last one and to the
  length of the episode, so that none is overdue where pushes happen;
  `LevelIsTheCohorts` keeps level, wrench and record on the mixture of the reset;
  `Smoothed` says that a smoothed length lies between two episode lengths of the rung, which is why
  the ladder needs evidence. *Tasks*: `ObjectsAre` gives each term its identity, of which
  the critic of a balance task has its own, so that what is written through the actor's
  group cannot reach it; `EventsAre`, `LagsAre`, `DelaysAre` and `RandomizationsAre` say
  what is left of the build after each edit. That residual joints come in module order is
  `RanksNumber` again.

  The same module proves the evaluations. *Pairs*: `PairInv` says how the arms'
  counts, the pair and the recorded episodes determine each other (`Crossover`), that
  the draws seen so far are the pushes due up to this length, in order and all of this
  pair, so that of two episodes of a pair one saw a prefix of the other's, and that
  every step so far is in one stratum. That a push is due at an age or not rests on
  `Quotients` and `MultiplesDivide`. *Cohort*: `CohortInv` relates the episodes of an
  environment to its counter (without a window they are all of them), its sums and
  frames to its length, and the cleanup still to do to what has been closed;
  `FewestIs` is about the least over the environments of the greatest index.
  *Verdict*: `VerdictInv` says which clusters the result holds at each of the loop
  indices, and that a summary or a verdict is of all the clusters of its scenarios,
  whose reasons are what the gates say of them. A sum over clusters is an integer for
  every finite set of them (`SumIsInteger`): the fold's recursion is well defined up
  to the cardinality of the set, and a least set for which it is not cannot exist
  (`LeastNumber`).

In the last three a behaviour moves one part at a time: `EachPartIsItsOwn` says that a
step of the whole is a step or a stutter of every part, and each part's invariant is then
carried over.

The assumptions on the constants are named, and as weak as the constructors' checks
and the use of the parameters justify: `LoopAssumption`, `ManagerAssumption`,
`PoolAssumption`, `HostAssumption` and `ActionAssumption` (numbers of rows, workers and
operations); `StagesAssumption`, `NoneAssumption`, `RunAssumption` and `FilesAssumption`
(thresholds of at least one, and values that stand for a missing or unfinished file that
are none of the others); `ThresholdsAssumption` and `BoundsAssumption` (ordered
thresholds, bounds are numbers, levels of monitors are levels); `KickAssumption` (a
positive warmup below the episode cap, and ordered thresholds); and, together under
`PartsAssumption` of each composition, those of the parts: `GateAssumption`,
`FeedbackAssumption`, `ColumnsAssumption`, `LawAssumption`, `LifecycleAssumption`,
`QualificationAssumption`, `PpoAssumption`, `ResumeAssumption`, `ScheduleAssumption`
(valid mixtures, an impulse shorter than the interval) and `ConfigurationAssumption` (a
robot with two residual joints in a leg chain, and finite chains). The evaluations have
`SuiteAssumption`: `EvaluationAssumption` (positive numbers, pushes shorter than their
interval), `CohortAssumption` (an environment for each arm, none of the terms is called
"env") and `VerdictAssumption` (lists that are not empty, finitely many environments,
NaN is no number). TLC evaluates them in every run.

Every invariant and every action property that a run checks has a theorem: the named
conjunctions (`QuarantineIsExact`, `ServiceIsAccounted`, `NothingOutlivesItsEpisode`,
`TeardownIsOrdered`, `EvidenceIsExact`, `InterventionsAreDurable`,
`ReportsAreEvidence`, `RolloutIsItsOwn`, `ResumesKeepTheContract`,
`ImpulsesAreDelivered`, `TaskIsConsistent`, `PairsAreComparable`, `CohortIsFair`,
`SelectionIsEarned` and the others) have one each, which cites those of their
conjuncts or concludes them from the invariant.

Only checked by TLC: all liveness (`PoolProgresses`, `QuarantineEnds`, `WatchdogActs`,
`QualificationEnds`), which is out of the prover's reach, and what the violated runs and
findings deny.

## 5. Plan

1. (done) the native runtime: RowPartition, SpawnLoop, ControllersManager,
   WorkerPool, ControllerInstance, ControllersHost, ResidualAction.
2. (done) the achievement curriculum: AchievementState, AchievementCurriculum.
3. (done) what acts per environment: RecoveryGate, FeedbackAction, DatastoreColumns,
   ActuatorLaw, ActionLifecycle, ImpulseSchedule, VelocityKicks, TaskConfiguration.
4. (done) what surrounds a training: WatchdogPolicy, TrainingWatchdog,
   QualificationWatch, RolloutPpo, ResumeContract, PairedEvaluation, FixedCohort,
   PromotionVerdict.
5. Proofs: (done) the native runtime, with the refinement of WorkerPool, the
   curriculum, what an action term is made of, what surrounds a training run, the
   disturbances, the task configuration and the evaluations.
6. Left: an abstract specification of the exchange between trainer and monitor that
   TrainingWatchdog refines, as ControllersManager refines WorkerPool.

## 6. Not modelled

The simulator, mc_rtc, mjlab's managers, rsl_rl and the networks are external; what
the code relies on of them is stated in the modules and marked external in the map.
Tensor arithmetic of one simulation state (rewards, observations, metrics,
collapse thresholds, sensors, the walking velocity target) keeps nothing between
steps. Robot descriptions, their file parsing and plotting are data and I/O. The
output guard, the Python bindings and the datastore plugin are glue without
state. The calibration scripts and audits are sequential experiments around the
simulator; the documentation generators rewrite text. Reading run directories,
writing tables and the diagnostics of the runner are left out of the modules that
model the programs around them.
