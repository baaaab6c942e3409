--------------------------- MODULE ResidualAction ---------------------------
(***************************************************************************)
(* The residual action term of one environment batch: McRtcResidualAction- *)
(* Base on the trainer's thread, composed with the worker pool it drives   *)
(* (WorkerPool) and the controller instances behind it                     *)
(* (ControllerInstance).                                                   *)
(*                                                                         *)
(* A controller solve is dispatched at the first substep of a control      *)
(* period and collected at the first substep of the next one, or by the    *)
(* reset that ends an environment step.  Workers execute their rows in     *)
(* between.                                                                *)
(*                                                                         *)
(* Data is abstracted to the episode it stems from: a value is a seed, or  *)
(* was computed by a controller reset in the row's current episode, or is  *)
(* stale (computed by one that was not).  Ending an episode makes what it  *)
(* computed stale, wherever it is held.                                    *)
(***************************************************************************)
EXTENDS WorkerPool, ControllerInstance

CONSTANTS Frameskip,       \* substeps per control period
          Decimation       \* substeps per environment step

ASSUME ActionAssumption ==
  /\ Frameskip \in Nat \ {0}
  /\ Decimation \in Nat \ {0}
  /\ Decimation % Frameskip = 0      \* _validate_cfg
  /\ UNION {RowsOf[w] : w \in Worker} = Row

VARIABLES
  pc,              \* where the trainer's thread is, see Places
  substep,         \* _substep, within the environment step
  ending,          \* the environments the running reset() is for
  pendingDispatch, \* _pending_dispatch
  pendingReset,    \* _pending_reset, as the set of rows whose flag is true
  dispatchResets,  \* _dispatch_resets, and the input block's reset column
  inst,            \* inst[r]: the row's controller instance
  native,          \* native[r]: the origin of the controller's state
  solved,          \* rows executed since the last dispatch
  status,          \* the output block's status column
  output,          \* output[r]: the origin of the block's target columns
  hasStaged,       \* _has_staged_control, as a set
  staged,          \* _staged_control
  previous,        \* _previous_control
  next,            \* _next_control
  readout,         \* the latched datastore outputs
  readoutFresh,    \* _datastore_output_fresh, as a set
  controllerFailed,\* controller_failed, as a set
  workerFailed     \* controller_worker_failed, as a set

blockVars == <<inst, native, solved, status, output>>
rampVars == <<hasStaged, staged, previous, next>>
latchVars == <<readout, readoutFresh, controllerFailed, workerFailed>>
handshakeVars == <<pendingDispatch, pendingReset, dispatchResets>>
vars == <<poolVars, pc, substep, ending, handshakeVars, blockVars, rampVars,
          latchVars>>

\* Between substeps; after the collect and before the dispatch of a period;
\* at the end of an environment step; inside reset, after its collect; and
\* once a native call has thrown or close has run.
Places == {"substep", "advance", "boundary", "reset", "raised", "closed"}

Origin == {"seed", "current", "stale"}

\* The values the term's state may take.
TypeOK ==
  /\ PoolTypeOK
  /\ pc \in Places
  /\ substep \in 0 .. (Decimation - 1)
  /\ ending \in SUBSET Row
  /\ pendingDispatch \in BOOLEAN
  /\ pendingReset \in SUBSET Row
  /\ dispatchResets \in SUBSET Row
  /\ inst \in [Row -> InstanceStates]
  /\ native \in [Row -> Origin]
  /\ solved \in SUBSET Row
  /\ status \in [Row -> RowStatuses]
  /\ output \in [Row -> Origin]
  /\ hasStaged \in SUBSET Row
  /\ staged \in [Row -> Origin]
  /\ previous \in [Row -> Origin]
  /\ next \in [Row -> Origin]
  /\ readout \in [Row -> Origin]
  /\ readoutFresh \in SUBSET Row
  /\ controllerFailed \in SUBSET Row
  /\ workerFailed \in SUBSET Row

\* The rows of the slices ws.
RowsOfAll(ws) == UNION {RowsOf[w] : w \in ws}

\* What the episodes of `rows` computed no longer belongs to them.
Stale(origin, rows) ==
  [r \in Row |-> IF r \in rows /\ origin[r] = "current" THEN "stale" ELSE origin[r]]

\* Every row was initialized by _start_controllers and then reset by the
\* first env.reset(), which no step has followed yet.
\* _alloc_failure_latches: no row is latched.
NoFailures == {}

Init ==
  /\ slice = [w \in Worker |-> "Idle"]
  /\ covered = [w \in Worker |-> {}]
  /\ open = TRUE
  /\ pc = "substep"
  /\ substep = 0
  /\ ending = {}
  /\ pendingDispatch = FALSE
  /\ pendingReset = Row
  /\ dispatchResets = {}
  /\ inst = [r \in Row |-> "running"]
  /\ native = [r \in Row |-> "stale"]
  /\ solved = {}
  /\ status = [r \in Row |-> "OK"]
  /\ output = [r \in Row |-> "stale"]
  /\ hasStaged = {}
  /\ staged = [r \in Row |-> "seed"]
  /\ previous = [r \in Row |-> "seed"]
  /\ next = [r \in Row |-> "seed"]
  /\ readout = [r \in Row |-> "seed"]
  /\ readoutFresh = {}
  /\ controllerFailed = NoFailures
  /\ workerFailed = NoFailures

-----------------------------------------------------------------------------
(***************************************************************************)
(* The worker processes.                                                   *)
(***************************************************************************)

\* The worker of r's slice executes row r of the outstanding Step.
SolveRow(r) ==
  /\ \E w \in InPhase("Asked") : r \in RowsOf[w]
  /\ r \notin solved
  /\ solved' = solved \cup {r}
  /\ \E o \in RequestedStepOutcomes(inst[r], r \in dispatchResets) :
       LET origin == IF r \in dispatchResets THEN "current" ELSE native[r] IN
       /\ inst' = [inst EXCEPT ![r] = InstanceAfter(o)]
       /\ native' = [native EXCEPT ![r] = IF o.threw THEN "stale" ELSE origin]
       /\ status' = [status EXCEPT ![r] = o.status]
       /\ output' = [output EXCEPT ![r] = IF o.wrote THEN origin ELSE @]
  /\ UNCHANGED <<poolVars, pc, substep, ending, handshakeVars, rampVars, latchVars>>

-----------------------------------------------------------------------------
(***************************************************************************)
(* _collect_controller_output                                              *)
(***************************************************************************)

\* collect() reported `failed`, whatever their rows of the block say.
FinalStatus(failed) ==
  [r \in Row |-> IF r \in failed THEN "WORKER_FAILED" ELSE status[r]]

\* Mutants: every dispatched reset is taken for performed; or a controller
\* that was replaced without having been asked to reset is not reset.
PendingAfter_Dispatched(lost) == pendingReset \ dispatchResets
PendingAfter_NotReplaced(lost) == pendingReset \ (dispatchResets \ lost)

\* The dispatched resets are done, except those of the rows that were lost.
PendingAfter(lost) == (pendingReset \ (dispatchResets \ lost)) \cup lost

\* Mutant: a row that its worker never came to is not reported.
WorkerFailedAfter_Reached(lost) == workerFailed \cup (lost \cap solved)

\* controller_worker_failed keeps a failure until the episode ends.
WorkerFailedAfter(lost) == workerFailed \cup lost

\* collect() returned the rows of `down`; the slices `answered` completed.
Collect(answered, down) ==
  LET failed == RowsOfAll(down)
      final == FinalStatus(failed)
      ok == {r \in Row : final[r] = "OK"}
      lost == {r \in Row : final[r] = "WORKER_FAILED"}
  IN
  /\ answered \cup down = InPhase("Asked") \cup InPhase("Lost")
  /\ InPhase("Lost") \subseteq down
  /\ RowsOfAll(answered) \subseteq solved
  /\ Harvest(answered, {}, down)
  /\ inst' = [r \in Row |-> IF r \in failed THEN "fresh" ELSE inst[r]]
  /\ native' = [r \in Row |-> IF r \in failed THEN "stale" ELSE native[r]]
  /\ pendingDispatch' = FALSE
  /\ status' = final
  /\ pendingReset' = PendingAfter(lost)
  /\ controllerFailed' = controllerFailed \cup {r \in Row : final[r] = "QP_FAILED"}
  /\ workerFailed' = WorkerFailedAfter(lost)
  /\ hasStaged' = ok
  /\ staged' = [r \in Row |-> IF r \in ok THEN output[r] ELSE staged[r]]
  /\ readoutFresh' = ok
  /\ readout' = [r \in Row |-> IF r \in ok THEN output[r] ELSE readout[r]]
  /\ UNCHANGED <<dispatchResets, solved, output, previous, next>>

\* Nothing is awaited when no Step is outstanding.
CollectOutput ==
  \/ /\ pendingDispatch
     /\ \E answered, down \in SUBSET Worker : Collect(answered, down)
  \/ /\ ~ pendingDispatch
     /\ UNCHANGED <<poolVars, handshakeVars, blockVars, rampVars, latchVars>>

-----------------------------------------------------------------------------
(***************************************************************************)
(* apply_actions                                                           *)
(***************************************************************************)

\* The last substep of an environment step ends it.
AfterSubstep ==
  /\ substep' = (substep + 1) % Decimation
  /\ pc' = IF substep + 1 = Decimation THEN "boundary" ELSE "substep"

\* The first substep of a control period collects the previous one.
StartPeriod ==
  /\ pc = "substep"
  /\ substep % Frameskip = 0
  /\ CollectOutput
  /\ pc' = "advance"
  /\ UNCHANGED <<substep, ending>>

\* Then the ramp of every freshly served row rolls on, the reset column is
\* the snapshot of the pending resets, every status is poisoned, and the next
\* Step is dispatched to the workers that can take it.
Advance ==
  /\ pc = "advance"
  /\ previous' = [r \in Row |-> IF r \in hasStaged THEN next[r] ELSE previous[r]]
  /\ next' = [r \in Row |-> IF r \in hasStaged THEN staged[r] ELSE next[r]]
  /\ hasStaged' = {}
  /\ dispatchResets' = pendingReset
  /\ status' = [r \in Row |-> "WORKER_FAILED"]
  /\ solved' = {}
  /\ \E lost \in SUBSET InPhase("Idle") : Ask(InPhase("Idle") \ lost, lost)
  /\ pendingDispatch' = TRUE
  /\ AfterSubstep
  /\ UNCHANGED <<ending, pendingReset, inst, native, output, staged, latchVars>>

\* The other substeps only interpolate.
Interpolate ==
  /\ pc = "substep"
  /\ substep % Frameskip # 0
  /\ AfterSubstep
  /\ UNCHANGED <<poolVars, ending, handshakeVars, blockVars, rampVars, latchVars>>

-----------------------------------------------------------------------------
(***************************************************************************)
(* reset, at the end of an environment step.  The controller_failed and    *)
(* controller_worker_failed termination terms end every latched episode.   *)
(***************************************************************************)
Latched == controllerFailed \cup workerFailed

NoEpisodeEnds ==
  /\ pc = "boundary"
  /\ Latched = {}
  /\ pc' = "substep"
  /\ UNCHANGED <<poolVars, substep, ending, handshakeVars, blockVars, rampVars,
                 latchVars>>

\* Mutant: the Step in flight is not awaited.
BeginReset_InFlight(rows) ==
  /\ pc = "boundary"
  /\ Latched \subseteq rows
  /\ pc' = "reset"
  /\ ending' = rows
  /\ UNCHANGED <<poolVars, substep, handshakeVars, blockVars, rampVars, latchVars>>

\* reset waits for the Step in flight before anything it clears.
BeginReset(rows) ==
  /\ pc = "boundary"
  /\ Latched \subseteq rows
  /\ CollectOutput
  /\ pc' = "reset"
  /\ ending' = rows
  /\ UNCHANGED substep

\* Mutant: the output collected on the way into reset stays staged.
StagedAfterReset_Kept == hasStaged

\* _has_staged_control is cleared for the environments that are reset.
StagedAfterReset == hasStaged \ ending

\* respawn the slices that are covered now, queue the native resets, seed the
\* ramps, and drop everything the ended episodes left staged or latched.
FinishReset ==
  /\ pc = "reset"
  /\ Replace(ending, Replaceable(ending))
  /\ pendingReset' = pendingReset \cup ending
  /\ previous' = [r \in Row |-> IF r \in ending THEN "seed" ELSE previous[r]]
  /\ next' = [r \in Row |-> IF r \in ending THEN "seed" ELSE next[r]]
  /\ hasStaged' = StagedAfterReset
  /\ staged' = Stale(staged, ending)
  /\ readout' = [r \in Row |-> IF r \in ending THEN "seed" ELSE readout[r]]
  /\ readoutFresh' = readoutFresh \ ending
  /\ controllerFailed' = controllerFailed \ ending
  /\ workerFailed' = workerFailed \ ending
  /\ native' = Stale(native, ending)
  /\ output' = Stale(output, ending)
  /\ pc' = "substep"
  /\ ending' = {}
  /\ UNCHANGED <<substep, pendingDispatch, dispatchResets, inst, solved, status>>

-----------------------------------------------------------------------------
(***************************************************************************)
(* Failure of the pool, and close.                                         *)
(***************************************************************************)

\* collect (a worker cannot be retired) or respawn (a replacement does not
\* start) closes the pool and throws out of the environment step.
NativeCallRaises ==
  /\ \/ pc \in {"substep", "boundary"} /\ pendingDispatch
     \/ pc = "reset" /\ Replaceable(ending) # {}
  /\ Shut
  /\ pc' = "raised"
  /\ UNCHANGED <<substep, ending, handshakeVars, blockVars, rampVars, latchVars>>

\* close() or the finalizer: stop the pool, if it still runs, then unlink.
Close ==
  /\ pc \in {"substep", "boundary", "raised"}
  /\ IF open THEN Shut ELSE UNCHANGED poolVars
  /\ pc' = "closed"
  /\ UNCHANGED <<substep, ending, handshakeVars, blockVars, rampVars, latchVars>>

\* Closing again does nothing.
CloseAgain == pc = "closed" /\ UNCHANGED vars

-----------------------------------------------------------------------------
EnvironmentStep ==
  \/ StartPeriod
  \/ Advance
  \/ Interpolate
  \/ NoEpisodeEnds
  \/ \E rows \in (SUBSET Row) \ {{}} : BeginReset(rows)
  \/ FinishReset

Next ==
  \/ EnvironmentStep
  \/ \E r \in Row : SolveRow(r)
  \/ NativeCallRaises
  \/ Close
  \/ CloseAgain

Spec == Init /\ [][Next]_vars

\* The training loop keeps stepping the environments until a call throws or
\* it closes them; no worker owes it an answer.
FairSpec == Spec /\ WF_vars(EnvironmentStep)

-----------------------------------------------------------------------------
(***************************************************************************)
(* Properties.                                                             *)
(***************************************************************************)

\* The ramp a robot follows never leads from or to a target that a controller
\* computed for an earlier episode of that row, nor is such a target staged,
\* nor such a readout offered as fresh; whatever crashed, timed out or was
\* reset while the solve was in flight.
NoStaleTarget ==
  \A r \in Row :
    /\ previous[r] # "stale"
    /\ next[r] # "stale"
    /\ r \in hasStaged => staged[r] = "current"
    /\ r \in readoutFresh => readout[r] = "current"

\* Only a row that its worker executed for the last dispatch, and whose whole
\* slice then answered, publishes a target: a half-finished or a quarantined
\* slice never does.
StagedWasServed ==
  open => \A r \in hasStaged :
    /\ r \in solved
    /\ inst[r] = "running"
    /\ \E w \in InPhase("Idle") : r \in RowsOf[w]

\* What is staged and acted on was solved in this episode, by a worker that answered.
StagedRowsAreTheEpisodes == NoStaleTarget /\ StagedWasServed

\* A row without a controller, or with the controller of an earlier episode,
\* has a reset queued for the next dispatch.
ResetIsQueued ==
  \A r \in Row :
    /\ ~ pendingDispatch
    /\ inst[r] = "fresh" \/ native[r] = "stale"
    => r \in pendingReset

\* A queued reset is forgotten only when a collected result shows that the
\* controller performed it (docs/coupling.md, "Reset pose seeding").
ResetIsAcknowledged ==
  [][\A r \in pendingReset \ pendingReset' :
       /\ r \in solved
       /\ inst'[r] # "fresh"
       /\ native'[r] = "current"]_vars

\* The trainer rewrites the shared blocks, and resets rows, only while no
\* worker may be reading or writing them.
ExclusiveBlocks ==
  pc \in {"advance", "reset"} => InPhase("Asked") = {}

\* A quarantined slice comes back, unless the pool is closed: its rows are
\* latched, so their episodes end, and the last of these resets replaces it.
QuarantineEnds ==
  \A w \in Worker :
    (slice[w] = "Down") ~> (slice[w] # "Down" \/ ~ open)
=============================================================================
