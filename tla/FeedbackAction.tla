---------------------------- MODULE FeedbackAction ----------------------------
(***************************************************************************)
(* One environment of the residual feedback action                         *)
(* (actions/residual_feedback_action.py) on top of the ResidualMPC action  *)
(* (actions/residual_mpc_joint_torque_action.py), the walking reference    *)
(* (actions/walking_reference_action.py), the simulator bridge             *)
(* (bridge/sim_controller_bridge.py) and the datastore columns of          *)
(* actions/mc_rtc_residual_action.py: what the controller is told, what is *)
(* read back from it and what is kept of earlier policy steps.  A value is *)
(* the policy step it stems from, 0 the neutral one; a command and a       *)
(* readout are the episode they belong to.                                 *)
(***************************************************************************)
EXTENDS Integers, Sequences

CONSTANTS Frameskip, Decimation,  \* substeps of a control period and of a policy step
          Gated,                  \* whether a recovery detector is configured
          TorqueChannel,          \* whether the torque residual is kept
          MaxSteps                \* bound on the policy steps

\* What is assumed of the constants.
FeedbackAssumption ==
  /\ Frameskip \in Nat \ {0} /\ Decimation \in Nat \ {0} /\ Decimation % Frameskip = 0
  /\ Gated \in BOOLEAN /\ TorqueChannel \in BOOLEAN /\ MaxSteps \in Nat

VARIABLES
  pc,                                \* "process", "apply" or "end" of the policy step
  step, start, substep,              \* policy step, the one the episode began after, _substep
  gate,                              \* _last_gate
  actions,                           \* the joint action and those of the two steps before
  offset,                            \* one for the offsets of all modalities, which the bridge refers to
  executed, feed,                    \* _walking_reference_executed and the setter's feed
  command,                           \* of the command manager
  block,                             \* the persistent input block: sensors plus offset
  told,                              \* what the last dispatch told: offset, reference, reset
  inFlight, pendingReset,            \* _pending_dispatch and _pending_reset
  native,                            \* the episode the controller works on
  readout, fresh,                    \* a datastore readout and _datastore_output_fresh
  efforts, substeps                  \* the accumulated efforts and their number

vars == <<pc, step, start, substep, gate, actions, offset, executed,
          feed, command, block, told, inFlight, pendingReset, native, readout, fresh,
          efforts, substeps>>

wire == <<block, told, feed>>

\* Init is the state after the reset every environment starts with.
Episode == start + 1

Init ==
  /\ pc = "process" /\ step = 0 /\ start = 0 /\ substep = 0
  /\ gate = (IF Gated THEN 0 ELSE 1)
  /\ actions = <<0, 0, 0>> /\ offset = 0
  /\ executed = 0 /\ feed = 0 /\ command = 1
  /\ block = 0 /\ told = [offset |-> 0, reference |-> 0, reset |-> FALSE]
  /\ inFlight = FALSE /\ pendingReset = TRUE /\ native = 0
  /\ readout = 0 /\ fresh = FALSE /\ efforts = <<>> /\ substeps = 0
-----------------------------------------------------------------------------
\* The offset of this step, gated with the gate the previous step left: the recovery
\* authority is only updated by the base class, later in the same call.
FeedbackOffset == IF gate = 1 THEN step + 1 ELSE 0

\* process_actions of the ResidualMPC action: the window of the last step is spent.
ClearedEfforts == <<>>

\* The command manager's term is the walking reference the action executes.
WalkingReference == command

\* process_actions, from the feedback action down to the base class.
ProcessActions ==
  /\ pc = "process" /\ step < MaxSteps /\ step' = step + 1 /\ pc' = "apply"
  /\ offset' = FeedbackOffset
  /\ efforts' = ClearedEfforts /\ substeps' = 0
  /\ actions' = <<IF TorqueChannel THEN step' ELSE 0, actions[1], actions[2]>>
  /\ gate' \in (IF Gated THEN 0..1 ELSE {gate})
  /\ executed' = WalkingReference
  /\ UNCHANGED <<start, substep, command, wire, inFlight, pendingReset, native, readout, fresh>>

Statuses == {"ok", "qp_failed", "worker_failed"}

\* _collect_controller_output and _latch_datastore_outputs: the row of an outstanding
\* dispatch has the status, and a reset stays pending until a worker carried it out.
Collect(status) ==
  IF inFlight
  THEN /\ native' = IF told.reset /\ status # "worker_failed" THEN Episode ELSE native
       /\ pendingReset' = (status = "worker_failed" \/ (pendingReset /\ ~told.reset))
       /\ fresh' = (status = "ok")
       /\ readout' = IF status = "ok" THEN native' ELSE readout
  ELSE UNCHANGED <<native, pendingReset, fresh, readout>>

\* fill_controller_input: the measured state is written over the block, then the offset.
Measured == 0
Biased(measured) == measured + offset
Filled == Biased(Measured)

\* _feed_walking_reference: the setter is told the reference that is executed.
Fed == executed

\* _advance_control_period: the extension feeds the executed reference before the
\* dispatch, and write_inputs copies the feed.
Advance(status) ==
  /\ Collect(status)
  /\ feed' = Fed
  /\ block' = Filled
  /\ told' = [offset |-> block', reference |-> feed', reset |-> pendingReset']

\* A substep: the first of a control period steps the controller, and the effort of each
\* is accumulated.
ApplyActions ==
  /\ pc = "apply"
  /\ IF substep % Frameskip = 0
     THEN \E status \in Statuses : Advance(status) /\ inFlight' = TRUE
     ELSE UNCHANGED <<wire, inFlight, pendingReset, native, readout, fresh>>
  /\ substep' = substep + 1
  /\ efforts' = Append(efforts, step) /\ substeps' = substeps + 1
  /\ pc' = IF substep' % Decimation = 0 THEN "end" ELSE "apply"
  /\ UNCHANGED <<step, start, gate, actions, offset, executed, command>>

\* The episode goes on.
Continue == pc = "end" /\ pc' = "process" /\ UNCHANGED <<step, start, substep, gate, actions, offset,
  executed, command, wire, inFlight, pendingReset, native, readout, fresh, efforts, substeps>>

\* Mutant: the outstanding solve is collected with the next period.
ResetReadout_Outstanding(status) ==
  /\ readout' = 0 /\ fresh' = FALSE /\ native' = native /\ inFlight' = inFlight

\* The outstanding solve of the old episode is collected before the readouts are zeroed.
ResetReadout(status) ==
  /\ readout' = 0 /\ fresh' = FALSE /\ inFlight' = FALSE
  /\ native' = IF inFlight /\ told.reset /\ status # "worker_failed" THEN Episode ELSE native

\* reset of the ResidualMPC action.
ResetActions == <<0, 0, 0>>

\* reset, from the feedback action down to the base class; the command is resampled.
Reset ==
  /\ pc = "end" /\ pc' = "process"
  /\ \E status \in Statuses : ResetReadout(status)
  /\ start' = step /\ command' = step + 1
  /\ gate' = (IF Gated THEN 0 ELSE 1)
  /\ actions' = ResetActions
  /\ offset' = 0 /\ executed' = 0 /\ pendingReset' = TRUE
  /\ efforts' = [i \in DOMAIN efforts |-> 0]
  /\ UNCHANGED <<step, substep, wire, substeps>>

Next == ProcessActions \/ ApplyActions \/ Continue \/ Reset

Spec == Init /\ [][Next]_vars
-----------------------------------------------------------------------------
TypeOK ==
  /\ pc \in {"process", "apply", "end"} /\ step \in 0..MaxSteps /\ start \in 0..step
  /\ substep \in Nat /\ gate \in 0..1
  /\ {actions[1], actions[2], actions[3], offset, told.offset} \subseteq 0..step
  /\ {executed, feed, command, native, readout} \subseteq 0..(start + 1)
  /\ inFlight \in BOOLEAN /\ pendingReset \in BOOLEAN /\ fresh \in BOOLEAN
  /\ substeps \in 0..Decimation /\ Len(efforts) = substeps

\* The controller is never told an offset or a walking reference of an earlier policy
\* step, nor one offset on top of another: what it last heard is this step's.
ControllerHearsThisStep ==
  pc = "end" => told.offset = offset /\ told.offset \in {0, step} /\ told.reference = Episode

\* reset: a readout is zero or the controller's own of this episode, since the observations
\* and rewards use it unguarded, and it is fresh only if it is the latter.
ReadoutIsThisEpisodes ==
  readout \in {0, Episode} /\ (fresh => readout = Episode)

\* The action rates are rewarded: the actions of the steps before are those of the steps
\* before within the episode, and zero at its start.
HistoryIsThisEpisodes ==
  LET Taken(s) == IF TorqueChannel /\ s > start THEN s ELSE 0
  IN  pc # "process" =>
        actions = <<Taken(step), Taken(step - 1), Taken(step - 2)>>

\* torque_l2 scores the whole decimation window: the mean is over every substep of this
\* policy step and of no other.
EffortIsThisWindows ==
  pc = "end" => substeps = Decimation /\ \A i \in DOMAIN efforts : efforts[i] = step
=============================================================================
