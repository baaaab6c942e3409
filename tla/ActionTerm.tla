------------------------------- MODULE ActionTerm -------------------------------
(***************************************************************************)
(* What a residual action term is made of: the hosts that serve its rows   *)
(* (ControllersHost), the gated residual, the feedback channel, the        *)
(* datastore columns, the actuator law and the life of the term, with the  *)
(* parameters of each.  The parts share no state, so a behaviour moves one *)
(* of them and leaves the others in their initial state.                   *)
(***************************************************************************)
EXTENDS ControllersHost, Sequences

CONSTANTS
  MaxActive, Rearm, OnsetDelta, MaxAuthority, Onsets, Nominals, Raws, Pulls, Limit, \* RecoveryGate
  Frameskip, Decimation, Gated, TorqueChannel, MaxSteps,                     \* FeedbackAction
  Simulated, Controlled, Configurations, MaxFeeds,                           \* DatastoreColumns
  Default, Reference, EffortLimit, Spread, EffortSpread, Cap, Torques, Residuals, \* ActuatorLaw
  Terms, MaxInterrupts                                                       \* ActionLifecycle

VARIABLES
  part,
  class, supervised, f, gate, previousGate, actorGate, request, history, asked, gExecuted,
  previousExecuted, feedback, pc, applied, past, rested, run,
  fPc, step, start, fSubstep, fGate, actions, offset, fExecuted, feed, fCommand, block,
  told, inFlight, fPendingReset, fNative, fReadout, fresh, efforts, substeps,
  cfg, input, cOutput, cFeed, fed, cPendingReset, heard, returned, dispatched, cReadout,
  kind, randomized, listed, todo, sim, own, force, bound, scale, lStep,
  proc, term, terms, managed, envClosed, interrupted, leaked

gateVars ==
  <<class, supervised, f, gate, previousGate, actorGate, request, history, asked,
    gExecuted, previousExecuted, feedback, pc, applied, past, rested, run>>
feedbackVars ==
  <<fPc, step, start, fSubstep, fGate, actions, offset, fExecuted, feed, fCommand, block,
    told, inFlight, fPendingReset, fNative, fReadout, fresh, efforts, substeps>>
columnVars ==
  <<cfg, input, cOutput, cFeed, fed, cPendingReset, heard, returned, dispatched, cReadout>>
lawVars == <<kind, randomized, listed, todo, sim, own, force, bound, scale, lStep>>
lifeVars == <<proc, term, terms, managed, envClosed, interrupted, leaked>>

Gate == INSTANCE RecoveryGate WITH executed <- gExecuted
Feedback == INSTANCE FeedbackAction WITH
  pc <- fPc, command <- fCommand, substep <- fSubstep, gate <- fGate, executed <- fExecuted,
  pendingReset <- fPendingReset, native <- fNative, readout <- fReadout
Columns == INSTANCE DatastoreColumns WITH
  output <- cOutput, feed <- cFeed, pendingReset <- cPendingReset, readout <- cReadout
Law == INSTANCE ActuatorLaw WITH Limit <- EffortLimit, step <- lStep
Life == INSTANCE ActionLifecycle

ASSUME PartsAssumption ==
  /\ Gate!GateAssumption /\ Feedback!FeedbackAssumption /\ Columns!ColumnsAssumption
  /\ Law!LawAssumption /\ Life!LifecycleAssumption

TermInit ==
  /\ part \in {"host", "gate", "feedback", "columns", "law", "life"}
  /\ Init /\ Gate!Init /\ Feedback!Init /\ Columns!Init /\ Law!Init /\ Life!Init
  /\ part # "gate" => class = "direct" /\ supervised
  /\ part # "columns" => cfg = CHOOSE c \in Configurations : TRUE
  /\ part # "law" => kind = "mpc" /\ randomized /\ listed
  /\ part # "life" => managed

TermNext ==
  \/ /\ part = "host" /\ Next
     /\ UNCHANGED <<part, gateVars, feedbackVars, columnVars, lawVars, lifeVars>>
  \/ /\ part = "gate" /\ Gate!Next
     /\ UNCHANGED <<part, vars, feedbackVars, columnVars, lawVars, lifeVars>>
  \/ /\ part = "feedback" /\ Feedback!Next
     /\ UNCHANGED <<part, vars, gateVars, columnVars, lawVars, lifeVars>>
  \/ /\ part = "columns" /\ Columns!Next
     /\ UNCHANGED <<part, vars, gateVars, feedbackVars, lawVars, lifeVars>>
  \/ /\ part = "law" /\ Law!Next
     /\ UNCHANGED <<part, vars, gateVars, feedbackVars, columnVars, lifeVars>>
  \/ /\ part = "life" /\ Life!Next
     /\ UNCHANGED <<part, vars, gateVars, feedbackVars, columnVars, lawVars>>

termVars ==
  <<part, vars, gateVars, feedbackVars, columnVars, lawVars, lifeVars>>

TermSpec == TermInit /\ [][TermNext]_termVars
-----------------------------------------------------------------------------
\* A burst of authority never outlasts its limit, and the next one starts only after a
\* stretch of rest of its own.
BurstsAreRare == []Gate!BurstIsBounded /\ Gate!BurstsAreSeparated

\* PPO learns from the authority a step was executed with, also when the environment was
\* reset between the action and the moment it is read.
MaskIsAuthorityApplied == Gate!MaskIsAuthorityApplied

\* What is told to the controller, read back from it, rewarded and remembered belongs to
\* this policy step and this episode: no reset and no skipped solve leaves a value of an
\* earlier one behind, in the gated residual or in the feedback action.  A gate at zero
\* silences a position or torque action; the blend of ResidualMPC keeps its posture pull.
NothingOutlivesItsEpisode ==
  /\ Gate!TypeOK /\ Gate!ZeroGateExecutesNothing /\ Gate!ExecutedIsWithinRequest
  /\ Gate!HistoryIsTheEpisodes /\ Gate!FeedbackLagsOneStep
  /\ Feedback!TypeOK /\ Feedback!ControllerHearsThisStep /\ Feedback!ReadoutIsThisEpisodes
  /\ Feedback!HistoryIsThisEpisodes /\ Feedback!EffortIsThisWindows

\* mc_rtc callbacks hear the value of their own setter and readouts show their own getter,
\* whatever is configured and in whichever order either side enumerates it.
FeedsReachTheirCallbacks ==
  /\ Columns!TypeOK /\ Columns!CallbacksHearTheirFeeds /\ Columns!ColumnsAreKeptApart
  /\ Columns!ReadoutsAreTheGetters

\* One PD law acts on a joint, with the reference gains, and the torque reported as executed
\* is the one the actuator applies: by ResidualMPC also when its limits were randomized, by
\* the plain torque action only when they were not.
TorqueIsTheLaws ==
  /\ Law!TypeOK /\ Law!OnePdLaw /\ Law!LawHasTheReferenceGains
  /\ Law!ActionTorqueIsBounded /\ Law!ExecutedIsApplied

\* Wherever construction, use or close of the terms is cut short, workers go before the
\* memory they map, no block is unlinked twice and none is left behind.
TeardownIsOrdered ==
  /\ Life!TypeOK /\ Life!WorkersGoFirst /\ Life!UnlinkedOnce /\ Life!NothingIsLeaked
  /\ Life!ControllersCloseFirst
=============================================================================
