----------------------------- MODULE RecoveryGate -----------------------------
(***************************************************************************)
(* One environment of the gated residual: the recovery filter that grants  *)
(* authority in bursts (recovery_authority.py), the action term that gates,*)
(* projects and remembers what it executed (mc_rtc_residual_action.py) and *)
(* the mask PPO reads after the environment was reset.  The action is of   *)
(* one of three classes: "direct", the position and torque actions, which  *)
(* execute the gated request itself; "blend", ResidualMPC, which clamps and*)
(* remembers its requests and adds the pull of its PD law to the default   *)
(* posture (residual_mpc_joint_torque_action.py, paper_torque_blend); and  *)
(* "feedback", which also offsets what the controller reads                *)
(* (residual_feedback_action.py).  Ages count policy steps; authority is a *)
(* level whose zero stands for everything below the cutoff; the residual of*)
(* a blend is in units of its stiffness.                                   *)
(***************************************************************************)
EXTENDS Integers, Sequences, FiniteSetsExt

CONSTANTS MaxActive,      \* max_active_s in policy steps
          Rearm,          \* rearm_s in policy steps
          OnsetDelta,     \* the rise that starts a burst
          MaxAuthority,   \* levels of authority above the cutoff
          Onsets,         \* values of the onset feature
          Nominals,       \* nominal targets the controller may ask for
          Raws,           \* entries of an action of the policy
          Pulls,          \* what the blend adds: posture error and damping
          Limit           \* hardware bound on a target

\* What is assumed of the constants.
GateAssumption ==
  /\ {MaxActive, Rearm, MaxAuthority} \subseteq Nat \ {0}
  /\ OnsetDelta \in Int /\ Onsets \subseteq Int /\ Nominals \subseteq Int /\ {Raws, Pulls} \subseteq SUBSET Int
  /\ Limit \in Nat

VARIABLES
  class,                       \* of the action term
  supervised,                  \* whether it has a recovery detector
  f,                           \* RecoveryFilter
  gate, previousGate, actorGate,
  request, history,            \* _processed_actions and the two before it
  asked,                       \* the residual last handed to project_residual in a step
  executed, previousExecuted,
  feedback,                    \* the offset the bridge adds to the controller's input
  pc,
  applied, past, rested, run   \* for the properties

vars == <<class, supervised, f, gate, previousGate, actorGate, request, history, asked,
          executed, previousExecuted, feedback, pc, applied, past, rested, run>>

filterVars == <<f, run, rested>>

Clamp(v, low, high) == Max({low, Min({v, high})})

Idle == [authority |-> 0, activeAge |-> 0, quietAge |-> 0, active |-> FALSE,
         armed |-> FALSE, onset |-> 0, primed |-> FALSE]

\* The gate of a new episode: everything is granted where nothing supervises.
Ungated == IF supervised THEN 0 ELSE MaxAuthority

Init ==
  /\ class \in {"direct", "blend", "feedback"} /\ supervised \in BOOLEAN
  /\ f = Idle /\ gate = Ungated /\ previousGate = Ungated /\ actorGate = Ungated
  /\ request = 0 /\ history = <<0, 0>> /\ asked = 0 /\ executed = 0 /\ previousExecuted = 0
  /\ feedback = 0 /\ pc = "policy"
  /\ applied = 0 /\ past = <<>> /\ rested = FALSE /\ run = 0
-----------------------------------------------------------------------------
(* The filter.  A measurement is its score, the onset signal and the target *)
(* authority, which is positive only above the threshold.                   *)

Measurements ==
  {m \in [score : {"quiet", "raised", "over"}, onset : Onsets, target : 0..MaxAuthority] :
     m.target > 0 => m.score = "over"}

\* Attack towards a higher target, decay towards a lower one.
FilterAuthority(previous, target) ==
  Min({previous, target})..Max({previous, target})

Starts(m) == /\ f.armed /\ ~f.active /\ f.primed
             /\ m.onset - f.onset >= OnsetDelta /\ m.target > 0

\* The burst before the rearm: [active, authority, age] after the measurement.
Burst(m, level) ==
  LET on == f.active \/ Starts(m)
      age == (IF Starts(m) THEN 0 ELSE f.activeAge) + 1
      authority == IF on THEN level ELSE 0
      stopped == on /\ (age >= MaxActive \/ (m.target = 0 /\ authority = 0))
  IN  [active |-> on /\ ~stopped,
       authority |-> IF stopped THEN 0 ELSE authority,
       age |-> IF on THEN age ELSE f.activeAge]

Quiet(m, b) == ~b.active /\ m.score = "quiet"

\* Mutant: an interrupted nominal stretch is continued.
QuietAge_Accumulates(m, b) ==
  (IF Starts(m) THEN 0 ELSE f.quietAge) + (IF Quiet(m, b) THEN 1 ELSE 0)

QuietAge(m, b) == IF Quiet(m, b) THEN (IF Starts(m) THEN 0 ELSE f.quietAge) + 1 ELSE 0

\* Ages saturate where nothing reads them any more.
Updated(m, b) ==
  [authority |-> b.authority, active |-> b.active,
   activeAge |-> IF b.active THEN b.age ELSE 0,
   quietAge |-> Min({QuietAge(m, b), Rearm}),
   armed |-> (f.armed /\ ~Starts(m)) \/ (Quiet(m, b) /\ QuietAge(m, b) >= Rearm),
   onset |-> m.onset, primed |-> TRUE]
-----------------------------------------------------------------------------
(* The action term.                                                         *)

\* Only the blend clamps its requests, and remembers the two before.
Requested(raw) == IF class = "direct" THEN raw ELSE Clamp(raw, -1, 1)
AdvanceHistory == history' = IF class = "direct" THEN history ELSE <<request, history[1]>>

Keep(s) == IF Len(s) > 1 THEN Tail(s) ELSE s

\* Gated by the authority of the step before; the update comes later in the same call.
FeedbackOffset(block) == IF class = "feedback" THEN Clamp(block, -1, 1) * gate ELSE 0

\* RecoveryAuthority.update, where the action has one.
Supervise(m, level) ==
  LET b == Burst(m, level)
      quietRun == IF Quiet(m, b) THEN Min({run + 1, Rearm}) ELSE 0
  IN  /\ f' = Updated(m, b) /\ gate' = f'.authority
      /\ run' = quietRun
      /\ rested' = ((rested /\ ~Starts(m)) \/ quietRun >= Rearm)

UpdateGate ==
  IF supervised
  THEN \E m \in Measurements : \E level \in FilterAuthority(f.authority, m.target) :
         Supervise(m, level)
  ELSE UNCHANGED <<filterVars, gate>>

\* The torque block and the feedback block of an action; without a torque channel the
\* first is zero.
ProcessActions ==
  \E raw \in Raws, block \in Raws :
    /\ pc = "policy" /\ pc' = "apply"
    /\ feedback' = FeedbackOffset(block)
    /\ AdvanceHistory
    /\ previousExecuted' = executed /\ previousGate' = gate
    /\ request' = Requested(raw)
    /\ UpdateGate /\ actorGate' = gate'
    /\ asked' = 0
    /\ UNCHANGED <<class, supervised, executed, applied, past>>

Safe(target) == Clamp(target, -Limit, Limit)
Executed(nominal, residual) == Safe(nominal + residual) - Safe(nominal)

\* The gate scales the request alone: the blend keeps its pull, which its factor removes
\* only at zero.
Residual(blend, pull) ==
  IF class = "direct" THEN request * gate ELSE IF blend THEN request * gate + pull ELSE 0

\* A physics substep; the last one of the step is what the buffers keep.
ApplyActions ==
  /\ pc = "apply" /\ pc' \in {"apply", "done"}
  /\ \E nominal \in Nominals, pull \in Pulls, blend \in BOOLEAN :
       asked' = Residual(blend, pull) /\ executed' = Executed(nominal, asked')
  /\ applied' = gate
  /\ UNCHANGED <<class, supervised, filterVars, gate, previousGate, actorGate, request,
                 history, previousExecuted, feedback, past>>

Continue ==
  /\ pc = "done" /\ pc' = "record"
  /\ past' = Append(Keep(past), [request |-> request, executed |-> executed])
  /\ UNCHANGED <<class, supervised, filterVars, gate, previousGate, actorGate, request,
                 history, asked, executed, previousExecuted, feedback, applied>>

ResetHistory ==
  IF class = "direct" THEN UNCHANGED <<request, history>>
  ELSE request' = 0 /\ history' = <<0, 0>>

ResetFeedback == feedback' = 0

\* Mutant: the mask is cleared with the episode.
ResetGate_ClearsMask == gate' = Ungated /\ previousGate' = Ungated /\ actorGate' = Ungated

\* actor_update_gate stays: PPO reads it after the reset.
ResetGate == gate' = Ungated /\ previousGate' = Ungated /\ UNCHANGED actorGate

\* RecoveryAuthority.reset: inactive and not armed.
ResetAuthority == f' = Idle

\* The episode ended: the environment resets the term before PPO reads the transition.
Reset ==
  /\ pc = "done" /\ pc' = "record"
  /\ ResetAuthority /\ executed' = 0 /\ previousExecuted' = 0
  /\ ResetGate /\ ResetHistory /\ ResetFeedback
  /\ past' = <<>> /\ rested' = FALSE /\ run' = 0
  /\ UNCHANGED <<class, supervised, asked, applied>>

\* process_env_step reads actor_update_gate.
Record ==
  /\ pc = "record" /\ pc' = "policy"
  /\ UNCHANGED <<class, supervised, filterVars, gate, previousGate, actorGate, request,
                 history, asked, executed, previousExecuted, feedback, applied, past>>

Next == ProcessActions \/ ApplyActions \/ Continue \/ Reset \/ Record
Spec == Init /\ [][Next]_vars
-----------------------------------------------------------------------------
\* The types of the filter and of the action term's buffers.
TypeOK ==
  /\ class \in {"direct", "blend", "feedback"} /\ supervised \in BOOLEAN
  /\ f \in [authority : 0..MaxAuthority, activeAge : 0..MaxActive, quietAge : 0..Rearm,
            active : BOOLEAN, armed : BOOLEAN, onset : Onsets \cup {0}, primed : BOOLEAN]
  /\ {gate, previousGate, actorGate, applied} \subseteq 0..MaxAuthority
  /\ request \in Int /\ history \in (-1..1) \X (-1..1) /\ asked \in Int
  /\ {executed, previousExecuted} \subseteq -(2 * Limit)..(2 * Limit)
  /\ feedback \in -MaxAuthority..MaxAuthority
  /\ pc \in {"policy", "apply", "done", "record"}

\* Authority exists only inside a burst, and a burst is shorter than its maximum and not
\* armed for another (RecoveryFilter.update, its order of expiry, end and rearm).
BurstIsBounded ==
  /\ f.authority > 0 => f.active
  /\ f.active => f.activeAge < MaxActive /\ ~f.armed

\* A burst starts only after a nominal stretch of the rearm length in the same episode,
\* and every burst uses such a stretch up.
BurstsAreSeparated == [][~f.active /\ f'.active => rested]_vars

\* Inactive authority of a position or torque action executes exactly nothing, also where
\* the nominal target itself has to be clamped (project_residual).
ZeroGateExecutesNothing ==
  pc = "done" /\ applied = 0 /\ class = "direct" => executed = 0

\* What is reported as executed never has the opposite sign of the residual asked for, nor
\* more than it: for a position or torque action the request within its authority, for a
\* blend also the pull of its law, which no gate removes.
ExecutedIsWithinRequest ==
  pc = "done" => /\ executed \in {0} \cup 0..asked \cup asked..0
                 /\ class = "direct" => asked = request * applied

\* PPO masks a transition by the authority its action was executed with, also when the
\* environment was reset before the mask is read.
MaskIsAuthorityApplied == pc = "record" => actorGate = applied

\* The executed residual before this one, and the two requests a blend remembers for its
\* rates, never reach back over a reset and never skip a step.
HistoryIsTheEpisodes ==
  LET n == Len(past)
      Before(k, field) == IF n < k THEN 0 ELSE past[n - k + 1][field]
  IN  pc \in {"apply", "done"} =>
        /\ previousExecuted = Before(1, "executed")
        /\ class # "direct" => history = <<Before(1, "request"), Before(2, "request")>>

\* residual_feedback_action.py: the feedback is gated with the torque residual, so that a
\* suppressed residual cannot keep lying to the controller (violated).
SuppressedFeedbackIsSilent == pc = "apply" /\ gate = 0 => feedback = 0

\* The offset outlives the authority by one policy step at most, and no reset.
FeedbackLagsOneStep == feedback # 0 => previousGate > 0

\* recovery_authority.py: a reset restores the inactive, armed state (violated).
ResetArms == [][Reset => f'.armed]_vars
=============================================================================
