------------------------------ MODULE ActuatorLaw ------------------------------
(***************************************************************************)
(* Who drives one actuated joint, and within which bounds: the gains of    *)
(* the simulated actuator and those of the action term                     *)
(* (robots/pd_gains.py, the position, torque and ResidualMPC actions), the *)
(* startup randomizations of gains and effort limits (mdp/disturbances.py  *)
(* and the task configurations), and the projection of the residual        *)
(* (residuals/safety.py).  Gains and efforts are in integer units.         *)
(***************************************************************************)
EXTENDS Integers, Sequences

CONSTANTS Default, Reference,  \* gain of the robot description and of PDgains_sim.dat
          Limit,               \* effort limit of the RobotModule
          Spread,              \* what a randomization adds to or takes from a gain
          EffortSpread,        \* and from an effort limit
          Cap,                 \* the action scale's bound, 0.01 rad
          Torques, Residuals   \* the torques and residuals tried

\* What is assumed of the constants.
LawAssumption ==
  /\ Default \in Nat \ {0} /\ Reference \in Nat \ {0} /\ Limit \in Nat /\ Cap \in Nat
  /\ Spread \in 0..(IF Default < Reference THEN Default ELSE Reference) - 1
  /\ EffortSpread \in 0..Limit
  /\ Torques \subseteq Int /\ Residuals \subseteq Int

VARIABLES
  kind,            \* "position", "torque" or "mpc"
  randomized,      \* whether the task randomizes
  listed,          \* whether the gain file has gains for the joint
  todo,            \* the steps of the construction and the startup events left
  sim, own,        \* gain of the simulated actuator and _kp of the action
  force, bound,    \* force_limit of the actuator and the action's effort bound
  scale,           \* _scale of the ResidualMPC action
  step             \* the last substep: torque, nominal, residual, effort, executed

vars == <<kind, randomized, listed, todo, sim, own, force, bound, scale, step>>

\* The construction of the action: the base class applies the file's gains.
Built ==
  CASE kind = "position" -> <<"apply">>
    [] kind = "torque" -> <<"apply", "read", "zero">>
    [] kind = "mpc" -> <<"apply", "read", "zero", "refresh">>

\* Mutant: the scale is refreshed between the two randomizations.
Startup_RefreshesEarly ==
  IF kind = "mpc" THEN <<"gains", "refresh", "effort">> ELSE <<"gains", "effort">>

\* The startup events, in the order the task lists them.
Startup == IF kind = "mpc" THEN <<"gains", "effort", "refresh">> ELSE <<"gains", "effort">>

None == [torque |-> 0, nominal |-> 0, residual |-> 0, effort |-> 0, executed |-> 0]

\* _setup_hardware_bounds: what the RobotModule reports.
ModuleBound == Limit

Init ==
  /\ kind \in {"position", "torque", "mpc"} /\ randomized \in BOOLEAN /\ listed \in BOOLEAN
  /\ todo = Built \o (IF randomized THEN Startup ELSE <<>>)
  /\ sim = Default /\ own = 0 /\ force = Limit /\ bound = ModuleBound /\ scale = 0 /\ step = None
-----------------------------------------------------------------------------
Due(name) == todo # <<>> /\ Head(todo) = name /\ todo' = Tail(todo)

Fixed == <<kind, randomized, listed, step>>

\* apply_reference_pd_gains: a joint the file has no gains for keeps its own.
ApplyReferencePdGains ==
  /\ Due("apply") /\ sim' = (IF listed THEN Reference ELSE sim)
  /\ UNCHANGED <<Fixed, own, force, bound, scale>>

ReadPdGains == Due("read") /\ own' = sim /\ UNCHANGED <<Fixed, sim, force, bound, scale>>

Zeroed == 0

ZeroPdGains == Due("zero") /\ sim' = Zeroed /\ UNCHANGED <<Fixed, own, force, bound, scale>>

LeastOf(a, b) == IF a < b THEN a ELSE b

\* paper_joint_action_scale: an action turns at most 20% of the limit into torque.
PaperScale(effort, kp) == LeastOf(Cap, (effort \div 5) \div kp)

\* refresh_effort_limits_and_action_scale.
Refresh ==
  /\ Due("refresh") /\ bound' = force /\ scale' = PaperScale(force, own)
  /\ UNCHANGED <<Fixed, sim, own, force>>

\* A randomization multiplies: zero stays zero.
Scaled(gain, by) == IF gain = 0 THEN 0 ELSE gain + by

\* randomize_current_pd_gains: those of the action if it has any, else the actuator's.
RandomizedGains(by) ==
  IF kind = "position" THEN <<Scaled(sim, by), own>> ELSE <<sim, Scaled(own, by)>>

RandomizeGains ==
  /\ Due("gains")
  /\ \E by \in {-Spread, 0, Spread} :
       sim' = RandomizedGains(by)[1] /\ own' = RandomizedGains(by)[2]
  /\ UNCHANGED <<Fixed, force, bound, scale>>

\* dr.effort_limits changes the actuator.
RandomizeEffort ==
  /\ Due("effort") /\ \E by \in {-EffortSpread, 0, EffortSpread} : force' = Limit + by
  /\ UNCHANGED <<Fixed, sim, own, bound, scale>>
-----------------------------------------------------------------------------
Clamp(value, limit) == IF value > limit THEN limit ELSE IF value < -limit THEN -limit ELSE value

\* The torque of the controller, or else the PD law with the gains of the action over a
\* tracking error of one.
Nominal(torque) == IF torque # 0 THEN torque ELSE own

\* project_residual: the target, and what of the residual it executes.
Projected(nominal, residual) ==
  LET effort == Clamp(nominal + residual, bound)
  IN  <<effort, effort - Clamp(nominal, bound)>>

\* _apply_control of the torque actions, and of the position action, which leaves the
\* torque to the actuator.
ApplyControl ==
  /\ todo = <<>>
  /\ \E torque \in Torques, residual \in Residuals :
       LET nominal == Nominal(torque) IN
       step' = IF kind = "position" THEN None
               ELSE [torque |-> torque, nominal |-> nominal, residual |-> residual,
                     effort |-> Projected(nominal, residual)[1],
                     executed |-> Projected(nominal, residual)[2]]
  /\ UNCHANGED <<kind, randomized, listed, todo, sim, own, force, bound, scale>>

Next ==
  \/ ApplyReferencePdGains \/ ReadPdGains \/ ZeroPdGains \/ Refresh
  \/ RandomizeGains \/ RandomizeEffort \/ ApplyControl

Spec == Init /\ [][Next]_vars
-----------------------------------------------------------------------------
Steps == {"apply", "read", "zero", "refresh", "gains", "effort"}

TypeOK ==
  /\ kind \in {"position", "torque", "mpc"} /\ randomized \in BOOLEAN /\ listed \in BOOLEAN
  /\ todo \in Seq(Steps) /\ {sim, own, force, bound, scale} \subseteq Nat
  /\ step.effort \in -bound..bound

Running == todo = <<>>

\* A joint is driven by one PD law, never by the actuator's and the action's at once and
\* never by none, which would leave it limp while the controller commands no torque.
OnePdLaw == Running => (sim = 0) # (own = 0)

\* The law in force has the file's gains, or the robot's own for a joint not in it, scaled
\* once if the task randomizes, whoever owns it.
LawHasTheReferenceGains ==
  Running =>
    LET base == IF listed THEN Reference ELSE Default
    IN  (IF own = 0 THEN sim ELSE own) \in
          (IF randomized THEN {base - Spread, base, base + Spread} ELSE {base})

\* docs/residual-mpc.md: the action-dependent blended torque stays within 20% of the active
\* randomized effort limit.
ActionTorqueIsBounded == Running /\ kind = "mpc" => own * scale <= force \div 5

\* What the actuator, which clamps the effort again, applies over its nominal torque.
Applied == Clamp(step.effort, force) - Clamp(step.nominal, force)

\* The torque an action reports as executed is the one the actuator applies: for ResidualMPC
\* always, since it refreshes its limits after a randomization, for the plain torque action
\* only in a task that does not randomize effort limits.
ExecutedIsApplied ==
  Running /\ (kind = "mpc" \/ (kind = "torque" /\ ~randomized)) => step.executed = Applied

\* The same of every torque action (violated by the plain one, which keeps the module's
\* limits when the actuator's are randomized).
TorqueExecutedIsApplied == Running /\ kind # "position" => step.executed = Applied
=============================================================================
