--------------------------- MODULE TaskConfiguration ---------------------------
(***************************************************************************)
(* Building the configuration of a task (residual_balance_env_cfg.py,      *)
(* residual_mpc_env_cfg.py, residual_feedback_env_cfg.py,                  *)
(* zero_residual_env_cfg.py) and editing it in place: by the variants of   *)
(* the task, for a viewer, for a comparison, a qualification scenario or a *)
(* robustness profile.  Terms are mutable objects, so the observation      *)
(* groups hold references into `heap` and a change through one group is    *)
(* seen through every other that shares the object.                        *)
(***************************************************************************)
EXTENDS Integers, Sequences, FiniteSets

CONSTANTS
  Joints,       \* the actuated joints in module order
  Legs,         \* the chain of leg joints of each side
  UpperBody,    \* joints no residual acts on
  Limit,        \* per joint, a fifth of its effort limit
  Stiffness     \* per joint, its position gain

JointSet == {Joints[i] : i \in DOMAIN Joints}

\* Where a residual may act, by the position in a chain of joints.
Positions(chain) == {i \in DOMAIN chain : chain[i] \in JointSet \ UpperBody}

\* What is assumed of the constants: a robot with an ankle, and no joint of the name that
\* matches them all.
ConfigurationAssumption ==
  /\ Joints \in Seq(JointSet) /\ ".*" \notin JointSet
  /\ UpperBody \subseteq JointSet
  /\ \A side \in DOMAIN Legs : DOMAIN Legs[side] \subseteq Nat /\ IsFiniteSet(DOMAIN Legs[side])
  /\ \E side \in DOMAIN Legs : Cardinality(Positions(Legs[side])) >= 2
  /\ DOMAIN Limit = JointSet /\ DOMAIN Stiffness = JointSet
  /\ \A j \in JointSet : Limit[j] \in Nat /\ Stiffness[j] \in Nat \ {0}

VARIABLES
  options,              \* what the caller asked for
  pc,                   \* how far the builder and its callers are
  scales, residual,     \* residual scale by name pattern, and the joints it acts on
  heap,                 \* observation terms by identity
  groups,               \* "actor" and "critic": the identity of each of their terms
  corruption,           \* whether a group is corrupted by noise
  lag,                  \* delay_max_lag of the actuators
  events, rewards, curriculum, commands

vars == <<options, pc, scales, residual, heap, groups, corruption, lag,
          events, rewards, curriculum, commands>>

Stages == 3   \* of the achievement curriculum; the matched bands are as many

EventComponents == {"randomize_friction", "randomize_pd_gains", "randomize_strength"}
Randomizations == EventComponents \cup {"randomize_effort", "encoder_bias"}

\* What may be asked for: balance tasks by their builder's arguments, the others by name.
Options ==
  [task : {"balance"}, control : {"position", "torque"}, play : {FALSE},
   authority : {"uniform", "ankle", "ankle_pitch"}, disturbance : {"finite", "velocity", "none"},
   stage : 0..1]
  \cup [task : {"balance", "matched", "achievement"}, control : {"position"}, play : BOOLEAN,
        authority : {"ankle", "ankle_pitch"}, disturbance : {"finite"}, stage : {0}]
  \cup [task : {"mpc", "feedback"}, control : {"torque"}, play : BOOLEAN, authority : {"uniform"},
        disturbance : {"kick", "curriculum", "none"}, stage : 0..1]
  \cup [task : {"zero"}, control : {"position", "torque"}, play : BOOLEAN,
        authority : {"uniform"}, disturbance : {"none"}, stage : {0}]

Balance == options.task \in {"balance", "matched", "achievement"}
Mpc == options.task \in {"mpc", "feedback"}

Empty == [n \in {} |-> 0]

Init ==
  /\ options \in Options /\ pc = "actions"
  /\ scales = Empty /\ residual = <<>> /\ heap = Empty /\ groups = Empty
  /\ corruption = Empty /\ lag = 0
  /\ events = Empty /\ rewards = {} /\ curriculum = Empty /\ commands = {}
-----------------------------------------------------------------------------
\* The joints at some positions, in module order.
UpTo(positions, i) == {j \in positions : j <= i}
InOrder(positions) ==
  [k \in 1..Cardinality(positions) |->
     Joints[CHOOSE i \in positions : Cardinality(UpTo(positions, i)) = k]]

Candidates == InOrder(Positions(Joints))

\* The last n candidates of a leg, without the last `dropped`: so many follow each of them.
Following(chain, i) == {k \in Positions(chain) : k > i}
EndOfLeg(leg, n, dropped) ==
  {leg[i] : i \in {j \in Positions(leg) : Cardinality(Following(leg, j)) \in dropped..(n - 1)}}

\* select_residual_joints.
Selected == UNION {EndOfLeg(Legs[side], 2, IF options.authority = "ankle" THEN 0 ELSE 1) :
                     side \in DOMAIN Legs}
SelectResidualJoints ==
  IF options.authority = "uniform" THEN Candidates
  ELSE InOrder({i \in Positions(Joints) : Joints[i] \in Selected})

Default == IF options.control = "position" THEN 4 ELSE 40

Bounded(joint) ==
  LET bound == IF options.control = "position" THEN Limit[joint] \div Stiffness[joint] ELSE Limit[joint]
  IN  IF bound < Default THEN bound ELSE Default

\* _hardware_residual_scales: the residual joints by their limits, all others by default.
HardwareResidualScales(joints) ==
  [j \in JointSet |-> IF \E i \in DOMAIN joints : joints[i] = j THEN Bounded(j) ELSE Default]

\* One command, held for the whole episode.
MpcCommands == {"twist"}

BuildActions ==
  /\ pc = "actions" /\ pc' = "observations"
  /\ residual' = IF Balance THEN SelectResidualJoints ELSE Candidates
  /\ scales' = IF options.authority = "uniform" THEN [p \in {".*"} |-> Default]
               ELSE HardwareResidualScales(residual')
  /\ lag' = 2 * options.stage
  /\ commands' = IF Mpc THEN MpcCommands ELSE {}
  /\ UNCHANGED <<options, heap, groups, corruption, events, rewards, curriculum>>

Matches(pattern, joint) == pattern \in {".*", joint}

\* The observation terms: a stack of frames, a delay and whether it reads biased encoders.
Term(history, biased) == [history |-> history, delay |-> 0, biased |-> biased]
SharedTerms ==
  [n \in {"base_ang_vel", "joint_pos", "controller_pos_error"} |->
     Term(IF Balance /\ n # "joint_pos" THEN 5 ELSE 1, Balance /\ n # "base_ang_vel")]
Terms ==
  IF Balance THEN [n \in DOMAIN SharedTerms \cup {"foot_lin_vel"} |->
                     IF n = "foot_lin_vel" THEN Term(5, FALSE) ELSE SharedTerms[n]]
  ELSE SharedTerms

Unbiased == {"joint_pos", "controller_pos_error"}
Privileged == IF Balance THEN {"push_recency", "encoder_bias"} ELSE {}

\* The critic's terms are copies, without the bias of the actor's.
CriticTerm(name) ==
  IF name \in Privileged THEN Term(1, FALSE)
  ELSE IF Balance /\ name \in Unbiased THEN [Terms[name] EXCEPT !.biased = FALSE]
  ELSE Terms[name]

\* Each group gets copies of the terms, but those of the zero-residual task share them.
CopyId(name) == <<"critic", name>>
CriticId(name) == IF options.task = "zero" THEN <<"actor", name>> ELSE CopyId(name)

ActorNames == DOMAIN Terms \ {"foot_lin_vel"}
CriticNames == DOMAIN Terms \cup Privileged

Observations ==
  [id \in {<<"actor", n>> : n \in ActorNames} \cup {CriticId(n) : n \in CriticNames} |->
     IF id[1] = "actor" THEN Terms[id[2]] ELSE CriticTerm(id[2])]

\* The delay is written into the objects of the actor's group.
BuildObservations ==
  /\ pc = "observations" /\ pc' = "managers"
  /\ groups' = [actor |-> [n \in ActorNames |-> <<"actor", n>>],
                critic |-> [n \in CriticNames |-> CriticId(n)]]
  /\ heap' = [id \in DOMAIN Observations |->
                IF Balance /\ \E n \in ActorNames : groups'.actor[n] = id
                THEN [Observations[id] EXCEPT !.delay = options.stage] ELSE Observations[id]]
  /\ corruption' = [actor |-> Balance, critic |-> FALSE]
  /\ UNCHANGED <<options, scales, residual, lag, events, rewards, curriculum, commands>>

\* The push of a balance task: its class, its ladder of ranges and whether it fires.
Push == [class |-> IF options.disturbance = "velocity" THEN "push_and_record" ELSE "finite",
         stages |-> 3, weights |-> <<>>, initial |-> 0, enabled |-> options.disturbance # "none"]
Kick == [Push EXCEPT !.class = "initial_velocity_kick"]
Plain == [class |-> "plain", stages |-> 0, weights |-> <<>>, initial |-> 0, enabled |-> TRUE]

BalanceEvents ==
  {"reset_scene_to_default", "encoder_bias", "reset_base", "push_robot"}
    \cup (IF options.stage = 1 THEN EventComponents ELSE {})
MpcEvents ==
  {"reset_scene_to_default", "encoder_bias"}
    \cup (IF options.stage = 1
          THEN {"randomize_friction", "randomize_pd_gains", "randomize_effort",
                "refresh_action_scaling"} ELSE {})
    \cup (IF options.disturbance # "none" THEN {"initial_base_velocity"} ELSE {})

Events ==
  LET names == IF Balance THEN BalanceEvents ELSE IF Mpc THEN MpcEvents ELSE {}
  IN  [n \in names |-> CASE n = "push_robot" -> Push [] n = "initial_base_velocity" -> Kick [] OTHER -> Plain]

\* Rewards and curricula name other terms; so do metrics, which are left out.
BalanceRewards == {"recovery_dcm", "dcm_stability", "torque_margin", "termination_penalty"}
MpcRewards == {"linear_tracking", "self_collision", "termination"}
RewardNames == IF Balance THEN BalanceRewards ELSE IF Mpc THEN MpcRewards ELSE {}

KickCurriculum == [n \in {"kick_difficulty"} |-> "survival_kick_curriculum"]

BuildManagers ==
  /\ pc = "managers" /\ pc' = "variant"
  /\ events' = Events /\ rewards' = RewardNames
  /\ curriculum' = IF Balance THEN [n \in {"torque_margin_weight"} |-> "reward_curriculum"]
                   ELSE IF Mpc /\ options.disturbance = "curriculum"
                        THEN KickCurriculum ELSE Empty
  /\ UNCHANGED <<options, scales, residual, heap, groups, corruption, lag, commands>>

\* The mixtures over standing and the bands or stages: which of them are nonzero.
Mixture(stage) == [b \in 1..(Stages + 1) |-> b <= stage + 2]
OnlyHardest == [b \in 1..(Stages + 1) |-> b = Stages + 1]

\* ..._matched_impulse_env_cfg and ..._achievement_curriculum_env_cfg edit the push.
Vary ==
  /\ pc = "variant" /\ pc' = "play"
  /\ events' =
       CASE options.task = "matched" ->
              [events EXCEPT !["push_robot"] =
                 [@ EXCEPT !.class = "stratified", !.stages = 1, !.weights = <<Mixture(Stages - 1)>>]]
         [] options.task = "achievement" ->
              [events EXCEPT !["push_robot"] =
                 [@ EXCEPT !.class = "achievement", !.stages = Stages,
                           !.initial = IF options.play THEN Stages - 1 ELSE 0,
                           !.weights = [s \in 1..Stages |->
                                          IF options.play THEN OnlyHardest ELSE Mixture(s - 1)]]]
         [] OTHER -> events
  /\ curriculum' = IF options.task = "achievement"
                   THEN [n \in {"achievement_stage"} |-> "achievement_curriculum_state"] ELSE curriculum
  /\ UNCHANGED <<options, scales, residual, heap, groups, corruption, lag, rewards, commands>>

\* _apply_play_overrides.
Play ==
  /\ pc = "play" /\ pc' = "built"
  /\ corruption' = IF options.play THEN [corruption EXCEPT !.actor = FALSE] ELSE corruption
  /\ UNCHANGED <<options, scales, residual, heap, groups, lag, events, rewards, curriculum, commands>>
-----------------------------------------------------------------------------
Without(f, names) == [n \in DOMAIN f \ names |-> f[n]]

\* Mutant: it drops the events of the balance tasks.
NominalEvents_KeepsEffort == Without(events, EventComponents \cup {"encoder_bias"})

\* --nominal.
NominalEvents == Without(events, {"randomize_friction", "randomize_pd_gains", "randomize_effort", "encoder_bias"})

\* compare_to_baseline.py: the tasks as registered, or a balance task with an authority.
Compare(nominal, dropped) ==
  /\ pc = "built" /\ ~options.play
  /\ pc' = IF nominal THEN "nominal" ELSE "compared"
  /\ options.disturbance # "velocity" /\ (Balance => options.stage = 0 /\ options.disturbance = "finite")
  /\ groups' = [g \in DOMAIN groups |-> Without(groups[g], dropped)]
  /\ events' = IF nominal THEN NominalEvents ELSE events
  /\ lag' = IF nominal THEN 0 ELSE lag
  /\ UNCHANGED <<options, scales, residual, heap, corruption, rewards, curriculum, commands>>

\* calibrate_robustness_profile.py, select_components: one stage-one component is kept.
SelectComponents(profile) ==
  /\ pc = "built" /\ options.task = "balance" /\ ~options.play
  /\ options.stage = 1 /\ options.disturbance = "none" /\ options.control = "position"
  /\ pc' = profile
  /\ events' = IF profile = "all" THEN events ELSE Without(events, EventComponents \ {profile})
  /\ heap' = IF profile \in {"actor-delay", "all"} THEN heap
             ELSE [id \in DOMAIN heap |->
                     IF \E n \in DOMAIN groups.actor : groups.actor[n] = id
                     THEN [heap[id] EXCEPT !.delay = 0] ELSE heap[id]]
  /\ lag' = IF profile \in {"actuator-delay", "all"} THEN lag ELSE 0
  /\ UNCHANGED <<options, scales, residual, groups, corruption, rewards, curriculum, commands>>

Profiles == EventComponents \cup {"actor-delay", "actuator-delay", "all"}

\* audit_rewards.py, _make_cfg: no noise, and observations a checkpoint predates dropped.
Audit(dropped) ==
  /\ pc = "built" /\ options.task = "balance" /\ ~options.play /\ pc' = "audited"
  /\ corruption' = [g \in DOMAIN corruption |-> FALSE]
  /\ dropped \subseteq DOMAIN groups.actor \cup DOMAIN groups.critic
  /\ groups' = [g \in DOMAIN groups |-> Without(groups[g], dropped)]
  /\ UNCHANGED <<options, scales, residual, heap, lag, events, rewards, curriculum, commands>>

Dropped == {{}, {"base_ang_vel"}, {"foot_lin_vel"}}

Use == \/ \E nominal \in BOOLEAN, dropped \in Dropped : Compare(nominal, dropped)
       \/ \E profile \in Profiles : SelectComponents(profile)
       \/ \E dropped \in Dropped : Audit(dropped)

Next == BuildActions \/ BuildObservations \/ BuildManagers \/ Vary \/ Play \/ Use

Spec == Init /\ [][Next]_vars
-----------------------------------------------------------------------------
Built == pc \notin {"actions", "observations", "managers", "variant", "play"}

TypeOK ==
  /\ \A i \in DOMAIN residual : residual[i] \in JointSet
  /\ \A p \in DOMAIN scales : scales[p] \in Nat
  /\ \A g \in DOMAIN groups : \A n \in DOMAIN groups[g] : groups[g][n] \in DOMAIN heap
  /\ lag \in 0..2 /\ \A id \in DOMAIN heap : heap[id].delay \in 0..1

\* docs/residual-authority.md#residual_scales: an unmatched joint would silently get a
\* scale of 1 and no clip, and one matched twice an arbitrary one of the two.
ScalesPartitionTheActuators ==
  pc # "actions" => \A j \in JointSet : Cardinality({p \in DOMAIN scales : Matches(p, j)}) = 1

\* The residual acts on the legs only, in module order, and within the hardware's limits.
AuthorityIsWithinTheHardware ==
  pc # "actions" /\ options.authority # "uniform" =>
    /\ residual # <<>>
    /\ \A i \in DOMAIN residual :
         /\ residual[i] \notin UpperBody /\ \E side \in DOMAIN Legs : \E k \in DOMAIN Legs[side] : Legs[side][k] = residual[i]
         /\ scales[residual[i]] <= Default
         /\ scales[residual[i]] * (IF options.control = "position" THEN Stiffness[residual[i]] ELSE 1)
              <= Limit[residual[i]]
    /\ \A i, k \in DOMAIN residual : i < k =>
         \E x, y \in DOMAIN Joints : x < y /\ Joints[x] = residual[i] /\ Joints[y] = residual[k]

\* Whatever is done to the actor's terms, the critic's are neither delayed nor biased nor
\* corrupted, and stack as many frames of everything the actor sees.
CriticSeesTheTruth ==
  Built => /\ \A n \in DOMAIN groups.critic : heap[groups.critic[n]].delay = 0
           /\ Balance => \A n \in DOMAIN groups.critic : ~heap[groups.critic[n]].biased
           /\ ~corruption.critic
           /\ \A n \in DOMAIN groups.actor :
                /\ n \in DOMAIN groups.critic
                /\ heap[groups.critic[n]].history = heap[groups.actor[n]].history

\* What a reward or a curriculum names is configured when they look it up:
\* push_term raises unless the push is a recorded disturbance, and the ladders of the
\* push, its stages and its mixtures fit each other and its curriculum.
ReferencesResolve ==
  Built =>
    /\ "recovery_dcm" \in rewards =>
         "push_robot" \in DOMAIN events /\ events["push_robot"].class # "plain"
    /\ \A n \in DOMAIN curriculum :
         CASE curriculum[n] = "reward_curriculum" -> "torque_margin" \in rewards
           [] curriculum[n] = "achievement_curriculum_state" -> events["push_robot"].class = "achievement"
           [] curriculum[n] = "survival_kick_curriculum" -> events["initial_base_velocity"].class = "initial_velocity_kick"
    /\ "linear_tracking" \in rewards => "twist" \in commands
    /\ "push_robot" \in DOMAIN events =>
         LET push == events["push_robot"]
         IN  /\ push.class = "stratified" => push.stages = 1 /\ Len(push.weights[1]) = Stages + 1
             /\ push.class = "achievement" =>
                  /\ Len(push.weights) = push.stages /\ push.initial < push.stages
                  /\ \A b \in (push.initial + 3)..(Stages + 1) : ~push.weights[push.initial + 1][b]

\* docs/evaluation.md#nominal: both arms of a nominal comparison run the true model.
NominalIsNominal ==
  pc = "nominal" =>
    /\ lag = 0 /\ DOMAIN events \cap Randomizations = {}
    /\ \A g \in DOMAIN groups : \A n \in DOMAIN groups[g] : heap[groups[g][n]].delay = 0

\* A robustness profile measures one component: of the stage-one randomizations, delays
\* included, exactly the one it is named after is left.
OneComponentRemains ==
  pc \in Profiles \ {"all"} =>
    (DOMAIN events \cap EventComponents)
      \cup (IF lag > 0 THEN {"actuator-delay"} ELSE {})
      \cup (IF \E n \in DOMAIN groups.actor : heap[groups.actor[n]].delay > 0 THEN {"actor-delay"} ELSE {})
    = {pc}
=============================================================================
