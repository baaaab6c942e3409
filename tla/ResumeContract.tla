---------------------------- MODULE ResumeContract ----------------------------
(***************************************************************************)
(* Checkpoints and the contracts they carry (rl/runner.py,                 *)
(* rl/effective_training_manifest.py, rl/controller_provenance.py): every  *)
(* process builds a manifest of its effective configuration and of the     *)
(* packages it runs on, and records the controller's files; a checkpoint   *)
(* embeds both and is loaded later by a process that may run other code,   *)
(* other packages and another configuration.  The code is at version 0, at *)
(* 1 after the source tree moved, at 2 after a term gained a field and the *)
(* impulse curricula lost an unused default, at 3 after a reward and at 4  *)
(* after an observation lost a parameter as well.  The version of the      *)
(* manifest's own schema never changes.                                    *)
(***************************************************************************)
EXTENDS Integers, Sequences, FiniteSets

CONSTANTS Joints,        \* joints that may have a residual scale of their own
          LastStep,          \* the last global step
          Switch,        \* the step from which the curriculum applies its late stage
          MaxEdits,      \* edits of the code, the configuration and the files
          EditableKeys   \* the keys of the configuration that are edited

\* What is assumed of the constants.
ResumeAssumption ==
  /\ IsFiniteSet(Joints) /\ LastStep \in Nat /\ Switch \in 1..LastStep /\ MaxEdits \in Nat
  /\ EditableKeys \subseteq {"func", "gain", "initial_stage", "order", "workers", "scale"}

VARIABLES
  code, config, files,      \* on disk: the version, the configuration, the controller's files
  runtime,                  \* the installed packages and Python
  edits,
  running,                  \* the process: its records and what it was started from, or <<>>
  counter, stage,           \* common_step_counter and the stage whose targets are applied
  checkpoint,               \* the last checkpoint, or <<>>
  outcome                   \* of the last load: <<>>, or its kind and verdict

vars == <<code, config, files, runtime, edits, running, counter, stage, checkpoint, outcome>>

Stage(step) == IF step >= Switch THEN 1 ELSE 0

\* func is a term's callable, gain one of its parameters, initial_stage an
\* optional parameter it has a default for, scale the residual scales by joint.
Initial == [func |-> "track", gain |-> 1, initial_stage |-> "default", order |-> <<"a", "b">>,
            workers |-> 1, scale |-> [j \in {"all"} |-> 1]]

\* A checkpoint that predates both records.
Legacy == [manifest |-> <<>>, provenance |-> -1, counter |-> Switch,
           config |-> Initial, code |-> 0, runtime |-> 0]

Init == /\ code = 0 /\ config = Initial /\ files = 0 /\ runtime = 0 /\ edits = 0
        /\ running = <<>> /\ counter = 0 /\ stage = 0 /\ outcome = <<>>
        /\ checkpoint \in {<<>>, Legacy}
-----------------------------------------------------------------------------
Module(version) == IF version = 0 THEN "tasks.mdp" ELSE "mdp.rewards"

\* A callable is recorded by its module and name.
QualifiedName(version, func) == <<Module(version), func>>

\* rename_legacy_modules.
Renamed(name) == IF name[1] = "tasks.mdp" THEN <<"mdp.rewards", name[2]>> ELSE name

\* What the interface of the actor consists of; a full resume compares everything.
Interface == {"func", "order", "scale", "outputs", "clip"}

\* The keys of a manifest: slack and clip stand for a parameter of a reward and of an
\* observation, recorded as long as the callable has it.
Fields(version, cfg) ==
  {"func", "gain", "order", "scale", "runtime"}
    \cup {k \in {"initial_stage"} : version < 2 \/ cfg.initial_stage # "default"}
    \cup {k \in {"outputs"} : version >= 2}
    \cup {k \in {"slack"} : version < 3} \cup {k \in {"clip"} : version < 4}

\* build_effective_training_manifest, without the operational keys and the source digests.
Manifest(version, cfg, installed) ==
  [k \in Fields(version, cfg) |->
     CASE k = "func" -> QualifiedName(version, cfg.func)
       [] k = "runtime" -> installed
       [] k \in {"outputs", "slack", "clip"} -> 1
       [] OTHER -> cfg[k]]

\* Mutant: the names of a checkpoint are compared as it wrote them.
Migrated_NoRename(manifest) ==
  [k \in {f \in DOMAIN manifest : f = "initial_stage" => manifest[f] # "default"} |-> manifest[k]]

\* The migrations: renamed modules, and the defaults of the impulse curricula, which are
\* the only parameters whose loss is forgiven.
Migrated(manifest) ==
  [k \in {f \in DOMAIN manifest : f = "initial_stage" => manifest[f] # "default"} |->
     IF k = "func" THEN Renamed(manifest[k]) ELSE manifest[k]]

\* A contract without the paths that only the active side has, at every depth of the tree.
Restricted(one, saved) ==
  [k \in DOMAIN one \cap DOMAIN saved |->
     IF k = "scale" THEN [j \in DOMAIN one[k] \cap DOMAIN saved[k] |-> one[k][j]] ELSE one[k]]

Payload(manifest, full) ==
  [k \in {f \in DOMAIN manifest : full \/ f \in Interface} |-> manifest[k]]

\* validate_effective_training_manifest.
Compatible(saved, active, full) ==
  LET s == Payload(Migrated(saved), full)
      a == Payload(Migrated(active), full)
  IN  s = Restricted(a, s)
-----------------------------------------------------------------------------
\* A process starts: MjlabOnPolicyRunner and the runner's own constructor.
Start ==
  /\ running = <<>>
  /\ running' = [manifest |-> Manifest(code, config, runtime), provenance |-> files,
                 config |-> config, code |-> code, runtime |-> runtime]
  /\ counter' = 0 /\ stage' = 0 /\ outcome' = <<>>
  /\ UNCHANGED <<code, config, files, runtime, edits, checkpoint>>

\* Training goes on; a reset applies the stage of the step.
Train ==
  /\ running # <<>> /\ counter < LastStep /\ outcome \in {<<>>, <<"full", TRUE>>}
  /\ counter' = counter + 1 /\ stage' \in {stage, Stage(counter')}
  /\ outcome' = <<>>
  /\ UNCHANGED <<code, config, files, runtime, edits, running, checkpoint>>

Save ==
  /\ running # <<>> /\ outcome \in {<<>>, <<"full", TRUE>>}
  /\ checkpoint' = [manifest |-> running.manifest, provenance |-> running.provenance,
                    counter |-> counter, config |-> running.config,
                    code |-> running.code, runtime |-> running.runtime]
  /\ UNCHANGED <<code, config, files, runtime, edits, running, counter, stage, outcome>>

\* synchronize_resumed_curriculum: the curricula are applied at the restored counter.
Synchronized(saved) == Stage(saved.counter)

\* provenance_signature of both.
SameController == checkpoint.provenance \in {-1, running.provenance}

SameContract(full) ==
  checkpoint.manifest = <<>> \/ Compatible(checkpoint.manifest, running.manifest, full)

\* load: a full resume, or the actor alone for an evaluation.  The base class restores
\* the counter before anything is compared.
Load(full) ==
  LET accepted == SameController /\ SameContract(full)
  IN  /\ running # <<>> /\ checkpoint # <<>> /\ counter = 0 /\ outcome = <<>>
      /\ outcome' = <<IF full THEN "full" ELSE "actor", accepted>>
      /\ counter' = checkpoint.counter
      /\ stage' = IF accepted /\ full THEN Synchronized(checkpoint) ELSE stage
      /\ UNCHANGED <<code, config, files, runtime, edits, running, checkpoint>>

LoadFull == Load(TRUE)
LoadActor == Load(FALSE)

Exit == /\ running # <<>> /\ running' = <<>> /\ outcome' = <<>>
        /\ UNCHANGED <<code, config, files, runtime, edits, counter, stage, checkpoint>>

Edit == edits < MaxEdits /\ edits' = edits + 1
        /\ UNCHANGED <<running, counter, stage, checkpoint, outcome>>

\* An upgrade of the checkout, by any number of versions.
Upgrade == Edit /\ code' \in (code + 1)..4 /\ UNCHANGED <<config, files, runtime>>

\* Another version of Python or of a package, this one included.
Reinstall == Edit /\ runtime' = 1 - runtime /\ UNCHANGED <<code, config, files>>

EditController == Edit /\ files' = 1 - files /\ UNCHANGED <<code, config, runtime>>

Scales == UNION {[D -> 1..2] : D \in {{"all"} \cup J : J \in SUBSET Joints}}

\* Any one key of the configuration.
EditConfig ==
  /\ Edit /\ UNCHANGED <<code, files, runtime>>
  /\ \/ "func" \in EditableKeys /\ config' = [config EXCEPT !.func = "other"]
     \/ "gain" \in EditableKeys /\ config' = [config EXCEPT !.gain = 2]
     \/ "initial_stage" \in EditableKeys /\ config' = [config EXCEPT !.initial_stage = "explicit"]
     \/ "order" \in EditableKeys /\ config' = [config EXCEPT !.order = <<"b", "a">>]
     \/ "workers" \in EditableKeys /\ config' = [config EXCEPT !.workers = 2]
     \/ "scale" \in EditableKeys /\ \E scale \in Scales : config' = [config EXCEPT !.scale = scale]

Next == \/ Start \/ Train \/ Save \/ LoadFull \/ LoadActor \/ Exit
        \/ Upgrade \/ Reinstall \/ EditController \/ EditConfig

Spec == Init /\ [][Next]_vars
-----------------------------------------------------------------------------
TypeOK ==
  /\ code \in 0..4 /\ files \in 0..1 /\ runtime \in 0..1 /\ edits \in 0..MaxEdits
  /\ counter \in 0..LastStep /\ stage \in 0..1
  /\ checkpoint # <<>> => checkpoint.counter \in 0..LastStep
  /\ outcome = <<>> \/ outcome \in {"full", "actor"} \X BOOLEAN

\* What a configuration trains on: all of it but the operational keys.
Semantics(cfg) == <<cfg.func, cfg.gain, cfg.initial_stage, cfg.order, cfg.scale>>

\* The running code still has the parameter that code lost at this version, if the
\* checkpoint recorded it.
Keeps(version) == checkpoint.code < version => running.code < version

\* What an actor needs of the process that loads it: the controller, the observations with
\* their order and parameters, and every residual scale that was recorded.
SameInterface ==
  LET saved == checkpoint.config
      active == running.config
  IN  /\ checkpoint.provenance = running.provenance
      /\ saved.func = active.func /\ saved.order = active.order /\ Keeps(4)
      /\ \A j \in DOMAIN saved.scale : j \in DOMAIN active.scale /\ active.scale[j] = saved.scale[j]

\* docs/evaluation.md#source_drift and #_RENAMED_MODULES: a load is refused for another
\* controller, another configuration, other packages (a full resume only) or a parameter
\* the code has lost.  A moved module, an unused impulse default that is gone, a new
\* field or an operational setting strands no checkpoint.
RefusalsAreEarned ==
  outcome \in {<<"full", FALSE>>, <<"actor", FALSE>>} =>
    \/ checkpoint.provenance # running.provenance
    \/ Semantics(checkpoint.config) # Semantics(running.config)
    \/ ~Keeps(4)
    \/ outcome[1] = "full" /\ (checkpoint.runtime # running.runtime \/ ~Keeps(3))

\* Exactly the changes to what a checkpoint recorded reject a full resume: the packages, a
\* value, an order and a parameter that is gone.  One that is accepted trains on with
\* every term, parameter, order and scale the checkpoint recorded.
FullResumesCompareEverything ==
  outcome \in {"full"} \X BOOLEAN /\ checkpoint.manifest # <<>> =>
    (outcome[2] <=>
       /\ SameInterface /\ checkpoint.runtime = running.runtime /\ Keeps(3)
       /\ checkpoint.config.gain = running.config.gain
       /\ checkpoint.config.initial_stage \in {"default", running.config.initial_stage})

\* effective_training_manifest.py: "Reject [...] semantically changed full resumes", those
\* that only gain an explicit parameter or the scale of a single joint included
\* (violated).
ResumesAreUnchanged ==
  outcome = <<"full", TRUE>> /\ checkpoint.manifest # <<>> => Semantics(checkpoint.config) = Semantics(running.config)

\* docs/evaluation.md: an evaluation may differ from the training in all but the actor's
\* interface, and loads the same checkpoints whatever the rewards and the packages are.
ActorLoadsCompareTheInterface ==
  outcome \in {"actor"} \X BOOLEAN /\ checkpoint.manifest # <<>> => (outcome[2] <=> SameInterface)

\* test_effective_training_manifest.py: a restored counter selects its stage before the
\* first step is taken, not at the next reset.
ResumeAlignsTheCurriculum ==
  outcome = <<"full", TRUE>> => counter = checkpoint.counter /\ stage = Stage(counter)
=============================================================================
