------------------------ MODULE AchievementCurriculum ------------------------
(***************************************************************************)
(* AchievementCurriculumBridge in the trainer, the checkpoints of its      *)
(* runner, and the qualifier that answers it: three parties that share     *)
(* only the files of one run directory.                                    *)
(*                                                                         *)
(* The trainer may die between any two steps and be started again in the   *)
(* same directory, from any checkpoint it left there or from none.  The    *)
(* qualifier writes its report in place, whenever it is done.  A step is   *)
(* what happens between two accesses to a file.                            *)
(***************************************************************************)
EXTENDS AchievementState

CONSTANTS
  LastIteration,  \* the training ends after this iteration
  MaxLives,       \* bound on the trainer processes started in the directory
  Torn            \* the contents of a file whose writing has not ended

ASSUME RunAssumption ==
  /\ LastIteration \in Nat
  /\ MaxLives \in Nat
  /\ Checkpoints = 0 .. LastIteration
  /\ Weights = 1 .. MaxLives

VARIABLES
  \* The run directory.
  report,      \* curriculum/qualification.json
  request,     \* the stage in curriculum/qualification_request.json
  models,      \* model_<iteration>.pt
  copies,      \* curriculum/qualified_stage_<stage>_model_<iteration>.pt
  \* The trainer, with bridge.state in AchievementState.
  pc,          \* where the trainer is, "dead" between two lives
  life,        \* how many trainers were started
  iteration,   \* the iteration the trainer is at
  observed,    \* _last_observed_token
  evidence,    \* the report under consumption
  verdict,     \* _last_report, as "accepted" or "rejected"
  termStage,   \* current_stage of the disturbance term
  answered,    \* history: what this trainer rejected, saw replaced between its
               \* two reads of the file, or found when it started afresh
  \* The qualifier.
  qualifier,   \* "idle", "evaluating" or "writing"
  job,         \* the report it will write
  evaluations  \* how many evaluations were started

files == <<report, request, models, copies>>
memory == <<iteration, observed, evidence, verdict, termStage>>
qualifierVars == <<qualifier, job, evaluations>>
vars == <<state, files, pc, life, memory, answered, qualifierVars>>

\* What a saved checkpoint holds: the weights, which differ from one training
\* of an iteration to the next, and the snapshot of the curriculum.  A file
\* that is not whole cannot be loaded.
Models == [whole : BOOLEAN, weights : Weights, snapshot : AchievementStates]

Contents(model) == [whole |-> model.whole, weights |-> model.weights]

\* A file that is missing or unfinished is neither a report nor a checkpoint.
ASSUME FilesAssumption ==
  /\ Torn # None
  /\ Torn \notin Evidence
  /\ {None, Torn} \cap [whole : BOOLEAN, weights : Weights] = {}
  /\ None \notin Models

Locations ==
  {"dead", "attached", "loading", "restored", "boundary", "reading", "preserving",
   "copying", "decided", "logged", "saving", "saved"}

TypeOK ==
  /\ StateOK
  /\ report \in Evidence \cup {None, Torn}
  /\ request \in Stages \cup {None}
  /\ models \in [Checkpoints -> Models \cup {None}]
  /\ copies \in [Stages \X Checkpoints ->
                   [whole : BOOLEAN, weights : Weights] \cup {None, Torn}]
  /\ pc \in Locations
  /\ life \in 0 .. MaxLives
  /\ iteration \in Checkpoints
  /\ observed \in Evidence \cup {None, Torn}
  /\ evidence \in Evidence \cup {None}
  /\ verdict \in {None, "accepted", "rejected"}
  /\ termStage \in Stages
  /\ answered \subseteq Evidence \cup {None, Torn}
  /\ qualifier \in {"idle", "evaluating", "writing"}
  /\ job \in Evidence \cup {None}
  /\ evaluations \in 0 .. MaxReports

Init ==
  /\ state = InitialState
  /\ report = None
  /\ request = None
  /\ models = [n \in Checkpoints |-> None]
  /\ copies = [target \in Stages \X Checkpoints |-> None]
  /\ pc = "dead"
  /\ life = 0
  /\ iteration = 0
  /\ observed = None
  /\ evidence = None
  /\ verdict = None
  /\ termStage = 0
  /\ answered = {}
  /\ qualifier = "idle"
  /\ job = None
  /\ evaluations = 0

-----------------------------------------------------------------------------
(***************************************************************************)
(* A trainer starts in the run directory.                                  *)
(***************************************************************************)

\* The constructor of the bridge: a report that is already there is not new.
ExistingReportToken == report

Attach ==
  /\ pc = "dead"
  /\ life < MaxLives
  /\ life' = life + 1
  /\ observed' = ExistingReportToken
  /\ pc' = "attached"
  /\ UNCHANGED <<state, files, iteration, evidence, verdict, termStage, answered,
                 qualifierVars>>

\* The constructor publishes the state of the first stage, whatever a later
\* load restores.
PublishInitial ==
  /\ pc = "attached"
  /\ request' = state.current
  /\ pc' = "loading"
  /\ UNCHANGED <<state, report, models, copies, life, memory, answered, qualifierVars>>

\* Mutant: what was on disk before the restore never counts again.
RestoredToken_Kept(snapshot, token) == token

\* What the bridge remembers of the report it found: it is new again unless it
\* is the last one the snapshot counted.
RestoredToken(snapshot, token) ==
  IF token = snapshot.lastReport THEN token ELSE None

\* Mutant: the disturbance term stays at the first stage.
Restore_KeepsTermStage(n) ==
  /\ pc = "loading"
  /\ models[n] # None
  /\ models[n].whole
  /\ state' = models[n].snapshot
  /\ observed' = RestoredToken(models[n].snapshot, observed)
  /\ iteration' = n
  /\ pc' = "restored"
  /\ UNCHANGED <<files, life, evidence, verdict, termStage, answered, qualifierVars>>

\* runner.load for a full resume, and bridge.restore.
Restore(n) ==
  /\ pc = "loading"
  /\ models[n] # None
  /\ models[n].whole
  /\ state' = models[n].snapshot
  /\ observed' = RestoredToken(models[n].snapshot, observed)
  /\ termStage' = models[n].snapshot.current
  /\ iteration' = n
  /\ pc' = "restored"
  /\ UNCHANGED <<files, life, evidence, verdict, answered, qualifierVars>>

PublishRestored ==
  /\ pc = "restored"
  /\ request' = state.current
  /\ pc' = "boundary"
  /\ UNCHANGED <<state, report, models, copies, life, memory, answered, qualifierVars>>

\* A training from nothing.
StartAfresh ==
  /\ pc = "loading"
  /\ pc' = "boundary"
  /\ answered' = {observed}
  /\ UNCHANGED <<state, files, life, memory, qualifierVars>>

\* Everything in the trainer's memory is lost.
Forgotten ==
  /\ pc' = "dead"
  /\ state' = InitialState
  /\ iteration' = 0
  /\ observed' = None
  /\ evidence' = None
  /\ verdict' = None
  /\ termStage' = 0
  /\ answered' = {}

Crash ==
  /\ pc # "dead"
  /\ Forgotten
  /\ UNCHANGED <<files, life, qualifierVars>>

-----------------------------------------------------------------------------
(***************************************************************************)
(* _consume_report, at the boundary between two iterations.                *)
(***************************************************************************)

\* read_qualification_evidence, which reads the file once more.  A contract
\* differs only if the stage does, and a file that is not whole is no JSON.
Acceptable(r) ==
  /\ r \in Evidence
  /\ r.stage = state.current
  /\ models[r.checkpoint] # None
  /\ r.checkpoint <= iteration

\* The report is missing, or it is the one already looked at.
NothingNew ==
  /\ pc = "boundary"
  /\ report = None \/ report = observed
  /\ pc' = "logged"
  /\ UNCHANGED <<state, files, life, memory, answered, qualifierVars>>

\* The report is remembered as looked at before anything is known about it.
ReadToken ==
  /\ pc = "boundary"
  /\ report \notin {None, observed}
  /\ observed' = report
  /\ pc' = "reading"
  /\ UNCHANGED <<state, files, life, iteration, evidence, verdict, termStage, answered,
                 qualifierVars>>

\* The exception handler: a report that breaks the contract, or whose
\* checkpoint cannot be preserved.
Reject(r) ==
  /\ verdict' = "rejected"
  /\ answered' = answered \cup {r, observed}
  /\ pc' = "decided"
  /\ UNCHANGED <<state, termStage>>

\* The new state takes effect, also in the disturbance term.
Accept(newState, r) ==
  /\ state' = newState
  /\ termStage' = newState.current
  /\ verdict' = "accepted"
  /\ answered' = IF observed = r THEN answered ELSE answered \cup {observed}
  /\ pc' = "decided"

RejectReport ==
  /\ pc = "reading"
  /\ ~Acceptable(report)
  /\ Reject(report)
  /\ evidence' = IF report = Torn THEN None ELSE report
  /\ UNCHANGED <<files, life, iteration, observed, qualifierVars>>

\* The decision names a stage whose checkpoint has to be preserved.
QualifiesStage(r) == ~IsDuplicate(state, r) /\ Qualifies(state, r)

CountReport ==
  /\ pc = "reading"
  /\ Acceptable(report)
  /\ ~QualifiesStage(report)
  /\ Accept(ApplyQualification(state, report), report)
  /\ evidence' = report
  /\ UNCHANGED <<files, life, iteration, observed, qualifierVars>>

QualifyReport ==
  /\ pc = "reading"
  /\ Acceptable(report)
  /\ QualifiesStage(report)
  /\ evidence' = report
  /\ pc' = "preserving"
  /\ UNCHANGED <<state, files, life, iteration, observed, verdict, termStage, answered,
                 qualifierVars>>

-----------------------------------------------------------------------------
(***************************************************************************)
(* _preserve_checkpoint.  Nothing in the system removes a checkpoint, so   *)
(* the source is there.                                                    *)
(***************************************************************************)

Source == Contents(models[evidence.checkpoint])
Target == <<state.current, evidence.checkpoint>>

\* Mutant: only one of the two fields gets the preserved path.
WithPreservedPath_OneField(s, e) ==
  [ApplyQualification(s, e) EXCEPT
     !.qualified[s.current] = QualifiedPath(s.current, e.checkpoint)]

\* The decision with the preserved path in place of the evaluated one.
WithPreservedPath(s, e) ==
  LET path == QualifiedPath(s.current, e.checkpoint)
  IN  [ApplyQualification(s, e) EXCEPT
         !.qualified[s.current] = path,
         !.lastGood = path]

AlreadyPreserved ==
  /\ pc = "preserving"
  /\ copies[Target] = Source
  /\ Accept(WithPreservedPath(state, evidence), evidence)
  /\ UNCHANGED <<files, life, iteration, observed, evidence, qualifierVars>>

Collision ==
  /\ pc = "preserving"
  /\ copies[Target] \notin {None, Source}
  /\ Reject(evidence)
  /\ UNCHANGED <<files, life, iteration, observed, evidence, qualifierVars>>

\* Mutant: the copy is made without a look at what is there.
BeginCopy_Overwrites ==
  /\ pc = "preserving"
  /\ copies' = [copies EXCEPT ![Target] = Torn]
  /\ pc' = "copying"
  /\ UNCHANGED <<state, report, request, models, life, memory, answered, qualifierVars>>

\* shutil.copy2 writes the target in place.
BeginCopy ==
  /\ pc = "preserving"
  /\ copies[Target] = None
  /\ copies' = [copies EXCEPT ![Target] = Torn]
  /\ pc' = "copying"
  /\ UNCHANGED <<state, report, request, models, life, memory, answered, qualifierVars>>

EndCopy ==
  /\ pc = "copying"
  /\ copies' = [copies EXCEPT ![Target] = Source]
  /\ Accept(WithPreservedPath(state, evidence), evidence)
  /\ UNCHANGED <<report, request, models, life, iteration, observed, evidence,
                 qualifierVars>>

\* _publish_state, after either verdict.
PublishDecision ==
  /\ pc = "decided"
  /\ request' = state.current
  /\ evidence' = None
  /\ pc' = "logged"
  /\ UNCHANGED <<state, report, models, copies, life, iteration, observed, verdict,
                 termStage, answered, qualifierVars>>

-----------------------------------------------------------------------------
(***************************************************************************)
(* The rest of an iteration.  Which iterations save is the runner's        *)
(* configuration; the file is written in place.                            *)
(***************************************************************************)

BeginSave ==
  /\ pc = "logged"
  /\ models' = [models EXCEPT ![iteration] =
                  [whole |-> FALSE, weights |-> life, snapshot |-> state]]
  /\ pc' = "saving"
  /\ UNCHANGED <<state, report, request, copies, life, memory, answered, qualifierVars>>

EndSave ==
  /\ pc = "saving"
  /\ models' = [models EXCEPT ![iteration].whole = TRUE]
  /\ pc' = "saved"
  /\ UNCHANGED <<state, report, request, copies, life, memory, answered, qualifierVars>>

NextIteration ==
  /\ pc \in {"logged", "saved"}
  /\ iteration < LastIteration
  /\ iteration' = iteration + 1
  /\ pc' = "boundary"
  /\ UNCHANGED <<state, files, life, observed, evidence, verdict, termStage, answered,
                 qualifierVars>>

\* The training is over and the process exits.
Complete ==
  /\ pc \in {"logged", "saved"}
  /\ iteration = LastIteration
  /\ Forgotten
  /\ UNCHANGED <<files, life, qualifierVars>>

-----------------------------------------------------------------------------
(***************************************************************************)
(* The qualifier: qualify_checkpoints.py in achievement mode, on a         *)
(* checkpoint of the run and the stage the trainer asks for.               *)
(***************************************************************************)

Evaluate(n, seeds, eligible) ==
  /\ qualifier = "idle"
  /\ evaluations < MaxReports
  /\ request # None
  /\ models[n] # None
  /\ models[n].whole
  /\ job' = [stage |-> request, checkpoint |-> n, seeds |-> seeds,
             weights |-> models[n].weights, eligible |-> eligible]
  /\ qualifier' = "evaluating"
  /\ evaluations' = evaluations + 1
  /\ UNCHANGED <<state, files, pc, life, memory, answered>>

\* write_outputs writes the report in place.
BeginReport ==
  /\ qualifier = "evaluating"
  /\ report' = Torn
  /\ qualifier' = "writing"
  /\ UNCHANGED <<state, request, models, copies, pc, life, memory, answered, job,
                 evaluations>>

EndReport ==
  /\ qualifier = "writing"
  /\ report' = job
  /\ qualifier' = "idle"
  /\ job' = None
  /\ UNCHANGED <<state, request, models, copies, pc, life, memory, answered,
                 evaluations>>

QualifierDies ==
  /\ qualifier # "idle"
  /\ qualifier' = "idle"
  /\ job' = None
  /\ UNCHANGED <<state, files, pc, life, memory, answered, evaluations>>

-----------------------------------------------------------------------------
Next ==
  \/ Attach \/ PublishInitial \/ StartAfresh \/ PublishRestored \/ Crash
  \/ \E n \in Checkpoints : Restore(n)
  \/ NothingNew \/ ReadToken \/ RejectReport \/ CountReport \/ QualifyReport
  \/ AlreadyPreserved \/ Collision \/ BeginCopy \/ EndCopy \/ PublishDecision
  \/ BeginSave \/ EndSave \/ NextIteration \/ Complete
  \/ \E n \in Checkpoints, seeds \in SeedSets, eligible \in BOOLEAN :
       Evaluate(n, seeds, eligible)
  \/ BeginReport \/ EndReport \/ QualifierDies

Spec == Init /\ [][Next]_vars

-----------------------------------------------------------------------------
(***************************************************************************)
(* Properties.                                                             *)
(***************************************************************************)

\* The states that exist: the trainer's, and those a trainer can load.
Snapshots ==
  {state} \cup {models[n].snapshot : n \in {k \in Checkpoints : models[k] # None}}

\* In every life, and in every checkpoint a later life may start from, the
\* curriculum is the outcome of reports that were each counted once, and a
\* stage is passed only by its own run of passing reports.
StagesAreEarned == \A s \in Snapshots : IsEarned(s)

\* A qualified checkpoint that a state names is a finished copy made for that
\* stage: neither the trainer's state nor any saved one can name a file that
\* was not written, or that a crash left unfinished.
QualifiedFilesExist ==
  \A s \in Snapshots : \A stage \in Stages :
    s.qualified[stage] # None =>
      /\ s.qualified[stage].stage = stage
      /\ copies[<<stage, s.qualified[stage].checkpoint>>] \notin {None, Torn}

\* A finished copy keeps its contents for ever, through every later life that
\* passes the same stage with a checkpoint of the same name.
CopiesAreKept ==
  [][\A target \in Stages \X Checkpoints :
       copies[target] \notin {None, Torn} => copies'[target] = copies[target]]_copies

\* Between two boundaries the disturbance term and the published request are
\* at the stage of the curriculum, in particular after a restore, which runs
\* when both say the first stage.
StageIsAgreed ==
  pc \in {"boundary", "logged", "saving", "saved"} =>
    termStage = state.current /\ request = state.current

\* What the files and the disturbances hold is what the state says.
FilesFollowTheState == QualifiedFilesExist /\ StageIsAgreed

\* A report the trainer passes over as already seen is counted by its state,
\* or this very trainer answered it otherwise: a decision lost with a crash is
\* taken again from the report.
NothingIsDropped ==
  pc \in {"boundary", "logged"} /\ report = observed /\ report \in Evidence =>
    \/ IsDuplicate(state, report)
    \/ report \in answered

\* What docs/difficulty.md says of the copies: the exact checkpoint that passed
\* the stage is retained.  The report names its checkpoint by path only, and a
\* trainer resumed in the directory saves that path again (violated).
ExactCheckpointIsRetained ==
  \A stage \in Stages : state.qualified[stage] # None =>
    \E i \in 1 .. Len(state.processed) :
      /\ state.processed[i].stage = stage
      /\ state.processed[i].checkpoint = state.qualified[stage].checkpoint
      /\ state.processed[i].weights =
           copies[<<stage, state.qualified[stage].checkpoint>>].weights

\* What docs/difficulty.md says of a resume: a report that the restored
\* checkpoint has not counted is replayed, so that its decision is not lost.  A
\* crash in the middle of preserving leaves a file that the replay takes for
\* another checkpoint's, and the report is refused (violated).
ReplayIsAccepted ==
  pc = "decided" /\ verdict = "rejected" /\ evidence # None => ~Acceptable(evidence)

=============================================================================
