------------------------------ MODULE FixedCohort ------------------------------
(***************************************************************************)
(* scripts/compare_to_baseline.py: two halves of one batch of environments *)
(* step together until the deadline, one under the policy and one under    *)
(* the zero residual, and the report compares a fixed cohort of episodes   *)
(* of every environment.  evaluation/rollout.py recycles the environments  *)
(* and closes the controllers.  Each step earns one unit of reward, so a   *)
(* sum of rewards names the steps it was taken over.                       *)
(***************************************************************************)
EXTENDS Integers, Sequences, FiniteSets, FiniteSetsExt, SequencesExt

CONSTANTS NumEnvs, Skips,    \* the values of skip_steps
          Cap,               \* the episode length cap
          MaxSteps,          \* steps before the deadline, at most
          Terms              \* the controller action terms of the environment, in order

\* What is assumed of the constants.
CohortAssumption ==
  /\ NumEnvs \in Nat \ {0, 1} /\ Skips \subseteq Nat
  /\ {Cap, MaxSteps} \subseteq Nat \ {0} /\ Terms \in Seq(STRING \ {"env"})

Envs == 0..NumEnvs - 1
PolicyIds == NumEnvs \div 2..NumEnvs - 1
ArmIds == {Envs \ PolicyIds, PolicyIds}

VARIABLES
  skip,                   \* skip_steps of this comparison
  length, sums, frames,   \* episode_length_buf, _episode_sums, frames in the history
  skipSums, counter,      \* skip_sums and counter of _run_both
  episodes,               \* the ComparisonEpisodes of both arms
  steps,
  cleanup, closed,        \* the ExitStack of managed_env and what it has closed
  failed, pc, report

vars == <<skip, length, sums, frames, skipSums, counter, episodes, steps, cleanup, closed, failed,
          pc, report>>

Zero == [e \in Envs |-> 0]

Init ==
  /\ skip \in Skips
  /\ length = Zero /\ sums = Zero /\ frames = Zero /\ skipSums = Zero /\ counter = Zero
  /\ episodes = {} /\ steps = 0
  /\ cleanup = <<"env">> \o Terms /\ closed = <<>>
  /\ failed = FALSE /\ pc = "run" /\ report = {}
-----------------------------------------------------------------------------
\* The sums at the step where an environment crosses the skipped window.
Captured == [e \in Envs |-> IF skip > 0 /\ length[e] + 1 = skip THEN sums[e] + 1 ELSE skipSums[e]]

Scored(done) == {e \in done : length[e] + 1 > skip}

\* episode_snapshot: the buffers are copied before the reset.
Snapshot(e) == [length |-> length[e] + 1, reward |-> sums[e] + 1]

Episode(e) == [env |-> e, nth |-> counter[e], length |-> Snapshot(e).length - skip,
               reward |-> Snapshot(e).reward - Captured[e]]

\* reset_done restarts the finished environments and leaves the others' history alone.
ResetDone(done) ==
  /\ length' = [e \in Envs |-> IF e \in done THEN 0 ELSE length[e] + 1]
  /\ sums' = [e \in Envs |-> IF e \in done THEN 0 ELSE sums[e] + 1]
  /\ frames' = [e \in Envs |-> IF e \in done THEN 0 ELSE frames[e] + 1]

\* One step of the batch: any environment may end its episode, one at the cap does.
Step ==
  /\ pc = "run" /\ steps < MaxSteps /\ steps' = steps + 1
  /\ \E done \in {d \in SUBSET Envs : \A e \in Envs : length[e] + 1 = Cap => e \in d} :
       /\ episodes' = episodes \cup {Episode(e) : e \in Scored(done)}
       /\ counter' = [e \in Envs |-> IF e \in done THEN counter[e] + 1 ELSE counter[e]]
       /\ skipSums' = [e \in Envs |-> IF e \in done THEN 0 ELSE Captured[e]]
       /\ ResetDone(done)
  /\ UNCHANGED <<skip, cleanup, closed, failed, pc, report>>

\* The deadline passes, or loading or stepping raises.
Leave ==
  /\ pc = "run" /\ pc' = "close" /\ failed' \in BOOLEAN
  /\ UNCHANGED <<skip, length, sums, frames, skipSums, counter, episodes, steps, cleanup, closed,
                 report>>

\* The ExitStack unwinds from its last callback; one that raises does not stop it.
Close ==
  /\ pc = "close" /\ cleanup # <<>>
  /\ cleanup' = Front(cleanup) /\ closed' = Append(closed, Last(cleanup))
  /\ failed' \in {failed, TRUE}
  /\ UNCHANGED <<skip, length, sums, frames, skipSums, counter, episodes, steps, pc, report>>

Propagate ==
  /\ pc = "close" /\ cleanup = <<>> /\ failed /\ pc' = "raised"
  /\ UNCHANGED <<skip, length, sums, frames, skipSums, counter, episodes, steps, cleanup, closed,
                 failed, report>>

\* Mutant: over the environments that finished.
FewestOf_Finished(ids) ==
  Min({MaxSteps} \cup {Max({x.nth : x \in {y \in episodes : y.env = e}}) :
         e \in {i \in ids : \E y \in episodes : y.env = i}}) + 1

\* K is set by the environment that finished fewest, over every environment of the arm.
FewestOf(ids) ==
  Min({Max({-1} \cup {x.nth : x \in {y \in episodes : y.env = e}}) : e \in ids}) + 1

Trimmed(ids) == {x \in episodes : x.env \in ids /\ x.nth < FewestOf(ids)}

\* The report is written only when both arms have episodes left.
Report ==
  /\ pc = "close" /\ cleanup = <<>> /\ ~failed /\ pc' = "end"
  /\ report' = IF \E ids \in ArmIds : Trimmed(ids) = {} THEN {}
               ELSE UNION {Trimmed(ids) : ids \in ArmIds}
  /\ UNCHANGED <<skip, length, sums, frames, skipSums, counter, episodes, steps, cleanup, closed,
                 failed>>

Next == Step \/ Leave \/ Close \/ Propagate \/ Report

Spec == Init /\ [][Next]_vars
-----------------------------------------------------------------------------
TypeOK ==
  /\ {length, sums, frames, skipSums} \subseteq [Envs -> 0..Cap]
  /\ counter \in [Envs -> 0..MaxSteps] /\ steps \in 0..MaxSteps
  /\ \A x \in episodes : x.env \in Envs /\ x.nth \in Nat /\ x.length \in 1..Cap
  /\ report \subseteq episodes /\ failed \in BOOLEAN
  /\ pc \in {"run", "close", "raised", "end"}

NthReported(e) == {x.nth : x \in {y \in report : y.env = e}}

\* comparison.py: the report takes the first K episodes of every environment, so that
\* the selection never looks at how long an episode lasted (docs/evaluation.md).  With a
\* skipped window an episode that ends inside it leaves a gap.
FirstKOfEveryEnv ==
  report # {} /\ skip = 0 => \A ids \in ArmIds :
    LET K == Min({counter[e] : e \in ids}) IN \A e \in ids : NthReported(e) = 0..K - 1

\* docs/evaluation.md: an environment still inside its first episode at the deadline is a
\* survivor; a report without it would compare the fallers alone.
SurvivorsAreWaitedFor ==
  report # {} => \A e \in Envs : \E x \in episodes : x.env = e

\* docs/evaluation.md: the rewards of an episode are those of the steps behind the skipped
\* window, one for each step its length counts, and of no earlier episode.
RewardsAreTheWindows == \A x \in episodes : x.reward = x.length

\* docs/evaluation.md: between two steps an environment's history grows by one frame,
\* whichever of the others were recycled in between.
HistoryIsOneFramePerStep == frames = length

\* rollout.py: every controller is closed before its environment is, also when the
\* evaluation or another close failed.
ControllersCloseFirst ==
  /\ "env" \in Range(closed) => Range(Terms) \subseteq Range(closed)
  /\ pc \in {"raised", "end"} => "env" \in Range(closed)
=============================================================================
