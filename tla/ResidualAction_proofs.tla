------------------------- MODULE ResidualAction_proofs -------------------------
(***************************************************************************)
(* The residual action term for every pool, every control period and every *)
(* environment step.                                                       *)
(***************************************************************************)
EXTENDS ResidualAction, RuntimeLemmas

USE ActionAssumption, PoolAssumption

-----------------------------------------------------------------------------
(***************************************************************************)
(* The inductive invariant.                                                *)
(***************************************************************************)

\* A controller that is missing, or was last reset in an earlier episode.
NeedsReset(r) == inst[r] = "fresh" \/ native[r] = "stale"

\* Nothing is dispatched between a collect and the code it makes room for,
\* and without a dispatch no slice is working or unaccounted for.
Quiet ==
  /\ pc \in {"advance", "reset"} => ~ pendingDispatch
  /\ ~ pendingDispatch => \A w \in Worker : slice[w] \notin {"Asked", "Lost"}

\* While a Step is outstanding the reset column is the pending resets, and a
\* row that was not executed still carries the poison of the dispatch.
Dispatched ==
  pendingDispatch =>
    /\ dispatchResets = pendingReset
    /\ hasStaged = {}
    /\ \A r \in Row \ solved : status[r] = "WORKER_FAILED"

\* What the status of a row executed since the dispatch says of it.
Executed ==
  pendingDispatch =>
    \A r \in solved :
      /\ status[r] = "OK" => inst[r] = "running" /\ output[r] = "current"
      /\ status[r] # "WORKER_FAILED" => inst[r] # "fresh" /\ native[r] = "current"

\* A row awaiting its reset has it queued, unless the outstanding Step may
\* have performed it.
Queued ==
  \A r \in Row :
    (~ pendingDispatch \/ r \notin solved) /\ NeedsReset(r) => r \in pendingReset

\* Rows are executed only by a worker that is still being waited for.
ExecutedByAsked ==
  open /\ pendingDispatch =>
    \A w \in Worker : RowsOf[w] \cap solved # {} => slice[w] = "Asked"

NativeHasEpisode == \A r \in Row : native[r] # "seed"

\* The inductive invariant, beside the types.
ActionInv ==
  /\ Quiet
  /\ Dispatched
  /\ Executed
  /\ Queued
  /\ ExecutedByAsked
  /\ NativeHasEpisode
  /\ NoStaleTarget
  /\ StagedWasServed

-----------------------------------------------------------------------------
(***************************************************************************)
(* Type correctness.                                                       *)
(***************************************************************************)

\* A function with some rows replaced is still a function on the rows.
LEMMA Override ==
  ASSUME NEW S, NEW f \in [Row -> S], NEW g \in [Row -> S], NEW rows
  PROVE  [r \in Row |-> IF r \in rows THEN g[r] ELSE f[r]] \in [Row -> S]
OBVIOUS

\* Dropping an episode turns what it computed stale, and nothing else.
LEMMA StaleType ==
  ASSUME NEW f \in [Row -> Origin], NEW rows
  PROVE  Stale(f, rows) \in [Row -> Origin]
BY DEF Stale, Origin

\* The pool's steps keep the pool's types.
LEMMA PoolTypes ==
  ASSUME PoolTypeOK
  PROVE  /\ \A asked, lost \in SUBSET Worker : Ask(asked, lost) => PoolTypeOK'
         /\ \A answered, lost, down \in SUBSET Worker :
              Harvest(answered, lost, down) => PoolTypeOK'
         /\ \A rows \in SUBSET Row, back \in SUBSET Worker :
              Replace(rows, back) => PoolTypeOK'
         /\ Shut => PoolTypeOK'
<1>1. ASSUME NEW asked \in SUBSET Worker, NEW lost \in SUBSET Worker, Ask(asked, lost)
      PROVE  PoolTypeOK'
  BY <1>1 DEF Ask, PoolTypeOK, SlicePhase
<1>2. ASSUME NEW answered \in SUBSET Worker, NEW lost \in SUBSET Worker,
             NEW down \in SUBSET Worker, Harvest(answered, lost, down)
      PROVE  PoolTypeOK'
  BY <1>2 DEF Harvest, PoolTypeOK, SlicePhase
<1>3. ASSUME NEW rows \in SUBSET Row, NEW back \in SUBSET Worker, Replace(rows, back)
      PROVE  PoolTypeOK'
  <2>1. CoveredAfter(rows) \in [Worker -> SUBSET Row]
    BY DEF CoveredAfter, PoolTypeOK
  <2> QED BY <1>3, <2>1 DEF Replace, PoolTypeOK, SlicePhase
<1>4. ASSUME Shut PROVE PoolTypeOK'
  <2>1. open' \in BOOLEAN
    BY <1>4, Zenon DEF Shut
  <2> QED BY <1>4, <2>1 DEF Shut, PoolTypeOK, SlicePhase
<1> QED BY <1>1, <1>2, <1>3, <1>4

\* A collect keeps the types of what it touches.
LEMMA CollectTypes ==
  ASSUME TypeOK, NEW answered \in SUBSET Worker, NEW down \in SUBSET Worker,
         Collect(answered, down)
  PROVE  /\ PoolTypeOK'
         /\ pendingDispatch' \in BOOLEAN
         /\ pendingReset' \in SUBSET Row /\ dispatchResets' \in SUBSET Row
         /\ inst' \in [Row -> InstanceStates] /\ native' \in [Row -> Origin]
         /\ solved' \in SUBSET Row
         /\ status' \in [Row -> RowStatuses] /\ output' \in [Row -> Origin]
         /\ hasStaged' \in SUBSET Row /\ staged' \in [Row -> Origin]
         /\ previous' \in [Row -> Origin] /\ next' \in [Row -> Origin]
         /\ readout' \in [Row -> Origin] /\ readoutFresh' \in SUBSET Row
         /\ controllerFailed' \in SUBSET Row /\ workerFailed' \in SUBSET Row
<1> DEFINE failed == RowsOfAll(down)
           final == FinalStatus(failed)
           ok == {r \in Row : final[r] = "OK"}
           lost == {r \in Row : final[r] = "WORKER_FAILED"}
<1>1. PoolTypeOK'
  <2>1. Harvest(answered, {}, down)
    BY DEF Collect
  <2> QED BY <2>1, PoolTypes DEF TypeOK
<1>2. final \in [Row -> RowStatuses]
  BY DEF TypeOK, FinalStatus, RowStatuses
<1>3. ok \in SUBSET Row /\ lost \in SUBSET Row
  OBVIOUS
<1>4. /\ inst' = [r \in Row |-> IF r \in failed THEN "fresh" ELSE inst[r]]
      /\ native' = [r \in Row |-> IF r \in failed THEN "stale" ELSE native[r]]
      /\ pendingDispatch' = FALSE
      /\ status' = final
      /\ pendingReset' = PendingAfter(lost)
      /\ controllerFailed' = controllerFailed \cup {r \in Row : final[r] = "QP_FAILED"}
      /\ workerFailed' = WorkerFailedAfter(lost)
      /\ hasStaged' = ok
      /\ staged' = [r \in Row |-> IF r \in ok THEN output[r] ELSE staged[r]]
      /\ readoutFresh' = ok
      /\ readout' = [r \in Row |-> IF r \in ok THEN output[r] ELSE readout[r]]
      /\ UNCHANGED <<dispatchResets, solved, output, previous, next>>
  BY DEF Collect
<1> HIDE DEF failed, final, ok, lost
<1>5. pendingDispatch' \in BOOLEAN
  BY <1>4, Zenon
<1>6. inst' \in [Row -> InstanceStates] /\ native' \in [Row -> Origin]
  BY <1>4 DEF TypeOK, InstanceStates, Origin
<1>7. /\ pendingReset' \in SUBSET Row /\ workerFailed' \in SUBSET Row
      /\ controllerFailed' \in SUBSET Row
  BY <1>3, <1>4 DEF TypeOK, PendingAfter, WorkerFailedAfter
<1>8. staged' \in [Row -> Origin] /\ readout' \in [Row -> Origin]
  BY <1>4 DEF TypeOK
<1> QED BY <1>1, <1>2, <1>3, <1>4, <1>5, <1>6, <1>7, <1>8 DEF TypeOK

\* The counter of substeps never reaches the end of the environment step.
LEMMA SubstepType ==
  ASSUME TypeOK, AfterSubstep
  PROVE  substep' \in 0 .. (Decimation - 1) /\ pc' \in Places
BY DEF TypeOK, AfterSubstep, Places

\* So does collecting when there may be nothing to collect.
LEMMA CollectOutputTypes ==
  ASSUME TypeOK, CollectOutput, pc' \in Places,
         substep' \in 0 .. (Decimation - 1), ending' \in SUBSET Row
  PROVE  TypeOK'
<1>1. CASE \E answered, down \in SUBSET Worker : Collect(answered, down)
  BY <1>1, CollectTypes DEF TypeOK
<1>2. CASE UNCHANGED <<poolVars, handshakeVars, blockVars, rampVars, latchVars>>
  BY <1>2 DEF TypeOK, PoolTypeOK, poolVars, handshakeVars, blockVars, rampVars, latchVars
<1> QED BY <1>1, <1>2 DEF CollectOutput

\* The action's state has its type, whatever the pool and the periods are.
THEOREM TypeCorrect == Spec => []TypeOK
<1>1. Init => TypeOK
  <2> SUFFICES ASSUME Init PROVE TypeOK
    OBVIOUS
  <2>1. open \in BOOLEAN /\ pendingDispatch \in BOOLEAN
    BY Zenon DEF Init
  <2>2. substep \in 0 .. (Decimation - 1)
    BY DEF Init
  <2> QED BY <2>1, <2>2 DEF Init, NoFailures, TypeOK, PoolTypeOK, SlicePhase, Places, Origin,
                            InstanceStates, RowStatuses
<1>2. TypeOK /\ [Next]_vars => TypeOK'
  <2> SUFFICES ASSUME TypeOK, [Next]_vars PROVE TypeOK'
    OBVIOUS
  <2>1. CASE StartPeriod
    BY <2>1, CollectOutputTypes DEF StartPeriod, TypeOK, Places
  <2>2. CASE Advance
    <3>1. PoolTypeOK'
      <4>1. PICK lost \in SUBSET InPhase("Idle") : Ask(InPhase("Idle") \ lost, lost)
        BY <2>2 DEF Advance
      <4>2. InPhase("Idle") \ lost \in SUBSET Worker /\ lost \in SUBSET Worker
        BY DEF InPhase
      <4> QED BY <4>1, <4>2, PoolTypes DEF TypeOK
    <3>2. pendingDispatch' \in BOOLEAN
      BY <2>2, Zenon DEF Advance
    <3>3. substep' \in 0 .. (Decimation - 1) /\ pc' \in Places
      BY <2>2, SubstepType DEF Advance
    <3>4. status' \in [Row -> RowStatuses]
      BY <2>2 DEF Advance, RowStatuses
    <3>5. previous' \in [Row -> Origin] /\ next' \in [Row -> Origin]
      BY <2>2 DEF Advance, TypeOK
    <3> QED BY <2>2, <3>1, <3>2, <3>3, <3>4, <3>5 DEF Advance, TypeOK, latchVars
  <2>3. CASE Interpolate
    <3>1. substep' \in 0 .. (Decimation - 1) /\ pc' \in Places
      BY <2>3, SubstepType DEF Interpolate
    <3> QED BY <2>3, <3>1 DEF Interpolate, TypeOK, PoolTypeOK, poolVars,
              handshakeVars, blockVars, rampVars, latchVars
  <2>4. CASE NoEpisodeEnds
    BY <2>4 DEF NoEpisodeEnds, TypeOK, PoolTypeOK, Places, poolVars,
                handshakeVars, blockVars, rampVars, latchVars
  <2>5. ASSUME NEW rows \in SUBSET Row, BeginReset(rows) PROVE TypeOK'
    BY <2>5, CollectOutputTypes DEF BeginReset, TypeOK, Places
  <2>6. CASE FinishReset
    <3>1. PoolTypeOK'
      <4>1. ending \in SUBSET Row /\ Replaceable(ending) \in SUBSET Worker
        BY DEF TypeOK, Replaceable, InPhase
      <4> QED BY <2>6, <4>1, PoolTypes DEF FinishReset, TypeOK
    <3>2. /\ staged' \in [Row -> Origin] /\ native' \in [Row -> Origin]
          /\ output' \in [Row -> Origin]
      BY <2>6, StaleType DEF FinishReset, TypeOK
    <3>3. /\ previous' \in [Row -> Origin] /\ next' \in [Row -> Origin]
          /\ readout' \in [Row -> Origin]
      BY <2>6 DEF FinishReset, TypeOK, Origin
    <3>4. /\ pendingReset' \in SUBSET Row /\ hasStaged' \in SUBSET Row
          /\ readoutFresh' \in SUBSET Row /\ controllerFailed' \in SUBSET Row
          /\ workerFailed' \in SUBSET Row /\ ending' \in SUBSET Row
          /\ pc' \in Places
      BY <2>6 DEF FinishReset, StagedAfterReset, TypeOK, Places
    <3> QED BY <2>6, <3>1, <3>2, <3>3, <3>4 DEF FinishReset, TypeOK
  <2>7. ASSUME NEW r \in Row, SolveRow(r) PROVE TypeOK'
    <3>1. PICK o \in RequestedStepOutcomes(inst[r], r \in dispatchResets) :
            LET origin == IF r \in dispatchResets THEN "current" ELSE native[r] IN
            /\ inst' = [inst EXCEPT ![r] = InstanceAfter(o)]
            /\ native' = [native EXCEPT ![r] = IF o.threw THEN "stale" ELSE origin]
            /\ status' = [status EXCEPT ![r] = o.status]
            /\ output' = [output EXCEPT ![r] = IF o.wrote THEN origin ELSE @]
      BY <2>7, Zenon DEF SolveRow
    <3>2. Plausible(o)
      <4>1. inst[r] \in InstanceStates /\ (r \in dispatchResets) \in BOOLEAN
        BY DEF TypeOK
      <4> QED BY <4>1, RequestedStepPlausible
    <3>3. inst' \in [Row -> InstanceStates] /\ status' \in [Row -> RowStatuses]
      BY <3>1, <3>2 DEF TypeOK, Plausible, Outcome, InstanceAfter, InstanceStates
    <3>4. native' \in [Row -> Origin] /\ output' \in [Row -> Origin]
      BY <3>1 DEF TypeOK, Origin
    <3>5. solved' \in SUBSET Row
      BY <2>7 DEF SolveRow, TypeOK
    <3> QED BY <2>7, <3>3, <3>4, <3>5 DEF SolveRow, TypeOK, PoolTypeOK, poolVars,
              handshakeVars, rampVars, latchVars
  <2>8. CASE NativeCallRaises
    BY <2>8, PoolTypes DEF NativeCallRaises, TypeOK, Places, handshakeVars,
              blockVars, rampVars, latchVars
  <2>9. CASE Close
    <3>1. PoolTypeOK'
      BY <2>9, PoolTypes DEF Close, TypeOK, PoolTypeOK, poolVars
    <3> QED BY <2>9, <3>1 DEF Close, TypeOK, Places, handshakeVars,
              blockVars, rampVars, latchVars
  <2>10. CASE CloseAgain \/ UNCHANGED vars
    BY <2>10 DEF CloseAgain, vars, TypeOK, PoolTypeOK, poolVars, handshakeVars,
              blockVars, rampVars, latchVars
  <2> QED BY <2>1, <2>2, <2>3, <2>4, <2>5, <2>6, <2>7, <2>8, <2>9, <2>10
          DEF Next, EnvironmentStep
<1> QED BY <1>1, <1>2, PTL DEF Spec

-----------------------------------------------------------------------------
(***************************************************************************)
(* Preservation of the invariant, action by action.                        *)
(***************************************************************************)

\* It holds when stepping begins.
LEMMA ActionInvInit == Init => ActionInv
BY DEF Init, NoFailures, ActionInv, Quiet, Dispatched, Executed, Queued, NeedsReset,
       ExecutedByAsked, NativeHasEpisode, NoStaleTarget, StagedWasServed

\* What a row of the output block says when a Step has been collected.
LEMMA CollectedRows ==
  ASSUME TypeOK, ActionInv, pendingDispatch,
         NEW failed \in SUBSET Row, NEW r \in Row
  PROVE  /\ FinalStatus(failed)[r] = "OK" =>
              /\ r \in solved /\ r \notin failed
              /\ inst[r] = "running" /\ output[r] = "current"
         /\ FinalStatus(failed)[r] # "WORKER_FAILED" =>
              /\ r \in solved /\ r \notin failed
              /\ inst[r] # "fresh" /\ native[r] = "current"
BY DEF FinalStatus, ActionInv, Dispatched, Executed, TypeOK, RowStatuses

\* Collecting the outstanding Step keeps the invariant, wherever the term
\* goes next.
LEMMA CollectKeepsInv ==
  ASSUME TypeOK, ActionInv, pendingDispatch,
         NEW answered \in SUBSET Worker, NEW down \in SUBSET Worker,
         Collect(answered, down)
  PROVE  ActionInv'
<1> DEFINE failed == RowsOfAll(down)
           final == FinalStatus(failed)
           ok == {r \in Row : final[r] = "OK"}
           lost == {r \in Row : final[r] = "WORKER_FAILED"}
<1>1. /\ answered \cup down = InPhase("Asked") \cup InPhase("Lost")
      /\ Harvest(answered, {}, down)
      /\ inst' = [r \in Row |-> IF r \in failed THEN "fresh" ELSE inst[r]]
      /\ native' = [r \in Row |-> IF r \in failed THEN "stale" ELSE native[r]]
      /\ ~ pendingDispatch'
      /\ pendingReset' = PendingAfter(lost)
      /\ hasStaged' = ok
      /\ staged' = [r \in Row |-> IF r \in ok THEN output[r] ELSE staged[r]]
      /\ readoutFresh' = ok
      /\ readout' = [r \in Row |-> IF r \in ok THEN output[r] ELSE readout[r]]
      /\ UNCHANGED <<solved, previous, next>>
  BY DEF Collect
<1>2. failed \in SUBSET Row
  BY DEF RowsOfAll, PoolAssumption
<1>3. final \in [Row -> RowStatuses] /\ \A r \in failed : final[r] = "WORKER_FAILED"
  BY <1>2 DEF FinalStatus, TypeOK, RowStatuses
<1>4. \A r \in Row :
        /\ final[r] = "OK" => /\ r \in solved /\ r \notin failed
                              /\ inst[r] = "running" /\ output[r] = "current"
        /\ final[r] # "WORKER_FAILED" =>
             /\ r \in solved /\ r \notin failed
             /\ inst[r] # "fresh" /\ native[r] = "current"
  BY <1>2, CollectedRows
<1>5. \A w \in down : RowsOf[w] \subseteq failed
  BY DEF RowsOfAll
<1> HIDE DEF failed, final
<1>6. Quiet'
  <2>1. \A w \in Worker : slice'[w] \notin {"Asked", "Lost"}
    BY <1>1 DEF Harvest, InPhase, TypeOK, PoolTypeOK, SlicePhase
  <2> QED BY <1>1, <2>1 DEF Quiet
<1>7. Dispatched' /\ Executed' /\ ExecutedByAsked'
  BY <1>1 DEF Dispatched, Executed, ExecutedByAsked
<1>8. Queued'
  <2> SUFFICES ASSUME NEW r \in Row, NeedsReset(r)'
               PROVE  r \in PendingAfter(lost)
    BY <1>1 DEF Queued
  <2>1. final[r] = "WORKER_FAILED"
    BY <1>1, <1>3, <1>4 DEF NeedsReset
  <2> QED BY <2>1 DEF PendingAfter
<1>9. NativeHasEpisode'
  BY <1>1 DEF ActionInv, NativeHasEpisode
<1>10. NoStaleTarget'
  BY <1>1, <1>4 DEF ActionInv, NoStaleTarget
<1>11. StagedWasServed'
  <2> SUFFICES ASSUME NEW r \in ok
               PROVE  /\ r \in solved'
                      /\ inst'[r] = "running"
                      /\ \E w \in InPhase("Idle")' : r \in RowsOf[w]
    BY <1>1 DEF StagedWasServed
  <2>1. r \in solved /\ r \notin failed /\ inst[r] = "running"
    BY <1>4
  <2>2. PICK w \in Worker : r \in RowsOf[w]
    BY DEF ActionAssumption
  <2>3. slice[w] = "Asked"
    <3>1. open
      BY <1>1 DEF Harvest
    <3> QED BY <2>1, <2>2, <3>1 DEF ActionInv, ExecutedByAsked
  <2>4. w \notin down
    BY <1>5, <2>1, <2>2
  <2>5. w \in answered
    BY <1>1, <2>3, <2>4 DEF InPhase
  <2>6. slice'[w] = "Idle"
    BY <1>1, <2>5 DEF Harvest
  <2> QED BY <1>1, <2>1, <2>2, <2>6 DEF InPhase
<1> QED BY <1>6, <1>7, <1>8, <1>9, <1>10, <1>11 DEF ActionInv

\* So does reaching a place where nothing needs to be collected any more.
LEMMA CollectOutputKeepsInv ==
  ASSUME TypeOK, ActionInv, CollectOutput
  PROVE  ActionInv' /\ ~ pendingDispatch'
<1>1. CASE /\ pendingDispatch
           /\ \E answered, down \in SUBSET Worker : Collect(answered, down)
  <2>1. ActionInv'
    BY <1>1, CollectKeepsInv
  <2>2. ~ pendingDispatch'
    BY <1>1 DEF Collect
  <2> QED BY <2>1, <2>2
<1>2. CASE /\ ~ pendingDispatch
           /\ UNCHANGED <<poolVars, handshakeVars, blockVars, rampVars, latchVars>>
  BY <1>2 DEF poolVars, handshakeVars, blockVars, rampVars, latchVars, ActionInv,
       Quiet, Dispatched, Executed, Queued, NeedsReset, ExecutedByAsked,
       NativeHasEpisode, NoStaleTarget, StagedWasServed, InPhase
<1> QED BY <1>1, <1>2 DEF CollectOutput

\* Executing a row settles its status, its outputs and its reset together.
LEMMA SolveRowKeepsInv ==
  ASSUME TypeOK, ActionInv, NEW r \in Row, SolveRow(r)
  PROVE  ActionInv'
<1>1. PICK o \in RequestedStepOutcomes(inst[r], r \in dispatchResets) :
        LET origin == IF r \in dispatchResets THEN "current" ELSE native[r] IN
        /\ inst' = [inst EXCEPT ![r] = InstanceAfter(o)]
        /\ native' = [native EXCEPT ![r] = IF o.threw THEN "stale" ELSE origin]
        /\ status' = [status EXCEPT ![r] = o.status]
        /\ output' = [output EXCEPT ![r] = IF o.wrote THEN origin ELSE @]
  BY Zenon DEF SolveRow
<1>2. Plausible(o)
  <2>1. inst[r] \in InstanceStates /\ (r \in dispatchResets) \in BOOLEAN
    BY DEF TypeOK
  <2> QED BY <2>1, RequestedStepPlausible
<1>3. /\ r \notin solved /\ solved' = solved \cup {r}
      /\ UNCHANGED <<slice, open, pc, pendingDispatch, pendingReset, dispatchResets,
                     hasStaged, staged, previous, next, readout, readoutFresh>>
  BY DEF SolveRow, poolVars, handshakeVars, rampVars, latchVars
<1>4. PICK w \in Worker : slice[w] = "Asked" /\ r \in RowsOf[w]
  BY DEF SolveRow, InPhase
<1>5. pendingDispatch /\ dispatchResets = pendingReset /\ hasStaged = {}
  BY <1>4 DEF ActionInv, Quiet, Dispatched
<1> DEFINE origin == IF r \in dispatchResets THEN "current" ELSE native[r]
<1>6. native[r] \in {"current", "stale"}
  BY DEF ActionInv, NativeHasEpisode, TypeOK, Origin
<1>7. origin = "current"
  BY <1>3, <1>5, <1>6 DEF ActionInv, Queued, NeedsReset
<1>8. Quiet' /\ Dispatched'
  BY <1>1, <1>3 DEF ActionInv, Quiet, Dispatched, TypeOK
<1>9. Executed'
  <2> SUFFICES ASSUME NEW q \in solved'
               PROVE  /\ status'[q] = "OK" => inst'[q] = "running" /\ output'[q] = "current"
                      /\ status'[q] # "WORKER_FAILED" => inst'[q] # "fresh" /\ native'[q] = "current"
    BY DEF Executed
  <2>1. CASE q = r
    <3>1. /\ status'[r] = o.status /\ inst'[r] = InstanceAfter(o)
          /\ native'[r] = IF o.threw THEN "stale" ELSE origin
          /\ output'[r] = IF o.wrote THEN origin ELSE output[r]
      BY <1>1 DEF TypeOK
    <3> QED BY <1>2, <1>7, <2>1, <3>1 DEF Plausible, InstanceAfter
  <2>2. CASE q # r
    <3>1. q \in solved /\ q \in Row
      BY <1>3, <2>2 DEF TypeOK
    <3>2. /\ status'[q] = status[q] /\ inst'[q] = inst[q]
          /\ native'[q] = native[q] /\ output'[q] = output[q]
      BY <1>1, <2>2, <3>1 DEF TypeOK
    <3> QED BY <1>5, <3>1, <3>2 DEF ActionInv, Executed
  <2> QED BY <2>1, <2>2
<1>10. Queued'
  BY <1>1, <1>3, <1>5 DEF ActionInv, Queued, NeedsReset, TypeOK
<1>11. ExecutedByAsked'
  BY <1>3, <1>4 DEF ActionInv, ExecutedByAsked, PoolAssumption
<1>12. NativeHasEpisode'
  BY <1>1, <1>6 DEF ActionInv, NativeHasEpisode, TypeOK
<1>13. NoStaleTarget'
  BY <1>3 DEF ActionInv, NoStaleTarget
<1>14. StagedWasServed'
  BY <1>3, <1>5 DEF StagedWasServed
<1> QED BY <1>8, <1>9, <1>10, <1>11, <1>12, <1>13, <1>14 DEF ActionInv

\* Dispatching takes the snapshot the invariant speaks of.
LEMMA AdvanceKeepsInv ==
  ASSUME TypeOK, ActionInv, Advance
  PROVE  ActionInv'
<1>1. /\ pc = "advance"
      /\ previous' = [r \in Row |-> IF r \in hasStaged THEN next[r] ELSE previous[r]]
      /\ next' = [r \in Row |-> IF r \in hasStaged THEN staged[r] ELSE next[r]]
      /\ hasStaged' = {}
      /\ dispatchResets' = pendingReset
      /\ status' = [r \in Row |-> "WORKER_FAILED"]
      /\ solved' = {}
      /\ pendingDispatch'
      /\ UNCHANGED <<pendingReset, inst, native, output, staged, readout, readoutFresh>>
  BY DEF Advance, latchVars
<1>2. ~ pendingDispatch
  BY <1>1 DEF ActionInv, Quiet
<1>3. pc' \in {"substep", "boundary"}
  BY DEF Advance, AfterSubstep
<1>4. Quiet'
  BY <1>1, <1>3 DEF Quiet
<1>5. Dispatched' /\ Executed' /\ ExecutedByAsked' /\ StagedWasServed'
  BY <1>1 DEF Dispatched, Executed, ExecutedByAsked, StagedWasServed
<1>6. Queued' /\ NativeHasEpisode'
  BY <1>1, <1>2 DEF ActionInv, Queued, NeedsReset, NativeHasEpisode
<1>7. NoStaleTarget'
  BY <1>1 DEF ActionInv, NoStaleTarget
<1> QED BY <1>4, <1>5, <1>6, <1>7 DEF ActionInv

\* A reset seeds, drops or queues whatever it makes stale.
LEMMA FinishResetKeepsInv ==
  ASSUME TypeOK, ActionInv, FinishReset
  PROVE  ActionInv'
<1>1. /\ pc = "reset" /\ pc' = "substep"
      /\ Replace(ending, Replaceable(ending))
      /\ pendingReset' = pendingReset \cup ending
      /\ previous' = [r \in Row |-> IF r \in ending THEN "seed" ELSE previous[r]]
      /\ next' = [r \in Row |-> IF r \in ending THEN "seed" ELSE next[r]]
      /\ hasStaged' = hasStaged \ ending
      /\ staged' = Stale(staged, ending)
      /\ readout' = [r \in Row |-> IF r \in ending THEN "seed" ELSE readout[r]]
      /\ readoutFresh' = readoutFresh \ ending
      /\ native' = Stale(native, ending)
      /\ output' = Stale(output, ending)
      /\ UNCHANGED <<pendingDispatch, inst, solved, status>>
  BY DEF FinishReset, StagedAfterReset
<1>2. ~ pendingDispatch
  BY <1>1 DEF ActionInv, Quiet
<1>3. \A w \in Worker : /\ slice'[w] \notin {"Asked", "Lost"}
                        /\ slice[w] = "Idle" => slice'[w] = "Idle"
  BY <1>1, <1>2 DEF Replace, ActionInv, Quiet
<1>4. Quiet' /\ Dispatched' /\ Executed' /\ ExecutedByAsked'
  BY <1>1, <1>2, <1>3 DEF Quiet, Dispatched, Executed, ExecutedByAsked
<1>5. Queued'
  BY <1>1, <1>2 DEF ActionInv, Queued, NeedsReset, Stale
<1>6. NativeHasEpisode'
  BY <1>1 DEF ActionInv, NativeHasEpisode, Stale
<1>7. NoStaleTarget'
  BY <1>1 DEF ActionInv, NoStaleTarget, Stale
<1>8. StagedWasServed'
  <2>1. open
    BY <1>1 DEF Replace
  <2> QED BY <1>1, <1>3, <2>1 DEF ActionInv, StagedWasServed, InPhase
<1> QED BY <1>4, <1>5, <1>6, <1>7, <1>8 DEF ActionInv

\* Closing the pool ends all obligations that depend on its workers.
LEMMA ClosingKeepsInv ==
  ASSUME TypeOK, ActionInv, Shut, pc' \notin {"advance", "reset"},
         UNCHANGED <<handshakeVars, blockVars, rampVars, latchVars>>
  PROVE  ActionInv'
<1>1. ~ open' /\ \A w \in Worker : slice'[w] = "Down"
  BY DEF Shut
<1> QED BY <1>1 DEF handshakeVars, blockVars, rampVars, latchVars, ActionInv,
     Quiet, Dispatched, Executed, Queued, NeedsReset, ExecutedByAsked,
     NativeHasEpisode, NoStaleTarget, StagedWasServed

\* Steps that touch nothing the invariant speaks of.
LEMMA UnchangedKeepsInv ==
  ASSUME ActionInv, pc' \in {"advance", "reset"} => pc' = pc,
         UNCHANGED <<poolVars, handshakeVars, blockVars, rampVars, latchVars>>
  PROVE  ActionInv'
BY DEF poolVars, handshakeVars, blockVars, rampVars, latchVars, ActionInv,
       Quiet, Dispatched, Executed, Queued, NeedsReset, ExecutedByAsked,
       NativeHasEpisode, NoStaleTarget, StagedWasServed, InPhase

\* No step breaks the invariant.
LEMMA ActionInvStep ==
  ASSUME TypeOK, ActionInv, [Next]_vars
  PROVE  ActionInv'
<1>1. CASE StartPeriod
  BY <1>1, CollectOutputKeepsInv DEF StartPeriod
<1>2. CASE Advance
  BY <1>2, AdvanceKeepsInv
<1>3. CASE Interpolate
  BY <1>3, UnchangedKeepsInv DEF Interpolate, AfterSubstep
<1>4. CASE NoEpisodeEnds
  BY <1>4, UnchangedKeepsInv DEF NoEpisodeEnds
<1>5. ASSUME NEW rows \in SUBSET Row, BeginReset(rows) PROVE ActionInv'
  BY <1>5, CollectOutputKeepsInv DEF BeginReset
<1>6. CASE FinishReset
  BY <1>6, FinishResetKeepsInv
<1>7. ASSUME NEW r \in Row, SolveRow(r) PROVE ActionInv'
  BY <1>7, SolveRowKeepsInv
<1>8. CASE NativeCallRaises
  BY <1>8, ClosingKeepsInv DEF NativeCallRaises
<1>9. CASE Close
  <2>1. CASE open
    BY <1>9, <2>1, ClosingKeepsInv DEF Close
  <2>2. CASE ~ open
    BY <1>9, <2>2, UnchangedKeepsInv DEF Close
  <2> QED BY <2>1, <2>2
<1>10. CASE CloseAgain \/ UNCHANGED vars
  BY <1>10, UnchangedKeepsInv DEF CloseAgain, vars
<1> QED BY <1>1, <1>2, <1>3, <1>4, <1>5, <1>6, <1>7, <1>8, <1>9, <1>10
        DEF Next, EnvironmentStep

\* The inductive invariant holds for ever.
LEMMA ActionInvariant == Spec => [](TypeOK /\ ActionInv)
<1>1. TypeOK /\ ActionInv /\ [Next]_vars => ActionInv'
  BY ActionInvStep
<1> QED BY <1>1, ActionInvInit, TypeCorrect, PTL DEF Spec

-----------------------------------------------------------------------------
(***************************************************************************)
(* The properties.                                                         *)
(***************************************************************************)

\* No ramp endpoint, staged target or fresh readout stems from an earlier
\* episode, whichever rows, slices and resets there are.
THEOREM TargetsAreCurrent == Spec => []NoStaleTarget
<1>1. ActionInv => NoStaleTarget
  BY DEF ActionInv
<1> QED BY <1>1, ActionInvariant, PTL

\* Only rows whose whole slice answered publish a target.
THEOREM StagedRowsWereServed == Spec => []StagedWasServed
<1>1. ActionInv => StagedWasServed
  BY DEF ActionInv
<1> QED BY <1>1, ActionInvariant, PTL

\* A row that needs a native reset has it queued for the next dispatch.
THEOREM ResetsAreQueued == Spec => []ResetIsQueued
<1>1. ActionInv => ResetIsQueued
  BY DEF ActionInv, Queued, NeedsReset, ResetIsQueued
<1> QED BY <1>1, ActionInvariant, PTL

\* The shared blocks are the trainer's alone whenever it writes them.
THEOREM BlocksAreExclusive == Spec => []ExclusiveBlocks
<1>1. ActionInv => ExclusiveBlocks
  BY DEF ActionInv, Quiet, ExclusiveBlocks, InPhase
<1> QED BY <1>1, ActionInvariant, PTL

\* A queued reset is forgotten only once its controller has performed it.
THEOREM ResetsAreAcknowledged == Spec => ResetIsAcknowledged
<1>1. TypeOK /\ ActionInv /\ [Next]_vars =>
        [\A r \in pendingReset \ pendingReset' :
           /\ r \in solved
           /\ inst'[r] # "fresh"
           /\ native'[r] = "current"]_vars
  <2> SUFFICES ASSUME TypeOK, ActionInv, Next, NEW r \in pendingReset \ pendingReset'
               PROVE  /\ r \in solved
                      /\ inst'[r] # "fresh"
                      /\ native'[r] = "current"
    OBVIOUS
  <2>1. CollectOutput
    BY DEF Next, EnvironmentStep, StartPeriod, Advance, Interpolate, NoEpisodeEnds,
           BeginReset, FinishReset, SolveRow, NativeCallRaises, Close, CloseAgain,
           vars, handshakeVars
  <2>2. pendingDispatch
    BY <2>1 DEF CollectOutput, handshakeVars
  <2>3. PICK answered \in SUBSET Worker, down \in SUBSET Worker : Collect(answered, down)
    BY <2>1, <2>2 DEF CollectOutput
  <2> DEFINE failed == RowsOfAll(down)
             lost == {q \in Row : FinalStatus(failed)[q] = "WORKER_FAILED"}
  <2>4. failed \in SUBSET Row
    BY DEF RowsOfAll, PoolAssumption
  <2>5. /\ pendingReset' = PendingAfter(lost)
        /\ inst' = [q \in Row |-> IF q \in failed THEN "fresh" ELSE inst[q]]
        /\ native' = [q \in Row |-> IF q \in failed THEN "stale" ELSE native[q]]
    BY <2>3 DEF Collect
  <2>6. r \in Row /\ FinalStatus(failed)[r] # "WORKER_FAILED"
    BY <2>5 DEF PendingAfter, TypeOK
  <2>7. r \in solved /\ r \notin failed /\ inst[r] # "fresh" /\ native[r] = "current"
    BY <2>2, <2>4, <2>6, CollectedRows
  <2> QED BY <2>5, <2>6, <2>7
<1> QED BY <1>1, ActionInvariant, PTL DEF Spec, ResetIsAcknowledged

\* Staged rows were served in the episode that acts on them.
THEOREM StagedRowsAreCurrent == Spec => []StagedRowsAreTheEpisodes
BY TargetsAreCurrent, StagedRowsWereServed, PTL DEF StagedRowsAreTheEpisodes
=============================================================================
