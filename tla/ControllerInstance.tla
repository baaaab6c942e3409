------------------------- MODULE ControllerInstance -------------------------
(***************************************************************************)
(* One controller row inside a worker process: what ControllerInstance's   *)
(* operations may do to the instance, to its status and to its row of the  *)
(* output block.  mc_rtc itself is external: its calls may succeed, throw, *)
(* or (run) report that the QP has no solution.                            *)
(***************************************************************************)

\* fresh: constructed, not initialized; running: initialized, m_failed is
\* false; failed: initialized, m_failed is true.
InstanceStates == {"fresh", "running", "failed"}

RowStatuses == {"OK", "QP_FAILED", "WORKER_FAILED"}

\* What an operation left behind: the instance, whether it threw, whether
\* apply_output replaced the row's outputs, and the status it returned.
Outcome == [inst : InstanceStates, threw : BOOLEAN, wrote : BOOLEAN,
            status : RowStatuses]

Returns(inst, wrote, status) ==
  [inst |-> inst, threw |-> FALSE, wrote |-> wrote, status |-> status]

\* An exception may come before or after apply_output began to write.
Throws(inst) ==
  {[inst |-> inst, threw |-> TRUE, wrote |-> wrote, status |-> "WORKER_FAILED"] :
     wrote \in BOOLEAN}

\* m_initialized is assigned last, so a failed initialization leaves a fresh
\* instance; a second initialization is refused.
InitializeOutcomes(inst) ==
  IF inst = "fresh"
  THEN {Returns("running", TRUE, "OK")} \cup Throws("fresh")
  ELSE {o \in Throws(inst) : ~ o.wrote}

\* An instance that was never initialized is initialized by its first reset.
ResetOutcomes(inst) ==
  IF inst = "fresh"
  THEN InitializeOutcomes(inst)
  ELSE {Returns("running", TRUE, "OK")} \cup Throws(inst)

\* Mutant: a failed controller is run again.
StepOutcomes_Unlatched(inst) ==
  IF inst = "fresh"
  THEN {Returns("fresh", FALSE, "WORKER_FAILED")}
  ELSE {Returns("running", TRUE, "OK"),
        Returns("failed", FALSE, "QP_FAILED")} \cup Throws(inst)

\* A failed QP is latched: run is not called again, and nothing is written,
\* before a reset.
StepOutcomes(inst) ==
  CASE inst = "failed" -> {Returns("failed", FALSE, "QP_FAILED")}
    [] inst = "fresh" -> {Returns("fresh", FALSE, "WORKER_FAILED")}
    [] OTHER -> {Returns("running", TRUE, "OK"),
                 Returns("failed", FALSE, "QP_FAILED")} \cup Throws(inst)

\* ControllersHost::execute for one row of a Step command: the reset column
\* asks for a reset before the step.
RequestedStepOutcomes(inst, resetFlag) ==
  IF ~ resetFlag
  THEN StepOutcomes(inst)
  ELSE LET resets == ResetOutcomes(inst) IN
       {r \in resets : r.threw}
         \cup {[s EXCEPT !.wrote = TRUE] :
                 s \in UNION {StepOutcomes(r.inst) : r \in {q \in resets : ~ q.threw}}}

\* The host replaces an instance that threw, except during Initialize.
InstanceAfter(o) == IF o.threw THEN "fresh" ELSE o.inst
=============================================================================
