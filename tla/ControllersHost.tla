--------------------------- MODULE ControllersHost ---------------------------
(***************************************************************************)
(* The inside of one worker process: main's command loop, the              *)
(* ControllersHost that applies a command to every row of the slice, and   *)
(* the output block those rows are written to.                             *)
(*                                                                         *)
(* Rows are executed one after the other, so a reader of the shared block  *)
(* (or a kill) can fall between two of them.                               *)
(***************************************************************************)
EXTENDS ControllerInstance, Integers

CONSTANTS NumRows,   \* m_instances.size()
          MaxOps     \* bound on the commands received

ASSUME HostAssumption == NumRows \in Nat \ {0} /\ MaxOps \in Nat

Rows == 1 .. NumRows
Commands == {"Initialize", "Reset", "Step"}

VARIABLES
  phase,      \* "waiting" in receive, "executing" the command, or "exited"
  command,    \* the command last received
  flags,      \* rows whose reset column is set in the input block
  index,      \* the next row of execute
  inst,       \* inst[i]: m_instances[i]
  status,     \* status[i]: the status column of the output block
  initError,  \* initialization_error is set
  failure,    \* main's `failure` is not empty
  ops,        \* commands received so far
  executed,   \* history: the last command number that was executed
  written,    \* history: the command that last wrote row i's outputs
  stamped     \* history: the command that last wrote row i's status

vars == <<phase, command, flags, index, inst, status, initError, failure, ops,
          executed, written, stamped>>

\* The values the worker's state may take.
TypeOK ==
  /\ phase \in {"waiting", "executing", "exited"}
  /\ command \in Commands
  /\ flags \in SUBSET Rows
  /\ index \in 1 .. (NumRows + 1)
  /\ inst \in [Rows -> InstanceStates]
  /\ status \in [Rows -> RowStatuses]
  /\ initError \in BOOLEAN
  /\ failure \in BOOLEAN
  /\ ops \in 0 .. MaxOps
  /\ executed \in 0 .. MaxOps
  /\ written \in [Rows -> 0 .. MaxOps]
  /\ stamped \in [Rows -> 0 .. MaxOps]

\* Startup bound the blocks and constructed one instance per row.
Init ==
  /\ phase = "waiting"
  /\ command = "Step"
  /\ flags = {}
  /\ index = 1
  /\ inst = [i \in Rows |-> "fresh"]
  /\ status = [i \in Rows |-> "WORKER_FAILED"]
  /\ initError = FALSE
  /\ failure = FALSE
  /\ ops = 0
  /\ executed = 0
  /\ written = [i \in Rows |-> 0]
  /\ stamped = [i \in Rows |-> 0]

\* The trainer wrote the reset column before it sent the command.
Receive(c, resetRows) ==
  /\ phase = "waiting"
  /\ ops < MaxOps
  /\ ~ failure
  /\ phase' = "executing"
  /\ command' = c
  /\ flags' = resetRows
  /\ index' = 1
  /\ initError' = FALSE
  /\ ops' = ops + 1
  /\ executed' = ops + 1
  /\ UNCHANGED <<inst, status, failure, written, stamped>>

\* Once it has failed, the worker answers every command with its failure.
Refuse(c) ==
  /\ phase = "waiting"
  /\ ops < MaxOps
  /\ failure
  /\ command' = c
  /\ ops' = ops + 1
  /\ UNCHANGED <<phase, flags, index, inst, status, initError, failure,
                 executed, written, stamped>>

\* What the command may do to row i.
RowOutcomes(i) ==
  CASE command = "Initialize" -> InitializeOutcomes(inst[i])
    [] command = "Reset" -> ResetOutcomes(inst[i])
    [] command = "Step" -> RequestedStepOutcomes(inst[i], i \in flags)

\* One iteration of execute: an exception fails this row only, and its
\* instance is replaced unless the whole initialization is to be reported.
ExecuteRow ==
  /\ phase = "executing"
  /\ index \in Rows
  /\ \E o \in RowOutcomes(index) :
       /\ inst' = [inst EXCEPT ![index] =
                     IF command = "Initialize" THEN o.inst ELSE InstanceAfter(o)]
       /\ status' = [status EXCEPT ![index] = o.status]
       /\ initError' = (initError \/ (o.threw /\ command = "Initialize"))
       /\ written' = [written EXCEPT ![index] = IF o.wrote THEN ops ELSE @]
  /\ stamped' = [stamped EXCEPT ![index] = ops]
  /\ index' = index + 1
  /\ UNCHANGED <<phase, command, flags, failure, ops, executed>>

\* Mutant: the failed replacement is swallowed, and the command succeeds.
ReplaceFails_Swallowed ==
  /\ phase = "executing"
  /\ index \in Rows
  /\ command # "Initialize"
  /\ \E o \in RowOutcomes(index) :
       /\ o.threw
       /\ inst' = [inst EXCEPT ![index] = o.inst]
       /\ written' = [written EXCEPT ![index] = IF o.wrote THEN ops ELSE @]
  /\ phase' = "waiting"
  /\ UNCHANGED <<command, flags, index, status, initError, failure, ops, executed,
                 stamped>>

\* A row's instance is replaced outside the try block: when constructing the
\* new one throws, the old one stays, the row keeps its old status, the rows
\* after it are not serviced, and main keeps the error for ever.
ReplaceFails ==
  /\ phase = "executing"
  /\ index \in Rows
  /\ command # "Initialize"
  /\ \E o \in RowOutcomes(index) :
       /\ o.threw
       /\ inst' = [inst EXCEPT ![index] = o.inst]
       /\ written' = [written EXCEPT ![index] = IF o.wrote THEN ops ELSE @]
  /\ phase' = "waiting"
  /\ failure' = TRUE
  /\ UNCHANGED <<command, flags, index, status, initError, ops, executed, stamped>>

\* Mutant: main forgets the failure it reported.
Answer_Forgets ==
  /\ phase = "executing"
  /\ index \notin Rows
  /\ phase' = "waiting"
  /\ UNCHANGED <<command, flags, index, inst, status, initError, failure, ops,
                 executed, written, stamped>>

\* execute rethrows the first initialization error; main keeps it for ever.
Answer ==
  /\ phase = "executing"
  /\ index \notin Rows
  /\ phase' = "waiting"
  /\ failure' = (failure \/ initError)
  /\ UNCHANGED <<command, flags, index, inst, status, initError, ops, executed,
                 written, stamped>>

\* Command::Stop: reply and return from main.
Stop ==
  /\ phase = "waiting"
  /\ phase' = "exited"
  /\ UNCHANGED <<command, flags, index, inst, status, initError, failure, ops,
                 executed, written, stamped>>

Next ==
  \/ \E c \in Commands, resetRows \in SUBSET Rows : Receive(c, resetRows)
  \/ \E c \in Commands : Refuse(c)
  \/ ExecuteRow
  \/ ReplaceFails
  \/ Answer
  \/ Stop

Spec == Init /\ [][Next]_vars

-----------------------------------------------------------------------------
\* While the worker reports no failure, an OK in the status column stands
\* beside outputs written by the very command that wrote the OK, and by an
\* initialized, healthy instance.
OkMeansServed ==
  ~ failure =>
    \A i \in Rows :
      status[i] = "OK" => inst[i] = "running" /\ written[i] = stamped[i]

\* One row's exception never leaves another row of the slice unserviced behind
\* a successful reply: when the worker answers a command without an error,
\* every row carries the status of that command.
EveryRowAnswered ==
  phase = "waiting" /\ ~ failure => \A i \in Rows : stamped[i] = executed

\* A row whose QP failed stays failed, through every command, until a reset
\* of that row is asked for (or its instance is thrown away).
QpFailureIsLatched ==
  [][\A i \in Rows :
       inst[i] = "failed" /\ inst'[i] = "running" =>
         command = "Reset" \/ (command = "Step" /\ i \in flags)]_vars

\* A worker refuses work for ever after if, and only if, an Initialize left a
\* row without a controller or a command was abandoned before its last row;
\* failures of single rows while stepping do not take the slice down.
RefusalIsEarned ==
  [][(phase = "executing" /\ phase' = "waiting") =>
       (failure' <=> \/ index \in Rows
                     \/ /\ command = "Initialize"
                        /\ \E i \in Rows : status[i] = "WORKER_FAILED")]_vars

\* The outputs and statuses of a slice tell the trainer the truth: an OK is backed by a
\* controller that just ran, and every row bears the mark of the command answered.
ServiceIsAccounted == OkMeansServed /\ EveryRowAnswered
=============================================================================
