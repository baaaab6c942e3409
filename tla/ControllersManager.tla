------------------------- MODULE ControllersManager -------------------------
(***************************************************************************)
(* The native process pool: ControllersManager in the trainer process, one *)
(* worker process per slice and generation, and the nanomsg PAIR endpoint  *)
(* between them.                                                           *)
(*                                                                         *)
(* Each manager call is a loop over the workers in index order; `pc` names *)
(* the loop and `rest` the workers it has still to visit, so the worker    *)
(* processes run, answer, wedge and die between any two visits.  A wedged  *)
(* worker is one that takes no further step.                               *)
(***************************************************************************)
EXTENDS RowPartition, Sequences

CONSTANTS NumControllers,   \* m_num_controllers
          NumWorkers,       \* m_num_workers
          MaxCalls,         \* bound on dispatch calls
          MaxGeneration     \* bound on replacements of one worker

ASSUME ManagerAssumption ==
  /\ NumControllers \in Nat
  /\ NumWorkers \in Nat
  /\ ValidSplit(NumControllers, NumWorkers)
  /\ MaxCalls \in Nat
  /\ MaxGeneration \in Nat

Workers == 0 .. (NumWorkers - 1)
Rows == 0 .. (NumControllers - 1)
Rowids(w) == RowIds(NumControllers, NumWorkers, w)

\* An endpoint path holds the row range and the generation of its worker.
Endpoints == Workers \X (0 .. MaxGeneration)

VARIABLES
  pc,          \* which manager loop runs, "ready" between calls
  rest,        \* the workers that loop has still to visit
  batch,       \* workers being replaced together, or found failed by collect
  closed,      \* m_closed
  status,      \* Worker::status, "Absent" when m_workers has no such entry
  generation,  \* Worker::generation
  resetRows,   \* Worker::reset_rows, as the set of rows whose flag is true
  proc,        \* proc[e]: the child process connected to endpoint e
  failure,     \* failure[e]: the child's `failure` string is not empty
  requests,    \* requests[e]: manager to child, head under execution if busy
  replies,     \* replies[e]: child to manager
  calls,       \* dispatch calls so far
  sent,        \* history: operations sent to w's current generation
  answered,    \* history: tag of the last reply accepted as a success
  owed         \* history: rows reported lost and not reset since

managerVars == <<pc, rest, batch, closed, status, generation, resetRows>>
procVars == <<proc, failure, requests, replies>>
historyVars == <<calls, sent, answered, owed>>
vars == <<managerVars, procVars, historyVars>>

Phases == {"launch", "start", "ready", "dispatch", "collect", "retire",
           "stop", "drain", "reap", "closed"}
Statuses == {"Absent", "Working", "Completed", "TimedOut", "Failed", "Retired"}
ProcStates == {"none", "booting", "idle", "busy", "gone"}
Alive == {"booting", "idle", "busy"}

\* A message carries the number of the operation it belongs to, so that a
\* reply can be compared with the request it was accepted for.  Number 0 is
\* the WorkerStartMessage, number -1 the Stop command.
StartTag == 0
StopTag == -1
Tags == -1 .. MaxCalls
Reply == [tag : Tags, error : BOOLEAN]
AnswerTags == [gen : 0 .. MaxGeneration, tag : Tags]

\* The values the manager's and the workers' state may take.
TypeOK ==
  /\ pc \in Phases
  /\ rest \in SUBSET Workers
  /\ batch \in SUBSET Workers
  /\ closed \in BOOLEAN
  /\ status \in [Workers -> Statuses]
  /\ generation \in [Workers -> 0 .. MaxGeneration]
  /\ resetRows \in [Workers -> SUBSET Rows]
  /\ proc \in [Endpoints -> ProcStates]
  /\ failure \in [Endpoints -> BOOLEAN]
  /\ requests \in [Endpoints -> Seq(Tags)]
  /\ replies \in [Endpoints -> Seq(Reply)]
  /\ calls \in 0 .. MaxCalls
  /\ sent \in [Workers -> 0 .. MaxCalls]
  /\ answered \in [Workers -> AnswerTags]
  /\ owed \in SUBSET Rows

\* The endpoint of w's current generation.
Endpoint(w) == <<w, generation[w]>>

Init ==
  /\ pc = "launch"
  /\ rest = Workers
  /\ batch = Workers
  /\ closed = FALSE
  /\ status = [w \in Workers |-> "Absent"]
  /\ generation = [w \in Workers |-> 0]
  /\ resetRows = [w \in Workers |-> {}]
  /\ proc = [e \in Endpoints |-> "none"]
  /\ failure = [e \in Endpoints |-> FALSE]
  /\ requests = [e \in Endpoints |-> <<>>]
  /\ replies = [e \in Endpoints |-> <<>>]
  /\ calls = 0
  /\ sent = [w \in Workers |-> 0]
  /\ answered = [w \in Workers |-> [gen |-> 0, tag |-> StopTag]]
  /\ owed = {}

-----------------------------------------------------------------------------
(***************************************************************************)
(* Loops over m_workers.                                                   *)
(***************************************************************************)

\* The loop `here` is at worker w.
At(here, w) ==
  /\ pc = here
  /\ w \in rest
  /\ \A v \in rest : w <= v

\* Visit the next worker, or go on to the loop `there` over `workers`.
Step(w, there, workers) ==
  IF rest = {w}
  THEN /\ pc' = IF workers = {} THEN "ready" ELSE there
       /\ rest' = workers
  ELSE /\ rest' = rest \ {w}
       /\ UNCHANGED pc

\* close() sets m_closed and broadcasts Stop; it is the caller's call, or the
\* cleanup of a call that is about to throw.
EnterClose ==
  /\ closed' = TRUE
  /\ pc' = "stop"
  /\ rest' = Workers
  /\ batch' = {}

-----------------------------------------------------------------------------
(***************************************************************************)
(* spawn_worker and await_worker_start, from the constructor and from      *)
(* respawn_workers: launch the whole batch, then await the whole batch.    *)
(***************************************************************************)
\* Mutant: a replacement binds the endpoint of the worker it replaces.
NextGeneration_Reused(w) == generation[w]

NextGeneration(w) == IF status[w] = "Absent" THEN 0 ELSE generation[w] + 1

\* Bind a new endpoint, start a child on it and send it its configuration.
Launch(w) ==
  LET g == NextGeneration(w) IN
  /\ At("launch", w)
  /\ Step(w, "start", batch)
  /\ generation' = [generation EXCEPT ![w] = g]
  /\ status' = [status EXCEPT ![w] = "Working"]
  /\ resetRows' = [resetRows EXCEPT ![w] = {}]
  /\ proc' = [proc EXCEPT ![<<w, g>>] = "booting"]
  /\ requests' = [requests EXCEPT ![<<w, g>>] = Append(@, StartTag)]
  /\ sent' = [sent EXCEPT ![w] = 0]
  /\ UNCHANGED <<batch, closed, failure, replies, calls, answered, owed>>

\* The bind, the exec or the 30 s send throws: the new child does not outlive
\* the exception, the entry keeps its old value, and the pool is closed.
LaunchFails(w) ==
  /\ At("launch", w)
  /\ EnterClose
  /\ UNCHANGED <<status, generation, resetRows, procVars, historyVars>>

\* The startup reply says that the worker mapped its slice and built its host.
Started(w) ==
  /\ At("start", w)
  /\ replies[Endpoint(w)] # <<>>
  /\ ~ Head(replies[Endpoint(w)]).error
  /\ replies' = [replies EXCEPT ![Endpoint(w)] = Tail(@)]
  /\ status' = [status EXCEPT ![w] = "Completed"]
  /\ answered' = [answered EXCEPT
       ![w] = [gen |-> generation[w], tag |-> Head(replies[Endpoint(w)]).tag]]
  /\ batch' = batch \ {w}
  /\ Step(w, "ready", {})
  /\ UNCHANGED <<closed, generation, resetRows, proc, failure, requests,
                 calls, sent, owed>>

\* An error reply, a receive error or the startup deadline: fatal to the pool.
StartFails(w) ==
  /\ At("start", w)
  /\ \/ /\ replies[Endpoint(w)] # <<>>
        /\ Head(replies[Endpoint(w)]).error
        /\ replies' = [replies EXCEPT ![Endpoint(w)] = Tail(@)]
     \/ UNCHANGED replies
  /\ status' = [status EXCEPT ![w] = "Failed"]
  /\ EnterClose
  /\ UNCHANGED <<generation, resetRows, proc, failure, requests, historyVars>>

-----------------------------------------------------------------------------
(***************************************************************************)
(* dispatch                                                                *)
(***************************************************************************)
Dispatch ==
  /\ pc = "ready"
  /\ calls < MaxCalls
  /\ calls' = calls + 1
  /\ pc' = "dispatch"
  /\ rest' = Workers
  /\ UNCHANGED <<batch, closed, status, generation, resetRows, procVars,
                 sent, answered, owed>>

\* Mutants: an operation is sent to a worker that has not answered yet, or to
\* one that was retired.
Asks_Unanswered(w) == status[w] \in {"Completed", "Working"}
Asks_Retired(w) == status[w] # "Working"

\* Only a Completed worker is asked: one request per worker is outstanding.
Asks(w) == status[w] = "Completed"

DispatchTo(w) ==
  /\ At("dispatch", w)
  /\ Asks(w)
  /\ status' = [status EXCEPT ![w] = "Working"]
  /\ sent' = [sent EXCEPT ![w] = @ + 1]
  /\ requests' = [requests EXCEPT ![Endpoint(w)] = Append(@, sent[w] + 1)]
  /\ Step(w, "ready", {})
  /\ UNCHANGED <<batch, closed, generation, resetRows, proc, failure, replies,
                 calls, answered, owed>>

SendFails(w) ==
  /\ At("dispatch", w)
  /\ Asks(w)
  /\ status' = [status EXCEPT ![w] = "Failed"]
  /\ Step(w, "ready", {})
  /\ UNCHANGED <<batch, closed, generation, resetRows, procVars, historyVars>>

DispatchSkips(w) ==
  /\ At("dispatch", w)
  /\ ~ Asks(w)
  /\ Step(w, "ready", {})
  /\ UNCHANGED <<batch, closed, status, generation, resetRows, procVars,
                 historyVars>>

-----------------------------------------------------------------------------
(***************************************************************************)
(* collect: harvest every outstanding reply, then retire the failed.       *)
(***************************************************************************)
Collect ==
  /\ pc = "ready"
  /\ pc' = "collect"
  /\ rest' = Workers
  /\ batch' = {}
  /\ UNCHANGED <<closed, status, generation, resetRows, procVars, historyVars>>

\* The reply says whether the operation threw in the worker.
Harvest(w) ==
  LET reply == Head(replies[Endpoint(w)]) IN
  /\ At("collect", w)
  /\ status[w] = "Working"
  /\ replies[Endpoint(w)] # <<>>
  /\ replies' = [replies EXCEPT ![Endpoint(w)] = Tail(@)]
  /\ IF reply.error
     THEN /\ status' = [status EXCEPT ![w] = "Failed"]
          /\ batch' = batch \cup {w}
          /\ UNCHANGED answered
     ELSE /\ status' = [status EXCEPT ![w] = "Completed"]
          /\ answered' = [answered EXCEPT
               ![w] = [gen |-> generation[w], tag |-> reply.tag]]
          /\ UNCHANGED batch
  /\ Step(w, "retire", batch')
  /\ UNCHANGED <<closed, generation, resetRows, proc, failure, requests, calls,
                 sent, owed>>

\* m_timeout_ms passes, or receiving throws.  The deadline may pass with the
\* reply already queued: transfer gives up when EINTR finds no time left.
HarvestFails(w) ==
  /\ At("collect", w)
  /\ status[w] = "Working"
  /\ \E verdict \in {"TimedOut", "Failed"} :
       status' = [status EXCEPT ![w] = verdict]
  /\ batch' = batch \cup {w}
  /\ Step(w, "retire", batch')
  /\ UNCHANGED <<closed, generation, resetRows, procVars, historyVars>>

\* A worker whose send failed is failed already; one without an outstanding
\* operation is passed over.
HarvestSkips(w) ==
  /\ At("collect", w)
  /\ status[w] # "Working"
  /\ batch' = IF status[w] \in {"Failed", "TimedOut"} THEN batch \cup {w} ELSE batch
  /\ Step(w, "retire", batch')
  /\ UNCHANGED <<closed, status, generation, resetRows, procVars, historyVars>>

\* Mutant: the child of a worker that timed out is left running.
Retire_LeavesChild(w) ==
  /\ At("retire", w)
  /\ status' = [status EXCEPT ![w] = "Retired"]
  /\ resetRows' = [resetRows EXCEPT ![w] = {}]
  /\ owed' = owed \cup Rowids(w)
  /\ batch' = batch \ {w}
  /\ Step(w, "ready", {})
  /\ UNCHANGED <<closed, generation, procVars, calls, sent, answered>>

\* retire_worker: kill the child, close its socket, quarantine its rows.
Retire(w) ==
  /\ At("retire", w)
  /\ proc' = [proc EXCEPT ![Endpoint(w)] = "gone"]
  /\ status' = [status EXCEPT ![w] = "Retired"]
  /\ resetRows' = [resetRows EXCEPT ![w] = {}]
  /\ owed' = owed \cup Rowids(w)
  /\ batch' = batch \ {w}
  /\ Step(w, "ready", {})
  /\ UNCHANGED <<closed, generation, failure, requests, replies, calls, sent,
                 answered>>

\* The child cannot be inspected or killed: the whole pool is closed.
RetireFails(w) ==
  /\ At("retire", w)
  /\ EnterClose
  /\ UNCHANGED <<status, generation, resetRows, procVars, historyVars>>

-----------------------------------------------------------------------------
(***************************************************************************)
(* respawn                                                                 *)
(***************************************************************************)

\* The reset flags once the environments of `rows` have been reset.
MarkedRows(rows) ==
  [w \in Workers |-> IF status[w] = "Retired"
                     THEN resetRows[w] \cup (rows \cap Rowids(w))
                     ELSE resetRows[w]]

\* Mutant: one reset row brings the whole slice back.
Ready_AnyRow(w, marks) == status[w] = "Retired" /\ marks[w] # {}

\* A retired worker comes back when its complete slice has been reset.
Ready(w, marks) == status[w] = "Retired" /\ marks[w] = Rowids(w)

Respawn(rows) ==
  LET marks == MarkedRows(rows)
      ready == {w \in Workers : Ready(w, marks)}
  IN
  /\ pc = "ready"
  /\ \A w \in ready : generation[w] < MaxGeneration
  /\ resetRows' = marks
  /\ owed' = owed \ rows
  /\ batch' = ready
  /\ rest' = ready
  /\ pc' = IF ready = {} THEN "ready" ELSE "launch"
  /\ UNCHANGED <<closed, status, generation, procVars, calls, sent, answered>>

-----------------------------------------------------------------------------
(***************************************************************************)
(* close: broadcast Stop, wait once for the replies and once for the       *)
(* exits, kill the rest, forget the workers.  It throws nothing.           *)
(***************************************************************************)
CloseCall ==
  /\ pc = "ready"
  /\ EnterClose
  /\ UNCHANGED <<status, generation, resetRows, procVars, historyVars>>

Stoppable(w) == status[w] \in {"Completed", "Working"}

\* The send may fail; nobody looks.
Stop(w) ==
  /\ At("stop", w)
  /\ \/ /\ Stoppable(w)
        /\ requests' = [requests EXCEPT ![Endpoint(w)] = Append(@, StopTag)]
     \/ UNCHANGED requests
  /\ Step(w, "drain", Workers)
  /\ UNCHANGED <<batch, closed, status, generation, resetRows, proc, failure,
                 replies, historyVars>>

\* Mutant: the reply is awaited without a deadline.
Drain_NoDeadline(w) ==
  /\ At("drain", w)
  /\ IF Stoppable(w)
     THEN /\ replies[Endpoint(w)] # <<>>
          /\ replies' = [replies EXCEPT ![Endpoint(w)] = Tail(@)]
     ELSE UNCHANGED replies
  /\ Step(w, "reap", Workers)
  /\ UNCHANGED <<batch, closed, status, generation, resetRows, proc, failure,
                 requests, historyVars>>

\* One reply is received if it comes before the shared deadline.
Drain(w) ==
  /\ At("drain", w)
  /\ \/ /\ Stoppable(w)
        /\ replies[Endpoint(w)] # <<>>
        /\ replies' = [replies EXCEPT ![Endpoint(w)] = Tail(@)]
     \/ UNCHANGED replies
  /\ Step(w, "reap", Workers)
  /\ UNCHANGED <<batch, closed, status, generation, resetRows, proc, failure,
                 requests, historyVars>>

\* Whatever still runs when the exit deadline passes is terminated.
Reap ==
  /\ pc = "reap"
  /\ pc' = "closed"
  /\ rest' = {}
  /\ proc' = [e \in Endpoints |->
       IF status[e[1]] # "Absent" /\ e[2] = generation[e[1]] THEN "gone" ELSE proc[e]]
  /\ status' = [w \in Workers |-> "Absent"]
  /\ UNCHANGED <<batch, closed, generation, resetRows, failure, requests,
                 replies, historyVars>>

\* dispatch, collect and respawn throw and close returns: nothing changes.
CallOnClosed ==
  /\ pc = "closed"
  /\ UNCHANGED vars

-----------------------------------------------------------------------------
(***************************************************************************)
(* The worker process: main of worker.cpp on endpoint e.                   *)
(***************************************************************************)

\* Take the head request, and answer it.
Answer(e, error) ==
  /\ requests' = [requests EXCEPT ![e] = Tail(@)]
  /\ replies' = [replies EXCEPT ![e] =
       Append(@, [tag |-> Head(requests[e]), error |-> error])]

\* Map the slice and build the host; a failure is kept and reported.
Boot(e) ==
  /\ proc[e] = "booting"
  /\ requests[e] # <<>>
  /\ proc' = [proc EXCEPT ![e] = "idle"]
  /\ \E failed \in BOOLEAN :
       /\ failure' = [failure EXCEPT ![e] = failed]
       /\ Answer(e, failed)
  /\ UNCHANGED <<managerVars, historyVars>>

TakeOperation(e) ==
  /\ proc[e] = "idle"
  /\ requests[e] # <<>>
  /\ Head(requests[e]) # StopTag
  /\ proc' = [proc EXCEPT ![e] = "busy"]
  /\ UNCHANGED <<managerVars, failure, requests, replies, historyVars>>

\* The first exception an operation lets out fails every later operation.
FinishOperation(e) ==
  /\ proc[e] = "busy"
  /\ proc' = [proc EXCEPT ![e] = "idle"]
  /\ \E failed \in {failure[e], TRUE} :
       /\ failure' = [failure EXCEPT ![e] = failed]
       /\ Answer(e, failed)
  /\ UNCHANGED <<managerVars, historyVars>>

TakeStop(e) ==
  /\ proc[e] = "idle"
  /\ requests[e] # <<>>
  /\ Head(requests[e]) = StopTag
  /\ proc' = [proc EXCEPT ![e] = "gone"]
  /\ Answer(e, FALSE)
  /\ UNCHANGED <<managerVars, failure, historyVars>>

\* A segmentation fault, a signal, or a reply that cannot be sent.
Die(e) ==
  /\ proc[e] \in Alive
  /\ proc' = [proc EXCEPT ![e] = "gone"]
  /\ UNCHANGED <<managerVars, failure, requests, replies, historyVars>>

-----------------------------------------------------------------------------
Calls ==
  \/ Dispatch
  \/ Collect
  \/ \E rows \in (SUBSET Rows) \ {{}} : Respawn(rows)
  \/ CloseCall

\* The steps of a call in progress.
Progress ==
  \/ \E w \in Workers :
       \/ Launch(w) \/ LaunchFails(w) \/ Started(w) \/ StartFails(w)
       \/ DispatchTo(w) \/ SendFails(w) \/ DispatchSkips(w)
       \/ Harvest(w) \/ HarvestFails(w) \/ HarvestSkips(w)
       \/ Retire(w) \/ RetireFails(w)
       \/ Stop(w) \/ Drain(w)
  \/ Reap

WorkerStep(e) ==
  Boot(e) \/ TakeOperation(e) \/ FinishOperation(e) \/ TakeStop(e) \/ Die(e)

Next ==
  \/ Calls
  \/ Progress
  \/ \E e \in Endpoints : WorkerStep(e)
  \/ CallOnClosed

Spec == Init /\ [][Next]_vars

\* The trainer thread keeps executing the call it is in; a worker process
\* may stop for ever at any point.
FairSpec == Spec /\ WF_vars(Progress)

-----------------------------------------------------------------------------
(***************************************************************************)
(* Properties.                                                             *)
(***************************************************************************)

\* At most one message is under way between the manager and the worker of any
\* slice, and none at all once the manager believes the worker has answered:
\* a late reply can never be taken for the answer to the next operation.
OneOutstanding ==
  ~ closed =>
    \A w \in Workers :
      LET e == Endpoint(w) IN
      /\ Len(requests[e]) + Len(replies[e]) <= 1
      /\ status[w] = "Completed" => /\ requests[e] = <<>>
                                    /\ replies[e] = <<>>
                                    /\ proc[e] # "busy"

\* A worker is believed to have completed only on its current generation's
\* reply to the last operation it was sent; startup counts as operation 0.
AnsweredCurrent ==
  ~ closed =>
    \A w \in Workers :
      status[w] = "Completed" =>
        answered[w] = [gen |-> generation[w], tag |-> sent[w]]

\* A child process that runs belongs to the current generation of a worker
\* the manager still knows: neither a retirement, a replacement, a failed
\* call nor close leaves a process behind that could write the shared rows.
NoOrphanProcess ==
  \A e \in Endpoints :
    proc[e] \in Alive =>
      /\ e[2] = generation[e[1]]
      /\ status[e[1]] \notin {"Absent", "Retired"}

\* While a worker is quarantined its reset flags are exactly the rows reset
\* since its failure was reported.
CoverIsExact ==
  \A w \in Workers :
    status[w] = "Retired" => resetRows[w] = Rowids(w) \ owed

\* A slice gets a new process only when no row of it still awaits its reset:
\* an episode that has not ended never meets a replaced controller.
QuarantineUntilReset ==
  [][\A w \in Workers :
       generation'[w] # generation[w] => Rowids(w) \cap owed = {}]_vars

\* A quarantine never ends before every row of the slice was reset, and its reset flags
\* are exactly the rows reset since the failure, so that a second failure forgets the
\* resets of the first.
QuarantineIsExact == []CoverIsExact /\ QuarantineUntilReset

\* Every call of the manager returns, however many workers are wedged or dead.
CallsReturn == []<>(pc \in {"ready", "closed"})

\* Once close has begun it completes, and then no child runs.
CloseCompletes ==
  closed ~> (pc = "closed" /\ \A e \in Endpoints : proc[e] \notin Alive)

\* docs/process-workers.md: shutdown "drains an outstanding operation, sends
\* Stop, waits for its reply": the reply awaited is the one to Stop.  It is not
\* when an operation is outstanding; close then waits for the exit instead.
StopIsAcknowledged ==
  [][\A w \in Workers :
       Drain(w) /\ replies' # replies =>
         Head(replies[Endpoint(w)]).tag = StopTag]_vars

-----------------------------------------------------------------------------
(***************************************************************************)
(* The manager implements WorkerPool.                                      *)
(***************************************************************************)
Starting(w) == status[w] = "Working" /\ sent[w] = 0

SliceOf(w) ==
  CASE closed -> "Down"
    [] ~ closed /\ status[w] = "Completed" -> "Idle"
    [] ~ closed /\ status[w] = "Working" /\ ~ Starting(w) -> "Asked"
    [] ~ closed /\ status[w] \in {"Failed", "TimedOut"} -> "Lost"
    [] OTHER -> "Down"

CoveredOf(w) ==
  CASE closed -> {}
    [] ~ closed /\ (status[w] = "Absent" \/ Starting(w)) -> Rowids(w)
    [] OTHER -> resetRows[w]

Pool == INSTANCE WorkerPool WITH
  Worker <- Workers,
  Row <- Rows,
  RowsOf <- [w \in Workers |-> Rowids(w)],
  slice <- [w \in Workers |-> SliceOf(w)],
  covered <- [w \in Workers |-> CoveredOf(w)],
  open <- ~ closed

\* Processes, messages, deadlines and crashes hidden, the manager is a pool
\* whose slices are asked, answer or are lost, and come back after a reset.
ImplementsWorkerPool == Pool!PoolSpec
=============================================================================
