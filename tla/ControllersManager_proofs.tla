----------------------- MODULE ControllersManager_proofs -----------------------
(***************************************************************************)
(* The process pool for every number of controllers, workers, calls and    *)
(* replacements.                                                           *)
(***************************************************************************)
EXTENDS ControllersManager, RuntimeLemmas, SequenceTheorems

USE ManagerAssumption

-----------------------------------------------------------------------------
(***************************************************************************)
(* The inductive invariant.                                                *)
(***************************************************************************)

\* The pool is closed from the moment close starts.
Closing == closed <=> pc \in {"stop", "drain", "reap", "closed"}

\* spawn_worker is called only for slices without a process, once the rows of
\* the slice have been reset, and the new workers wait for their start.
Launching ==
  /\ pc = "launch" =>
       /\ \A w \in rest :
            \/ status[w] = "Absent" /\ generation[w] = 0
            \/ /\ status[w] = "Retired"
               /\ generation[w] < MaxGeneration
               /\ Rowids(w) \cap owed = {}
       /\ \A w \in batch \ rest : status[w] = "Working" /\ sent[w] = 0
  /\ pc = "start" => \A w \in rest : status[w] = "Working" /\ sent[w] = 0

\* No worker is sent more operations than there were calls.
Dispatching ==
  /\ \A w \in Workers : sent[w] <= calls
  /\ pc = "dispatch" => \A w \in rest : sent[w] < calls

\* An endpoint that no child has been given yet.
Unused(e) ==
  /\ proc[e] = "none"
  /\ requests[e] = <<>>
  /\ replies[e] = <<>>

\* The endpoints of later generations are unused, and so is the first one of a
\* worker that the constructor has not come to.
Fresh ==
  \A w \in Workers : \A g \in 0 .. MaxGeneration :
    g > generation[w] \/ (~ closed /\ status[w] = "Absent") => Unused(<<w, g>>)

\* A child works on a request it has not removed from the queue.
BusyHasRequest ==
  \A e \in Endpoints : proc[e] = "busy" => requests[e] # <<>>

\* A worker that works has its last request either before it or answered; one
\* that completed has neither; one that failed, at most one of the two.
Exchange(w) ==
  LET e == Endpoint(w) IN
  /\ status[w] = "Working" =>
       \/ requests[e] = <<sent[w]>> /\ replies[e] = <<>>
       \/ /\ requests[e] = <<>>
          /\ Len(replies[e]) = 1 /\ replies[e][1].tag = sent[w]
          /\ proc[e] # "busy"
  /\ status[w] = "Completed" =>
       /\ requests[e] = <<>> /\ replies[e] = <<>>
       /\ proc[e] # "busy"
       /\ answered[w] = [gen |-> generation[w], tag |-> sent[w]]
  /\ Len(requests[e]) + Len(replies[e]) <= 1

Exchanges == ~ closed => \A w \in Workers : Exchange(w)

ManagerInv ==
  /\ Closing
  /\ Launching
  /\ Dispatching
  /\ Fresh
  /\ BusyHasRequest
  /\ Exchanges
  /\ NoOrphanProcess
  /\ CoverIsExact

-----------------------------------------------------------------------------
(***************************************************************************)
(* Facts used throughout.                                                  *)
(***************************************************************************)

\* The slices partition the rows.
LEMMA Slices ==
  ASSUME NEW v \in Workers, NEW w \in Workers
  PROVE  /\ Rowids(w) \subseteq Rows
         /\ Rowids(w) # {}
         /\ v # w => Rowids(v) \cap Rowids(w) = {}
BY SlicesPartition DEF Workers, Rows, Rowids

\* The endpoint of a worker, and the one of its replacement.
LEMMA EndpointType ==
  ASSUME TypeOK, NEW w \in Workers
  PROVE  Endpoint(w) \in Endpoints
BY DEF TypeOK, Endpoint, Endpoints

\* The tags of messages.
LEMMA TagType == StartTag \in Tags /\ StopTag \in Tags
BY DEF StartTag, StopTag, Tags

-----------------------------------------------------------------------------
(***************************************************************************)
(* Types.                                                                  *)
(***************************************************************************)
ManagerType ==
  /\ pc \in Phases
  /\ rest \in SUBSET Workers
  /\ batch \in SUBSET Workers
  /\ closed \in BOOLEAN
  /\ status \in [Workers -> Statuses]
  /\ generation \in [Workers -> 0 .. MaxGeneration]
  /\ resetRows \in [Workers -> SUBSET Rows]

ProcType ==
  /\ proc \in [Endpoints -> ProcStates]
  /\ failure \in [Endpoints -> BOOLEAN]
  /\ requests \in [Endpoints -> Seq(Tags)]
  /\ replies \in [Endpoints -> Seq(Reply)]

HistoryType ==
  /\ calls \in 0 .. MaxCalls
  /\ sent \in [Workers -> 0 .. MaxCalls]
  /\ answered \in [Workers -> AnswerTags]
  /\ owed \in SUBSET Rows

\* TypeOK in three parts, which most actions leave alone as a whole.
LEMMA TypeParts ==
  /\ TypeOK <=> ManagerType /\ ProcType /\ HistoryType
  /\ TypeOK' <=> ManagerType' /\ ProcType' /\ HistoryType'
BY DEF TypeOK, ManagerType, ProcType, HistoryType

\* A part that is left alone keeps its type.
LEMMA TypeUnchanged ==
  /\ ManagerType /\ UNCHANGED managerVars => ManagerType'
  /\ ProcType /\ UNCHANGED procVars => ProcType'
  /\ HistoryType /\ UNCHANGED historyVars => HistoryType'
BY DEF ManagerType, ProcType, HistoryType, managerVars, procVars, historyVars

\* The loop variables keep their types.
LEMMA StepType ==
  ASSUME ManagerType, NEW w \in Workers, NEW there \in Phases,
         NEW workers \in SUBSET Workers, Step(w, there, workers)
  PROVE  pc' \in Phases /\ rest' \in SUBSET Workers
<1>1. "ready" \in Phases
  BY DEF Phases
<1>2. CASE rest = {w}
  BY <1>1, <1>2 DEF Step
<1>3. CASE rest # {w}
  BY <1>3 DEF Step, ManagerType
<1> QED BY <1>2, <1>3

\* Entering close keeps them, too.
LEMMA CloseType ==
  ASSUME ManagerType, EnterClose, UNCHANGED <<generation, resetRows>>,
         status' \in [Workers -> Statuses]
  PROVE  ManagerType'
<1>1. closed' \in BOOLEAN
  BY Zenon DEF EnterClose
<1> QED BY <1>1 DEF EnterClose, Phases, ManagerType

\* Putting a message into a queue, and taking one out of it.
LEMMA QueueType ==
  ASSUME ProcType, NEW e \in Endpoints
  PROVE  /\ \A t \in Tags : [requests EXCEPT ![e] = Append(@, t)] \in [Endpoints -> Seq(Tags)]
         /\ \A r \in Reply : [replies EXCEPT ![e] = Append(@, r)] \in [Endpoints -> Seq(Reply)]
         /\ requests[e] # <<>> =>
              /\ Head(requests[e]) \in Tags
              /\ [requests EXCEPT ![e] = Tail(@)] \in [Endpoints -> Seq(Tags)]
         /\ replies[e] # <<>> =>
              /\ Head(replies[e]) \in Reply
              /\ [replies EXCEPT ![e] = Tail(@)] \in [Endpoints -> Seq(Reply)]
<1>1. requests[e] \in Seq(Tags) /\ replies[e] \in Seq(Reply)
  BY DEF ProcType
<1>2. \A t \in Tags : Append(requests[e], t) \in Seq(Tags)
  BY <1>1
<1>3. \A r \in Reply : Append(replies[e], r) \in Seq(Reply)
  BY <1>1
<1>4. requests[e] # <<>> => Head(requests[e]) \in Tags /\ Tail(requests[e]) \in Seq(Tags)
  BY <1>1
<1>5. replies[e] # <<>> => Head(replies[e]) \in Reply /\ Tail(replies[e]) \in Seq(Reply)
  BY <1>1
<1> QED BY <1>2, <1>3, <1>4, <1>5 DEF ProcType

\* Every step of the manager's own loops keeps the types.
LEMMA LoopTypes ==
  ASSUME TypeOK, ManagerInv, NEW w \in Workers,
         \/ Launch(w) \/ LaunchFails(w) \/ Started(w) \/ StartFails(w)
         \/ DispatchTo(w) \/ SendFails(w) \/ DispatchSkips(w)
         \/ Harvest(w) \/ HarvestFails(w) \/ HarvestSkips(w)
         \/ Retire(w) \/ RetireFails(w) \/ Stop(w) \/ Drain(w)
  PROVE  TypeOK'
<1>1. ManagerType /\ ProcType /\ HistoryType
  BY TypeParts
<1>2. Endpoint(w) \in Endpoints
  BY EndpointType
<1>3. {"start", "retire", "drain", "reap", "ready"} \subseteq Phases
  BY DEF Phases
<1>4. {"Working", "Completed", "TimedOut", "Failed", "Retired"} \subseteq Statuses
  BY DEF Statuses
<1>5. CASE Launch(w)
  <2> DEFINE g == NextGeneration(w)
  <2>1. w \in rest /\ pc = "launch"
    BY <1>5 DEF Launch, At
  <2>2. g \in 0 .. MaxGeneration
    BY <1>1, <2>1 DEF ManagerInv, Launching, NextGeneration, ManagerType
  <2>3. <<w, g>> \in Endpoints
    BY <2>2 DEF Endpoints
  <2>4. /\ generation' = [generation EXCEPT ![w] = g]
        /\ status' = [status EXCEPT ![w] = "Working"]
        /\ resetRows' = [resetRows EXCEPT ![w] = {}]
        /\ proc' = [proc EXCEPT ![<<w, g>>] = "booting"]
        /\ requests' = [requests EXCEPT ![<<w, g>>] = Append(@, StartTag)]
        /\ sent' = [sent EXCEPT ![w] = 0]
        /\ Step(w, "start", batch)
        /\ UNCHANGED <<batch, closed, failure, replies, calls, answered, owed>>
    BY <1>5 DEF Launch
  <2> HIDE DEF g
  <2>5. pc' \in Phases /\ rest' \in SUBSET Workers
    BY <1>1, <1>3, <2>4, StepType DEF ManagerType
  <2>6. ManagerType'
    BY <1>1, <1>4, <2>2, <2>4, <2>5 DEF ManagerType
  <2>7. ProcType'
    BY <1>1, <2>3, <2>4, QueueType, TagType DEF ProcType, ProcStates
  <2>8. HistoryType'
    BY <1>1, <2>4 DEF HistoryType
  <2> QED BY <2>6, <2>7, <2>8, TypeParts
<1>6. CASE LaunchFails(w)
  BY <1>1, <1>6, CloseType, TypeUnchanged, TypeParts DEF LaunchFails, ManagerType
<1>7. CASE Started(w)
  <2> DEFINE r == Head(replies[Endpoint(w)])
  <2>1. r \in Reply /\ replies' \in [Endpoints -> Seq(Reply)]
    BY <1>1, <1>2, <1>7, QueueType DEF Started
  <2>2. [gen |-> generation[w], tag |-> r.tag] \in AnswerTags
    BY <1>1, <2>1 DEF AnswerTags, Reply, ManagerType
  <2>3. pc' \in Phases /\ rest' \in SUBSET Workers
    BY <1>1, <1>3, <1>7, StepType DEF Started
  <2>4. ManagerType'
    BY <1>1, <1>4, <1>7, <2>3 DEF Started, ManagerType
  <2>5. ProcType'
    BY <1>1, <1>7, <2>1 DEF Started, ProcType
  <2>6. HistoryType'
    BY <1>1, <1>7, <2>2 DEF Started, HistoryType
  <2> QED BY <2>4, <2>5, <2>6, TypeParts
<1>8. CASE StartFails(w)
  <2>1. status' \in [Workers -> Statuses]
    BY <1>1, <1>4, <1>8 DEF StartFails, ManagerType
  <2>2. ManagerType'
    BY <1>1, <1>8, <2>1, CloseType DEF StartFails
  <2>3. replies' \in [Endpoints -> Seq(Reply)]
    BY <1>1, <1>2, <1>8, QueueType DEF StartFails, ProcType
  <2>4. ProcType'
    BY <1>1, <1>8, <2>3 DEF StartFails, ProcType
  <2> QED BY <1>1, <1>8, <2>2, <2>4, TypeUnchanged, TypeParts DEF StartFails
<1>9. CASE DispatchTo(w)
  <2>1. sent[w] + 1 \in 0 .. MaxCalls /\ sent[w] + 1 \in Tags
    BY <1>1, <1>9 DEF DispatchTo, At, ManagerInv, Dispatching, HistoryType, Tags
  <2>2. pc' \in Phases /\ rest' \in SUBSET Workers
    BY <1>1, <1>3, <1>9, StepType DEF DispatchTo
  <2>3. ManagerType'
    BY <1>1, <1>4, <1>9, <2>2 DEF DispatchTo, ManagerType
  <2>4. ProcType'
    BY <1>1, <1>2, <1>9, <2>1, QueueType DEF DispatchTo, ProcType
  <2>5. HistoryType'
    BY <1>1, <1>9, <2>1 DEF DispatchTo, HistoryType
  <2> QED BY <2>3, <2>4, <2>5, TypeParts
<1>10. CASE SendFails(w)
  <2>1. pc' \in Phases /\ rest' \in SUBSET Workers
    BY <1>1, <1>3, <1>10, StepType DEF SendFails
  <2>2. ManagerType'
    BY <1>1, <1>4, <1>10, <2>1 DEF SendFails, ManagerType
  <2> QED BY <1>1, <1>10, <2>2, TypeUnchanged, TypeParts DEF SendFails
<1>11. CASE DispatchSkips(w)
  <2>1. pc' \in Phases /\ rest' \in SUBSET Workers
    BY <1>1, <1>3, <1>11, StepType DEF DispatchSkips
  <2>2. ManagerType'
    BY <1>1, <1>11, <2>1 DEF DispatchSkips, ManagerType
  <2> QED BY <1>1, <1>11, <2>2, TypeUnchanged, TypeParts DEF DispatchSkips, historyVars
<1>12. CASE Harvest(w)
  <2> DEFINE r == Head(replies[Endpoint(w)])
  <2>1. r \in Reply /\ replies' \in [Endpoints -> Seq(Reply)]
    BY <1>1, <1>2, <1>12, QueueType DEF Harvest
  <2>2. [gen |-> generation[w], tag |-> r.tag] \in AnswerTags
    BY <1>1, <2>1 DEF AnswerTags, Reply, ManagerType
  <2>3. batch' \in SUBSET Workers /\ status' \in [Workers -> Statuses]
    BY <1>1, <1>4, <1>12 DEF Harvest, ManagerType
  <2>4. pc' \in Phases /\ rest' \in SUBSET Workers
    BY <1>1, <1>3, <1>12, <2>3, StepType DEF Harvest
  <2>5. ManagerType'
    BY <1>1, <1>12, <2>3, <2>4 DEF Harvest, ManagerType
  <2>6. ProcType'
    BY <1>1, <1>12, <2>1 DEF Harvest, ProcType
  <2>7. HistoryType'
    BY <1>1, <1>12, <2>2 DEF Harvest, HistoryType
  <2> QED BY <2>5, <2>6, <2>7, TypeParts
<1>13. CASE HarvestFails(w)
  <2>1. batch' \in SUBSET Workers /\ status' \in [Workers -> Statuses]
    BY <1>1, <1>4, <1>13 DEF HarvestFails, ManagerType
  <2>2. pc' \in Phases /\ rest' \in SUBSET Workers
    BY <1>1, <1>3, <1>13, <2>1, StepType DEF HarvestFails
  <2>3. ManagerType'
    BY <1>1, <1>13, <2>1, <2>2 DEF HarvestFails, ManagerType
  <2> QED BY <1>1, <1>13, <2>3, TypeUnchanged, TypeParts DEF HarvestFails
<1>14. CASE HarvestSkips(w)
  <2>1. batch' \in SUBSET Workers
    BY <1>1, <1>14 DEF HarvestSkips, ManagerType
  <2>2. pc' \in Phases /\ rest' \in SUBSET Workers
    BY <1>1, <1>3, <1>14, <2>1, StepType DEF HarvestSkips
  <2>3. ManagerType'
    BY <1>1, <1>14, <2>1, <2>2 DEF HarvestSkips, ManagerType
  <2> QED BY <1>1, <1>14, <2>3, TypeUnchanged, TypeParts DEF HarvestSkips
<1>15. CASE Retire(w)
  <2>1. pc' \in Phases /\ rest' \in SUBSET Workers
    BY <1>1, <1>3, <1>15, StepType DEF Retire
  <2>2. ManagerType'
    BY <1>1, <1>4, <1>15, <2>1 DEF Retire, ManagerType
  <2>3. ProcType'
    BY <1>1, <1>2, <1>15 DEF Retire, ProcType, ProcStates
  <2>4. HistoryType'
    BY <1>1, <1>15, Slices DEF Retire, HistoryType
  <2> QED BY <2>2, <2>3, <2>4, TypeParts
<1>16. CASE RetireFails(w)
  BY <1>1, <1>16, CloseType, TypeUnchanged, TypeParts DEF RetireFails, ManagerType
<1>17. CASE Stop(w)
  <2>1. pc' \in Phases /\ rest' \in SUBSET Workers
    BY <1>1, <1>3, <1>17, StepType DEF Stop
  <2>2. ManagerType'
    BY <1>1, <1>17, <2>1 DEF Stop, ManagerType
  <2>3. requests' \in [Endpoints -> Seq(Tags)]
    <3>1. [requests EXCEPT ![Endpoint(w)] = Append(@, StopTag)] \in [Endpoints -> Seq(Tags)]
      BY <1>1, <1>2, QueueType, TagType
    <3>2. CASE UNCHANGED requests
      BY <1>1, <3>2 DEF ProcType
    <3>3. CASE requests' = [requests EXCEPT ![Endpoint(w)] = Append(@, StopTag)]
      BY <3>1, <3>3
    <3> QED BY <1>17, <3>2, <3>3 DEF Stop
  <2>4. ProcType'
    BY <1>1, <1>17, <2>3 DEF Stop, ProcType
  <2> QED BY <1>1, <1>17, <2>2, <2>4, TypeUnchanged, TypeParts DEF Stop
<1>18. CASE Drain(w)
  <2>1. pc' \in Phases /\ rest' \in SUBSET Workers
    BY <1>1, <1>3, <1>18, StepType DEF Drain
  <2>2. ManagerType'
    BY <1>1, <1>18, <2>1 DEF Drain, ManagerType
  <2>3. replies' \in [Endpoints -> Seq(Reply)]
    BY <1>1, <1>2, <1>18, QueueType DEF Drain, ProcType
  <2>4. ProcType'
    BY <1>1, <1>18, <2>3 DEF Drain, ProcType
  <2> QED BY <1>1, <1>18, <2>2, <2>4, TypeUnchanged, TypeParts DEF Drain
<1> QED BY <1>5, <1>6, <1>7, <1>8, <1>9, <1>10, <1>11, <1>12, <1>13, <1>14,
           <1>15, <1>16, <1>17, <1>18

\* The rest of the type proof: the calls, the end of close and the workers.
LEMMA CallTypes ==
  ASSUME TypeOK, ManagerInv,
         \/ Dispatch \/ Collect \/ CloseCall \/ Reap
         \/ \E rows \in (SUBSET Rows) \ {{}} : Respawn(rows)
  PROVE  TypeOK'
<1>1. ManagerType /\ ProcType /\ HistoryType
  BY TypeParts
<1>2. {"ready", "launch", "dispatch", "collect", "closed"} \subseteq Phases
  BY DEF Phases
<1>3. CASE Dispatch
  <2>1. ManagerType'
    BY <1>1, <1>2, <1>3 DEF Dispatch, ManagerType
  <2>2. ProcType' /\ HistoryType'
    BY <1>1, <1>3, TypeUnchanged DEF Dispatch, HistoryType
  <2> QED BY <2>1, <2>2, TypeParts
<1>4. CASE Collect
  <2>1. ManagerType'
    BY <1>1, <1>2, <1>4 DEF Collect, ManagerType
  <2> QED BY <1>1, <1>4, <2>1, TypeUnchanged, TypeParts DEF Collect
<1>5. CASE CloseCall
  BY <1>1, <1>5, CloseType, TypeUnchanged, TypeParts DEF CloseCall, ManagerType
<1>6. CASE Reap
  <2>1. ManagerType'
    BY <1>1, <1>2, <1>6 DEF Reap, ManagerType, Statuses
  <2>2. proc' \in [Endpoints -> ProcStates]
    BY <1>1, <1>6 DEF Reap, ProcType, ProcStates
  <2>3. ProcType'
    BY <1>1, <1>6, <2>2 DEF Reap, ProcType
  <2> QED BY <1>1, <1>6, <2>1, <2>3, TypeUnchanged, TypeParts DEF Reap
<1>7. ASSUME NEW rows \in (SUBSET Rows) \ {{}}, Respawn(rows) PROVE TypeOK'
  <2>1. resetRows' \in [Workers -> SUBSET Rows]
    BY <1>1, <1>7 DEF Respawn, MarkedRows, ManagerType
  <2>2. ManagerType'
    BY <1>1, <1>2, <1>7, <2>1 DEF Respawn, ManagerType
  <2>3. HistoryType'
    BY <1>1, <1>7 DEF Respawn, HistoryType
  <2> QED BY <1>1, <1>7, <2>2, <2>3, TypeUnchanged, TypeParts DEF Respawn
<1> QED BY <1>3, <1>4, <1>5, <1>6, <1>7

\* Answering takes the request out of its queue.
LEMMA AnswerType ==
  ASSUME ProcType, NEW e \in Endpoints, requests[e] # <<>>,
         NEW error \in BOOLEAN, Answer(e, error)
  PROVE  /\ requests' \in [Endpoints -> Seq(Tags)]
         /\ replies' \in [Endpoints -> Seq(Reply)]
<1>1. [tag |-> Head(requests[e]), error |-> error] \in Reply
  BY QueueType DEF Reply
<1> QED BY <1>1, QueueType DEF Answer

LEMMA WorkerTypes ==
  ASSUME TypeOK, ManagerInv, NEW e \in Endpoints, WorkerStep(e)
  PROVE  TypeOK'
<1>1. ManagerType /\ ProcType /\ HistoryType
  BY TypeParts
<1>2. ManagerType' /\ HistoryType'
  BY <1>1, TypeUnchanged DEF WorkerStep, Boot, TakeOperation, FinishOperation, TakeStop, Die
<1>3. {"idle", "busy", "gone"} \subseteq ProcStates
  BY DEF ProcStates
<1>4. CASE Boot(e)
  <2>1. PICK failed \in BOOLEAN :
          failure' = [failure EXCEPT ![e] = failed] /\ Answer(e, failed)
    BY <1>4 DEF Boot
  <2>2. requests' \in [Endpoints -> Seq(Tags)] /\ replies' \in [Endpoints -> Seq(Reply)]
    BY <1>1, <1>4, <2>1, AnswerType DEF Boot
  <2>3. ProcType'
    BY <1>1, <1>3, <1>4, <2>1, <2>2 DEF Boot, ProcType
  <2> QED BY <1>2, <2>3, TypeParts
<1>5. CASE TakeOperation(e)
  BY <1>1, <1>2, <1>3, <1>5, TypeParts DEF TakeOperation, ProcType
<1>6. CASE FinishOperation(e)
  <2>1. PICK failed \in {failure[e], TRUE} :
          failure' = [failure EXCEPT ![e] = failed] /\ Answer(e, failed)
    BY <1>6 DEF FinishOperation
  <2>2. failed \in BOOLEAN
    BY <1>1, <2>1, Zenon DEF ProcType
  <2>3. requests[e] # <<>>
    BY <1>6 DEF FinishOperation, ManagerInv, BusyHasRequest
  <2>4. requests' \in [Endpoints -> Seq(Tags)] /\ replies' \in [Endpoints -> Seq(Reply)]
    BY <1>1, <2>1, <2>2, <2>3, AnswerType
  <2>5. ProcType'
    BY <1>1, <1>3, <1>6, <2>1, <2>2, <2>4 DEF FinishOperation, ProcType
  <2> QED BY <1>2, <2>5, TypeParts
<1>7. CASE TakeStop(e)
  <2>1. requests' \in [Endpoints -> Seq(Tags)] /\ replies' \in [Endpoints -> Seq(Reply)]
    BY <1>1, <1>7, AnswerType DEF TakeStop
  <2>2. ProcType'
    BY <1>1, <1>3, <1>7, <2>1 DEF TakeStop, ProcType
  <2> QED BY <1>2, <2>2, TypeParts
<1>8. CASE Die(e)
  BY <1>1, <1>2, <1>3, <1>8, TypeParts DEF Die, ProcType
<1> QED BY <1>4, <1>5, <1>6, <1>7, <1>8 DEF WorkerStep

-----------------------------------------------------------------------------
(***************************************************************************)
(* Queues and exchanges.                                                   *)
(***************************************************************************)

\* A queue of one message is empty without it.
LEMMA SingleQueue ==
  ASSUME NEW S, NEW s \in Seq(S), s # <<>>, Len(s) <= 1
  PROVE  Len(s) = 1 /\ Head(s) = s[1] /\ Tail(s) = <<>>
<1>0. Len(s) \in Nat \ {0}
  BY EmptySeq
<1>1. Len(s) = 1
  <2> DEFINE n == Len(s)
  <2>1. n \in Nat \ {0} /\ n <= 1
    BY <1>0
  <2> HIDE DEF n
  <2>2. n = 1
    BY <2>1
  <2> QED BY <2>2 DEF n
<1>2. Tail(s) \in Seq(S) /\ Len(Tail(s)) = 0
  BY <1>0, <1>1, HeadTailProperties
<1>3. Tail(s) = <<>>
  BY <1>2, EmptySeq
<1> QED BY <1>1, <1>3

\* An empty queue has one message once it has been given one.
LEMMA FirstMessage ==
  ASSUME NEW x
  PROVE  /\ Append(<<>>, x) = <<x>>
         /\ Len(<<x>>) = 1 /\ Head(<<x>>) = x /\ Tail(<<x>>) = <<>>
         /\ <<x>>[1] = x /\ <<x>> # <<>> /\ Len(<<>>) = 0
OBVIOUS

\* What a step leaves alone of v's exchange stays right.
LEMMA ExchangeFrame ==
  ASSUME NEW v \in Workers, Exchange(v),
         status'[v] = status[v], generation'[v] = generation[v],
         sent'[v] = sent[v], answered'[v] = answered[v],
         requests'[Endpoint(v)] = requests[Endpoint(v)],
         replies'[Endpoint(v)] = replies[Endpoint(v)],
         proc'[Endpoint(v)] = proc[Endpoint(v)]
  PROVE  Exchange(v)'
BY DEF Exchange, Endpoint

\* Between two requests both queues are empty.
LEMMA EmptyExchange ==
  ASSUME NEW v \in Workers, generation'[v] = generation[v], status'[v] # "Working",
         requests'[Endpoint(v)] = <<>>, replies'[Endpoint(v)] = <<>>,
         proc'[Endpoint(v)] # "busy",
         status'[v] = "Completed" =>
           answered'[v] = [gen |-> generation'[v], tag |-> sent'[v]]
  PROVE  Exchange(v)'
<1>1. Len(requests'[Endpoint(v)]) + Len(replies'[Endpoint(v)]) <= 1
  BY DEF Exchange
<1>2. Endpoint(v)' = Endpoint(v)
  BY DEF Endpoint
<1> QED BY <1>1, <1>2 DEF Exchange

-----------------------------------------------------------------------------
(***************************************************************************)
(* The steps of the manager's loops.                                       *)
(***************************************************************************)

\* A new child gets an unused endpoint, and nothing runs beside it.
LEMMA InvLaunch ==
  ASSUME TypeOK, ManagerInv, NEW w \in Workers, Launch(w)
  PROVE  ManagerInv'
<1> DEFINE g == NextGeneration(w)
<1>1. ManagerType /\ ProcType /\ HistoryType
  BY TypeParts
<1>4. status[w] \in {"Absent", "Retired"} /\ w \in rest /\ pc = "launch"
  BY DEF Launch, At, ManagerInv, Launching
<1>2. g \in 0 .. MaxGeneration /\ g >= generation[w] /\ Unused(<<w, g>>) /\ <<w, g>> \in Endpoints
  <2>1. ~ closed
    BY <1>4 DEF ManagerInv, Closing
  <2>2. CASE status[w] = "Absent"
    BY <1>1, <1>4, <2>1, <2>2 DEF ManagerInv, Launching, Fresh, NextGeneration, ManagerType, Endpoints
  <2>3. CASE status[w] = "Retired"
    BY <1>1, <1>4, <2>3 DEF ManagerInv, Launching, Fresh, NextGeneration, ManagerType, Endpoints
  <2> QED BY <1>4, <2>2, <2>3
<1>3. /\ generation' = [generation EXCEPT ![w] = g]
      /\ status' = [status EXCEPT ![w] = "Working"]
      /\ resetRows' = [resetRows EXCEPT ![w] = {}]
      /\ proc' = [proc EXCEPT ![<<w, g>>] = "booting"]
      /\ requests' = [requests EXCEPT ![<<w, g>>] = Append(@, StartTag)]
      /\ sent' = [sent EXCEPT ![w] = 0]
      /\ UNCHANGED <<batch, closed, failure, replies, calls, answered, owed>>
  BY DEF Launch
<1> HIDE DEF g
<1>5. Closing'
  BY <1>1 DEF ManagerInv, Closing, Launch, NextGeneration, At, Step, EnterClose
<1>6. Launching'
  BY <1>1 DEF ManagerInv, Launching, Launch, NextGeneration, At, Step, EnterClose, ManagerType, HistoryType
<1>7. Dispatching'
  BY <1>1 DEF ManagerInv, Dispatching, Launch, NextGeneration, At, Step, EnterClose, HistoryType, historyVars
<1>8. Fresh'
  <2> SUFFICES ASSUME NEW v \in Workers, NEW h \in 0 .. MaxGeneration,
                      h > generation'[v] \/ (~ closed' /\ status'[v] = "Absent")
               PROVE  Unused(<<v, h>>)'
    BY DEF Fresh
  <2>1. CASE v = w
    <3>1. h > g /\ h > generation[w]
      BY <1>1, <1>2, <1>3, <2>1 DEF ManagerType
    <3>2. Unused(<<v, h>>)
      BY <2>1, <3>1 DEF ManagerInv, Fresh
    <3>3. <<v, h>> \in Endpoints /\ <<v, h>> # <<w, g>>
      BY <1>1, <1>2, <2>1, <3>1 DEF Endpoints
    <3> QED BY <1>1, <1>2, <1>3, <3>2, <3>3 DEF Unused, ProcType
  <2>2. CASE v # w
    <3>1. Unused(<<v, h>>)
      BY <1>1, <1>3, <2>2 DEF ManagerInv, Fresh, ManagerType
    <3> QED BY <1>1, <1>3, <2>2, <3>1 DEF Unused, ProcType, Endpoints
  <2> QED BY <2>1, <2>2
<1>9. BusyHasRequest'
  BY <1>1, <1>2, <1>3 DEF ManagerInv, BusyHasRequest, ProcType
<1>10. Exchanges'
  <2> SUFFICES ASSUME ~ closed, NEW v \in Workers PROVE Exchange(v)'
    BY <1>3 DEF Exchanges
  <2>1. CASE v = w
    <3>1. Endpoint(w)' = <<w, g>>
      BY <1>1, <1>3 DEF Endpoint, ManagerType
    <3>2. requests'[<<w, g>>] = <<StartTag>> /\ replies'[<<w, g>>] = <<>>
      BY <1>1, <1>2, <1>3, FirstMessage DEF Unused, ProcType
    <3>3. status'[w] = "Working" /\ sent'[w] = StartTag
      BY <1>1, <1>3 DEF ManagerType, HistoryType, StartTag
    <3> QED BY <2>1, <3>1, <3>2, <3>3, FirstMessage DEF Exchange
  <2>2. CASE v # w
    <3>1. Exchange(v) /\ Endpoint(v) # <<w, g>> /\ Endpoint(v) \in Endpoints
      BY <2>2, EndpointType DEF ManagerInv, Exchanges, Endpoint
    <3>2. /\ status'[v] = status[v] /\ generation'[v] = generation[v]
          /\ sent'[v] = sent[v] /\ answered'[v] = answered[v]
      BY <1>1, <1>3, <2>2 DEF ManagerType, HistoryType
    <3> QED BY <1>1, <1>3, <3>1, <3>2, ExchangeFrame DEF ProcType
  <2> QED BY <2>1, <2>2
<1>11. NoOrphanProcess'
  <2> SUFFICES ASSUME NEW e \in Endpoints, proc'[e] \in Alive
               PROVE  /\ e[2] = generation'[e[1]]
                      /\ status'[e[1]] \notin {"Absent", "Retired"}
    BY DEF NoOrphanProcess
  <2>1. CASE e = <<w, g>>
    BY <1>1, <1>3, <2>1 DEF ManagerType
  <2>2. CASE e # <<w, g>>
    <3>1. proc[e] \in Alive
      BY <1>1, <1>3, <2>2 DEF ProcType
    <3>2. e[2] = generation[e[1]] /\ status[e[1]] \notin {"Absent", "Retired"} /\ e[1] \in Workers
      BY <3>1 DEF ManagerInv, NoOrphanProcess, Endpoints
    <3>3. e[1] # w
      BY <1>4, <3>2
    <3> QED BY <1>1, <1>3, <3>2, <3>3 DEF ManagerType
  <2> QED BY <2>1, <2>2
<1>12. CoverIsExact'
  BY <1>1, Slices DEF ManagerInv, CoverIsExact, Launch, NextGeneration, EnterClose, At, ManagerType, HistoryType, historyVars
<1> QED BY <1>5, <1>6, <1>7, <1>8, <1>9, <1>10, <1>11, <1>12 DEF ManagerInv

\* A failed launch enters close.
LEMMA InvLaunchFails ==
  ASSUME TypeOK, ManagerInv, NEW w \in Workers, LaunchFails(w)
  PROVE  ManagerInv'
<1>1. ManagerType /\ ProcType /\ HistoryType /\ Endpoint(w) \in Endpoints
  BY TypeParts, EndpointType
<1>2. Closing'
  BY <1>1 DEF ManagerInv, Closing, LaunchFails, At, Step, EnterClose
<1>3. Launching'
  BY <1>1 DEF ManagerInv, Launching, LaunchFails, At, Step, EnterClose, ManagerType, HistoryType
<1>4. Dispatching'
  BY <1>1 DEF ManagerInv, Dispatching, LaunchFails, At, Step, EnterClose, HistoryType, historyVars
<1>5. Fresh'
  BY <1>1 DEF ManagerInv, Fresh, Unused, LaunchFails, EnterClose, Endpoint, Endpoints, ManagerType, ProcType, procVars
<1>6. BusyHasRequest'
  BY <1>1 DEF ManagerInv, BusyHasRequest, LaunchFails, Endpoints, ProcType, procVars
<1>7. Exchanges'
  BY <1>1 DEF ManagerInv, Exchanges, Exchange, Closing, LaunchFails, At, EnterClose, Endpoint, Endpoints, ManagerType, ProcType, HistoryType, procVars, historyVars
<1>8. NoOrphanProcess'
  BY <1>1 DEF ManagerInv, NoOrphanProcess, LaunchFails, EnterClose, Endpoint, Endpoints, ManagerType, ProcType, procVars
<1>9. CoverIsExact'
  BY <1>1, Slices DEF ManagerInv, CoverIsExact, LaunchFails, EnterClose, At, ManagerType, HistoryType, historyVars
<1> QED BY <1>2, <1>3, <1>4, <1>5, <1>6, <1>7, <1>8, <1>9 DEF ManagerInv

\* The startup reply is operation 0's.
LEMMA InvStarted ==
  ASSUME TypeOK, ManagerInv, NEW w \in Workers, Started(w)
  PROVE  ManagerInv'
<1>1. ManagerType /\ ProcType /\ HistoryType /\ Endpoint(w) \in Endpoints
  BY TypeParts, EndpointType
<1>2. Closing'
  BY <1>1 DEF ManagerInv, Closing, Started, At, Step, EnterClose
<1>3. Launching'
  BY <1>1 DEF ManagerInv, Launching, Started, At, Step, EnterClose, ManagerType, HistoryType
<1>4. Dispatching'
  BY <1>1 DEF ManagerInv, Dispatching, Started, At, Step, EnterClose, HistoryType, historyVars
<1>5. Fresh'
  BY <1>1 DEF ManagerInv, Fresh, Unused, Started, EnterClose, Endpoint, Endpoints, ManagerType, ProcType, procVars
<1>6. BusyHasRequest'
  BY <1>1 DEF ManagerInv, BusyHasRequest, Started, Endpoints, ProcType, procVars
<1>7. Exchanges'
  <2> SUFFICES ASSUME ~ closed, NEW v \in Workers PROVE Exchange(v)'
    BY DEF Exchanges, Started
  <2>1. Exchange(v) /\ Endpoint(v) \in Endpoints
    BY EndpointType DEF ManagerInv, Exchanges
  <2>2. CASE v = w
    <3>1. /\ Len(replies[Endpoint(w)]) = 1 /\ Head(replies[Endpoint(w)]).tag = sent[w]
          /\ Tail(replies[Endpoint(w)]) = <<>>
          /\ requests[Endpoint(w)] = <<>> /\ proc[Endpoint(w)] # "busy"
      BY <1>1, <2>1, <2>2, SingleQueue, SMTT(30)
         DEF Exchange, Started, At, ManagerInv, Launching, ProcType
    <3>2. /\ status'[w] = "Completed" /\ sent'[w] = sent[w]
          /\ answered'[w] = [gen |-> generation[w], tag |-> sent[w]]
      BY <1>1, <3>1 DEF Started, ManagerType, HistoryType
    <3>3. replies'[Endpoint(w)] = <<>>
      BY <1>1, <3>1 DEF Started, ProcType
    <3>4. Endpoint(w)' = Endpoint(w) /\ requests' = requests /\ proc' = proc /\ generation' = generation
      BY DEF Started, Endpoint
    <3> QED BY <2>2, <3>1, <3>2, <3>3, <3>4, EmptyExchange
  <2>3. CASE v # w
    <3>1. Endpoint(v) # Endpoint(w)
      BY <2>3 DEF Endpoint
    <3>2. /\ status'[v] = status[v] /\ generation'[v] = generation[v]
          /\ sent'[v] = sent[v] /\ answered'[v] = answered[v]
      BY <1>1, <2>3 DEF Started, ManagerType, HistoryType
    <3> QED BY <1>1, <2>1, <3>1, <3>2, ExchangeFrame DEF Started, ProcType
  <2> QED BY <2>2, <2>3
<1>8. NoOrphanProcess'
  BY <1>1 DEF ManagerInv, NoOrphanProcess, Started, EnterClose, Endpoint, Endpoints, ManagerType, ProcType, procVars
<1>9. CoverIsExact'
  BY <1>1, Slices DEF ManagerInv, CoverIsExact, Started, EnterClose, At, ManagerType, HistoryType, historyVars
<1> QED BY <1>2, <1>3, <1>4, <1>5, <1>6, <1>7, <1>8, <1>9 DEF ManagerInv

\* A failed start enters close.
LEMMA InvStartFails ==
  ASSUME TypeOK, ManagerInv, NEW w \in Workers, StartFails(w)
  PROVE  ManagerInv'
<1>1. ManagerType /\ ProcType /\ HistoryType /\ Endpoint(w) \in Endpoints
  BY TypeParts, EndpointType
<1>2. Closing'
  BY <1>1 DEF ManagerInv, Closing, StartFails, At, Step, EnterClose
<1>3. Launching'
  BY <1>1 DEF ManagerInv, Launching, StartFails, At, Step, EnterClose, ManagerType, HistoryType
<1>4. Dispatching'
  BY <1>1 DEF ManagerInv, Dispatching, StartFails, At, Step, EnterClose, HistoryType, historyVars
<1>5. Fresh'
  <2> SUFFICES ASSUME NEW v \in Workers, NEW g \in 0 .. MaxGeneration, g > generation[v]
               PROVE  Unused(<<v, g>>)'
    BY DEF Fresh, StartFails, EnterClose
  <2>1. Unused(<<v, g>>) /\ <<v, g>> # Endpoint(w) /\ <<v, g>> \in Endpoints
    BY <1>1 DEF ManagerInv, Fresh, Endpoint, Endpoints, ManagerType
  <2> QED BY <1>1, <2>1 DEF Unused, StartFails, ProcType
<1>6. BusyHasRequest'
  BY <1>1 DEF ManagerInv, BusyHasRequest, StartFails, Endpoints, ProcType, procVars
<1>7. Exchanges'
  BY <1>1 DEF ManagerInv, Exchanges, Exchange, Closing, StartFails, At, EnterClose, Endpoint, Endpoints, ManagerType, ProcType, HistoryType, procVars, historyVars
<1>8. NoOrphanProcess'
  BY <1>1 DEF ManagerInv, NoOrphanProcess, StartFails, EnterClose, Endpoint, Endpoints, ManagerType, ProcType, procVars
<1>9. CoverIsExact'
  BY <1>1, Slices DEF ManagerInv, CoverIsExact, StartFails, EnterClose, At, ManagerType, HistoryType, historyVars
<1> QED BY <1>2, <1>3, <1>4, <1>5, <1>6, <1>7, <1>8, <1>9 DEF ManagerInv

\* A worker that completed has empty queues, so its request is the only message.
LEMMA InvDispatchTo ==
  ASSUME TypeOK, ManagerInv, NEW w \in Workers, DispatchTo(w)
  PROVE  ManagerInv'
<1>1. ManagerType /\ ProcType /\ HistoryType /\ Endpoint(w) \in Endpoints
  BY TypeParts, EndpointType
<1>2. Closing'
  BY <1>1 DEF ManagerInv, Closing, DispatchTo, Asks, At, Step, EnterClose
<1>3. Launching'
  BY <1>1 DEF ManagerInv, Launching, DispatchTo, Asks, At, Step, EnterClose, ManagerType, HistoryType
<1>4. Dispatching'
  BY <1>1 DEF ManagerInv, Dispatching, DispatchTo, Asks, At, Step, EnterClose, HistoryType, historyVars
<1>5. Fresh'
  BY <1>1 DEF ManagerInv, Fresh, Unused, DispatchTo, Asks, EnterClose, Endpoint, Endpoints, ManagerType, ProcType, procVars
<1>6. BusyHasRequest'
  <2>1. sent[w] + 1 \in Tags
    BY <1>1 DEF DispatchTo, At, ManagerInv, Dispatching, HistoryType, Tags
  <2>2. Append(requests[Endpoint(w)], sent[w] + 1) # <<>>
    <3>1. requests[Endpoint(w)] \in Seq(Tags)
      BY <1>1 DEF ProcType
    <3> DEFINE n == sent[w] + 1
    <3> HIDE DEF n
    <3>2. n \in Tags
      BY <2>1 DEF n
    <3>3. Append(requests[Endpoint(w)], n) # <<>>
      BY <3>1, <3>2, AppendProperties
    <3> QED BY <3>3 DEF n
  <2>3. requests'[Endpoint(w)] # <<>>
    BY <1>1, <2>2 DEF DispatchTo, ProcType
  <2> QED BY <1>1, <2>3 DEF DispatchTo, ManagerInv, BusyHasRequest, ProcType
<1>7. Exchanges'
  <2> SUFFICES ASSUME ~ closed, NEW v \in Workers PROVE Exchange(v)'
    BY DEF Exchanges, DispatchTo
  <2>1. Exchange(v) /\ Endpoint(v) \in Endpoints
    BY EndpointType DEF ManagerInv, Exchanges
  <2>2. CASE v = w
    <3>1. requests[Endpoint(w)] = <<>> /\ replies[Endpoint(w)] = <<>>
      BY <2>1, <2>2 DEF Exchange, DispatchTo, Asks
    <3>2. status'[w] = "Working" /\ sent'[w] = sent[w] + 1
      BY <1>1 DEF DispatchTo, ManagerType, HistoryType
    <3>3. requests'[Endpoint(w)] = <<sent[w] + 1>>
      BY <1>1, <3>1, FirstMessage DEF DispatchTo, ProcType
    <3> QED BY <2>2, <3>1, <3>2, <3>3, FirstMessage DEF Exchange, Endpoint, DispatchTo
  <2>3. CASE v # w
    <3>1. Endpoint(v) # Endpoint(w)
      BY <2>3 DEF Endpoint
    <3>2. /\ status'[v] = status[v] /\ generation'[v] = generation[v]
          /\ sent'[v] = sent[v] /\ answered'[v] = answered[v]
      BY <1>1, <2>3 DEF DispatchTo, ManagerType, HistoryType
    <3> QED BY <1>1, <2>1, <3>1, <3>2, ExchangeFrame DEF DispatchTo, ProcType
  <2> QED BY <2>2, <2>3
<1>8. NoOrphanProcess'
  BY <1>1 DEF ManagerInv, NoOrphanProcess, DispatchTo, Asks, EnterClose, Endpoint, Endpoints, ManagerType, ProcType, procVars
<1>9. CoverIsExact'
  BY <1>1, Slices DEF ManagerInv, CoverIsExact, DispatchTo, Asks, EnterClose, At, ManagerType, HistoryType, historyVars
<1> QED BY <1>2, <1>3, <1>4, <1>5, <1>6, <1>7, <1>8, <1>9 DEF ManagerInv

\* A failed send leaves no message behind.
LEMMA InvSendFails ==
  ASSUME TypeOK, ManagerInv, NEW w \in Workers, SendFails(w)
  PROVE  ManagerInv'
<1>1. ManagerType /\ ProcType /\ HistoryType /\ Endpoint(w) \in Endpoints
  BY TypeParts, EndpointType
<1>2. Closing'
  BY <1>1 DEF ManagerInv, Closing, SendFails, Asks, At, Step, EnterClose
<1>3. Launching'
  BY <1>1 DEF ManagerInv, Launching, SendFails, Asks, At, Step, EnterClose, ManagerType, HistoryType
<1>4. Dispatching'
  BY <1>1 DEF ManagerInv, Dispatching, SendFails, Asks, At, Step, EnterClose, HistoryType, historyVars
<1>5. Fresh'
  BY <1>1 DEF ManagerInv, Fresh, Unused, SendFails, Asks, EnterClose, Endpoint, Endpoints, ManagerType, ProcType, procVars
<1>6. BusyHasRequest'
  BY <1>1 DEF ManagerInv, BusyHasRequest, SendFails, Asks, Endpoints, ProcType, procVars
<1>7. Exchanges'
  BY <1>1 DEF ManagerInv, Exchanges, Exchange, Closing, SendFails, Asks, At, EnterClose, Endpoint, Endpoints, ManagerType, ProcType, HistoryType, procVars, historyVars
<1>8. NoOrphanProcess'
  BY <1>1 DEF ManagerInv, NoOrphanProcess, SendFails, Asks, EnterClose, Endpoint, Endpoints, ManagerType, ProcType, procVars
<1>9. CoverIsExact'
  BY <1>1, Slices DEF ManagerInv, CoverIsExact, SendFails, Asks, EnterClose, At, ManagerType, HistoryType, historyVars
<1> QED BY <1>2, <1>3, <1>4, <1>5, <1>6, <1>7, <1>8, <1>9 DEF ManagerInv

\* Skipping a worker changes nothing.
LEMMA InvDispatchSkips ==
  ASSUME TypeOK, ManagerInv, NEW w \in Workers, DispatchSkips(w)
  PROVE  ManagerInv'
<1>1. ManagerType /\ ProcType /\ HistoryType /\ Endpoint(w) \in Endpoints
  BY TypeParts, EndpointType
<1>2. Closing'
  BY <1>1 DEF ManagerInv, Closing, DispatchSkips, Asks, At, Step, EnterClose
<1>3. Launching'
  BY <1>1 DEF ManagerInv, Launching, DispatchSkips, Asks, At, Step, EnterClose, ManagerType, HistoryType
<1>4. Dispatching'
  BY <1>1 DEF ManagerInv, Dispatching, DispatchSkips, Asks, At, Step, EnterClose, HistoryType, historyVars
<1>5. Fresh'
  BY <1>1 DEF ManagerInv, Fresh, Unused, DispatchSkips, Asks, EnterClose, Endpoint, Endpoints, ManagerType, ProcType, procVars
<1>6. BusyHasRequest'
  BY <1>1 DEF ManagerInv, BusyHasRequest, DispatchSkips, Asks, Endpoints, ProcType, procVars
<1>7. Exchanges'
  BY <1>1 DEF ManagerInv, Exchanges, Exchange, Closing, DispatchSkips, Asks, At, EnterClose, Endpoint, Endpoints, ManagerType, ProcType, HistoryType, procVars, historyVars
<1>8. NoOrphanProcess'
  BY <1>1 DEF ManagerInv, NoOrphanProcess, DispatchSkips, Asks, EnterClose, Endpoint, Endpoints, ManagerType, ProcType, procVars
<1>9. CoverIsExact'
  BY <1>1, Slices DEF ManagerInv, CoverIsExact, DispatchSkips, Asks, EnterClose, At, ManagerType, HistoryType, historyVars
<1> QED BY <1>2, <1>3, <1>4, <1>5, <1>6, <1>7, <1>8, <1>9 DEF ManagerInv

\* The one reply in the queue is the one to the last request.
LEMMA InvHarvest ==
  ASSUME TypeOK, ManagerInv, NEW w \in Workers, Harvest(w)
  PROVE  ManagerInv'
<1>1. ManagerType /\ ProcType /\ HistoryType /\ Endpoint(w) \in Endpoints
  BY TypeParts, EndpointType
<1>2. Closing'
  BY <1>1 DEF ManagerInv, Closing, Harvest, At, Step, EnterClose
<1>3. Launching'
  BY <1>1 DEF ManagerInv, Launching, Harvest, At, Step, EnterClose, ManagerType, HistoryType
<1>4. Dispatching'
  BY <1>1 DEF ManagerInv, Dispatching, Harvest, At, Step, EnterClose, HistoryType, historyVars
<1>5. Fresh'
  <2> SUFFICES ASSUME NEW v \in Workers, NEW h \in 0 .. MaxGeneration,
                      h > generation'[v] \/ (~ closed' /\ status'[v] = "Absent")
               PROVE  Unused(<<v, h>>)'
    BY DEF Fresh
  <2>1. Unused(<<v, h>>)
    BY <1>1 DEF Harvest, ManagerInv, Fresh, ManagerType
  <2>2. <<v, h>> # Endpoint(w) \/ UNCHANGED replies
    BY <1>1, <2>1 DEF Harvest, Endpoint, Unused, ManagerType
  <2> QED BY <1>1, <2>1, <2>2 DEF Harvest, Unused, ProcType, Endpoints
<1>6. BusyHasRequest'
  BY <1>1 DEF ManagerInv, BusyHasRequest, Harvest, Endpoints, ProcType, procVars
<1>7. Exchanges'
  <2> SUFFICES ASSUME ~ closed, NEW v \in Workers PROVE Exchange(v)'
    BY DEF Exchanges, Harvest
  <2>1. Exchange(v) /\ Endpoint(v) \in Endpoints
    BY EndpointType DEF ManagerInv, Exchanges
  <2>2. CASE v = w
    <3>1. /\ Len(replies[Endpoint(w)]) = 1 /\ Head(replies[Endpoint(w)]).tag = sent[w]
          /\ Tail(replies[Endpoint(w)]) = <<>>
          /\ requests[Endpoint(w)] = <<>> /\ proc[Endpoint(w)] # "busy"
      BY <1>1, <2>1, <2>2, SingleQueue DEF Exchange, Harvest, ProcType
    <3>2. replies'[Endpoint(w)] = <<>>
      BY <1>1, <3>1 DEF Harvest, ProcType
    <3>5. Endpoint(w)' = Endpoint(w) /\ requests' = requests /\ proc' = proc /\ generation' = generation
      BY DEF Harvest, Endpoint
    <3>3. CASE Head(replies[Endpoint(w)]).error
      <4>1. status'[w] = "Failed"
        BY <1>1, <3>3 DEF Harvest, ManagerType
      <4> QED BY <2>2, <3>1, <3>2, <3>5, <4>1, EmptyExchange
    <3>4. CASE ~ Head(replies[Endpoint(w)]).error
      <4>1. /\ status'[w] = "Completed" /\ sent'[w] = sent[w]
            /\ answered'[w] = [gen |-> generation[w], tag |-> sent[w]]
        BY <1>1, <3>1, <3>4 DEF Harvest, ManagerType, HistoryType
      <4> QED BY <2>2, <3>1, <3>2, <3>5, <4>1, EmptyExchange
    <3> QED BY <3>3, <3>4
  <2>3. CASE v # w
    <3>1. Endpoint(v) # Endpoint(w)
      BY <2>3 DEF Endpoint
    <3>2. /\ status'[v] = status[v] /\ generation'[v] = generation[v]
          /\ sent'[v] = sent[v] /\ answered'[v] = answered[v]
      BY <1>1, <2>3 DEF Harvest, ManagerType, HistoryType
    <3> QED BY <1>1, <2>1, <3>1, <3>2, ExchangeFrame DEF Harvest, ProcType
  <2> QED BY <2>2, <2>3
<1>8. NoOrphanProcess'
  BY <1>1 DEF ManagerInv, NoOrphanProcess, Harvest, EnterClose, Endpoint, Endpoints, ManagerType, ProcType, procVars
<1>9. CoverIsExact'
  BY <1>1, Slices DEF ManagerInv, CoverIsExact, Harvest, EnterClose, At, ManagerType, HistoryType, historyVars
<1> QED BY <1>2, <1>3, <1>4, <1>5, <1>6, <1>7, <1>8, <1>9 DEF ManagerInv

\* A worker that was given up keeps at most one message.
LEMMA InvHarvestFails ==
  ASSUME TypeOK, ManagerInv, NEW w \in Workers, HarvestFails(w)
  PROVE  ManagerInv'
<1>1. ManagerType /\ ProcType /\ HistoryType /\ Endpoint(w) \in Endpoints
  BY TypeParts, EndpointType
<1>2. Closing'
  BY <1>1 DEF ManagerInv, Closing, HarvestFails, At, Step, EnterClose
<1>3. Launching'
  BY <1>1 DEF ManagerInv, Launching, HarvestFails, At, Step, EnterClose, ManagerType, HistoryType
<1>4. Dispatching'
  BY <1>1 DEF ManagerInv, Dispatching, HarvestFails, At, Step, EnterClose, HistoryType, historyVars
<1>5. Fresh'
  BY <1>1 DEF ManagerInv, Fresh, Unused, HarvestFails, EnterClose, Endpoint, Endpoints, ManagerType, ProcType, procVars
<1>6. BusyHasRequest'
  BY <1>1 DEF ManagerInv, BusyHasRequest, HarvestFails, Endpoints, ProcType, procVars
<1>7. Exchanges'
  <2>1. /\ UNCHANGED <<closed, generation, requests, replies, proc, sent, answered>>
        /\ \A v \in Workers : v # w => status'[v] = status[v]
        /\ status'[w] \in {"TimedOut", "Failed"}
    BY <1>1 DEF HarvestFails, ManagerType, procVars, historyVars
  <2> SUFFICES ASSUME ~ closed, NEW v \in Workers PROVE Exchange(v)'
    BY <2>1 DEF Exchanges
  <2>2. Exchange(v)
    BY DEF ManagerInv, Exchanges
  <2>3. CASE v # w
    BY <2>1, <2>2, <2>3, ExchangeFrame
  <2>4. CASE v = w
    <3>1. status'[v] # "Working" /\ status'[v] # "Completed"
      BY <2>1, <2>4
    <3> QED BY <2>1, <2>2, <3>1 DEF Exchange, Endpoint
  <2> QED BY <2>3, <2>4
<1>8. NoOrphanProcess'
  BY <1>1 DEF ManagerInv, NoOrphanProcess, HarvestFails, EnterClose, Endpoint, Endpoints, ManagerType, ProcType, procVars
<1>9. CoverIsExact'
  BY <1>1, Slices DEF ManagerInv, CoverIsExact, HarvestFails, EnterClose, At, ManagerType, HistoryType, historyVars
<1> QED BY <1>2, <1>3, <1>4, <1>5, <1>6, <1>7, <1>8, <1>9 DEF ManagerInv

\* Skipping a worker changes nothing.
LEMMA InvHarvestSkips ==
  ASSUME TypeOK, ManagerInv, NEW w \in Workers, HarvestSkips(w)
  PROVE  ManagerInv'
<1>1. ManagerType /\ ProcType /\ HistoryType /\ Endpoint(w) \in Endpoints
  BY TypeParts, EndpointType
<1>2. Closing'
  BY <1>1 DEF ManagerInv, Closing, HarvestSkips, At, Step, EnterClose
<1>3. Launching'
  BY <1>1 DEF ManagerInv, Launching, HarvestSkips, At, Step, EnterClose, ManagerType, HistoryType
<1>4. Dispatching'
  BY <1>1 DEF ManagerInv, Dispatching, HarvestSkips, At, Step, EnterClose, HistoryType, historyVars
<1>5. Fresh'
  BY <1>1 DEF ManagerInv, Fresh, Unused, HarvestSkips, EnterClose, Endpoint, Endpoints, ManagerType, ProcType, procVars
<1>6. BusyHasRequest'
  BY <1>1 DEF ManagerInv, BusyHasRequest, HarvestSkips, Endpoints, ProcType, procVars
<1>7. Exchanges'
  BY <1>1 DEF ManagerInv, Exchanges, Exchange, Closing, HarvestSkips, At, EnterClose, Endpoint, Endpoints, ManagerType, ProcType, HistoryType, procVars, historyVars
<1>8. NoOrphanProcess'
  BY <1>1 DEF ManagerInv, NoOrphanProcess, HarvestSkips, EnterClose, Endpoint, Endpoints, ManagerType, ProcType, procVars
<1>9. CoverIsExact'
  BY <1>1, Slices DEF ManagerInv, CoverIsExact, HarvestSkips, EnterClose, At, ManagerType, HistoryType, historyVars
<1> QED BY <1>2, <1>3, <1>4, <1>5, <1>6, <1>7, <1>8, <1>9 DEF ManagerInv

\* The child of a retired worker is gone, and its rows await their reset.
LEMMA InvRetire ==
  ASSUME TypeOK, ManagerInv, NEW w \in Workers, Retire(w)
  PROVE  ManagerInv'
<1>1. ManagerType /\ ProcType /\ HistoryType /\ Endpoint(w) \in Endpoints
  BY TypeParts, EndpointType
<1>2. Closing'
  BY <1>1 DEF ManagerInv, Closing, Retire, At, Step, EnterClose
<1>3. Launching'
  BY <1>1 DEF ManagerInv, Launching, Retire, At, Step, EnterClose, ManagerType, HistoryType
<1>4. Dispatching'
  BY <1>1 DEF ManagerInv, Dispatching, Retire, At, Step, EnterClose, HistoryType, historyVars
<1>5. Fresh'
  BY <1>1 DEF ManagerInv, Fresh, Unused, Retire, EnterClose, Endpoint, Endpoints, ManagerType, ProcType, procVars
<1>6. BusyHasRequest'
  BY <1>1 DEF ManagerInv, BusyHasRequest, Retire, Endpoints, ProcType, procVars
<1>7. Exchanges'
  BY <1>1 DEF ManagerInv, Exchanges, Exchange, Closing, Retire, At, EnterClose, Endpoint, Endpoints, ManagerType, ProcType, HistoryType, procVars, historyVars
<1>8. NoOrphanProcess'
  <2> SUFFICES ASSUME NEW e \in Endpoints, proc'[e] \in Alive
               PROVE  /\ e[2] = generation'[e[1]]
                      /\ status'[e[1]] \notin {"Absent", "Retired"}
    BY DEF NoOrphanProcess
  <2>1. e # Endpoint(w) /\ proc[e] \in Alive
    BY <1>1 DEF Retire, ProcType, Alive
  <2>2. e[2] = generation[e[1]] /\ status[e[1]] \notin {"Absent", "Retired"} /\ e[1] \in Workers
    BY <2>1 DEF ManagerInv, NoOrphanProcess, Endpoints
  <2>3. e[1] # w
    BY <2>1, <2>2 DEF Endpoint, Endpoints
  <2> QED BY <1>1, <2>2, <2>3 DEF Retire, ManagerType
<1>9. CoverIsExact'
  BY <1>1, Slices DEF ManagerInv, CoverIsExact, Retire, EnterClose, At, ManagerType, HistoryType, historyVars
<1> QED BY <1>2, <1>3, <1>4, <1>5, <1>6, <1>7, <1>8, <1>9 DEF ManagerInv

\* A failed retirement enters close.
LEMMA InvRetireFails ==
  ASSUME TypeOK, ManagerInv, NEW w \in Workers, RetireFails(w)
  PROVE  ManagerInv'
<1>1. ManagerType /\ ProcType /\ HistoryType /\ Endpoint(w) \in Endpoints
  BY TypeParts, EndpointType
<1>2. Closing'
  BY <1>1 DEF ManagerInv, Closing, RetireFails, At, Step, EnterClose
<1>3. Launching'
  BY <1>1 DEF ManagerInv, Launching, RetireFails, At, Step, EnterClose, ManagerType, HistoryType
<1>4. Dispatching'
  BY <1>1 DEF ManagerInv, Dispatching, RetireFails, At, Step, EnterClose, HistoryType, historyVars
<1>5. Fresh'
  BY <1>1 DEF ManagerInv, Fresh, Unused, RetireFails, EnterClose, Endpoint, Endpoints, ManagerType, ProcType, procVars
<1>6. BusyHasRequest'
  BY <1>1 DEF ManagerInv, BusyHasRequest, RetireFails, Endpoints, ProcType, procVars
<1>7. Exchanges'
  BY <1>1 DEF ManagerInv, Exchanges, Exchange, Closing, RetireFails, At, EnterClose, Endpoint, Endpoints, ManagerType, ProcType, HistoryType, procVars, historyVars
<1>8. NoOrphanProcess'
  BY <1>1 DEF ManagerInv, NoOrphanProcess, RetireFails, EnterClose, Endpoint, Endpoints, ManagerType, ProcType, procVars
<1>9. CoverIsExact'
  BY <1>1, Slices DEF ManagerInv, CoverIsExact, RetireFails, EnterClose, At, ManagerType, HistoryType, historyVars
<1> QED BY <1>2, <1>3, <1>4, <1>5, <1>6, <1>7, <1>8, <1>9 DEF ManagerInv

\* Stop may be the second message of a queue, but only in a closed pool.
LEMMA InvStop ==
  ASSUME TypeOK, ManagerInv, NEW w \in Workers, Stop(w)
  PROVE  ManagerInv'
<1>1. ManagerType /\ ProcType /\ HistoryType /\ Endpoint(w) \in Endpoints
  BY TypeParts, EndpointType
<1>2. Closing'
  BY <1>1 DEF ManagerInv, Closing, Stop, Stoppable, At, Step, EnterClose
<1>3. Launching'
  BY <1>1 DEF ManagerInv, Launching, Stop, Stoppable, At, Step, EnterClose, ManagerType, HistoryType
<1>4. Dispatching'
  BY <1>1 DEF ManagerInv, Dispatching, Stop, Stoppable, At, Step, EnterClose, HistoryType, historyVars
<1>5. Fresh'
  <2>1. closed
    BY DEF ManagerInv, Closing, Stop, At
  <2> SUFFICES ASSUME NEW v \in Workers, NEW g \in 0 .. MaxGeneration, g > generation[v]
               PROVE  Unused(<<v, g>>)'
    BY <2>1 DEF Fresh, Stop
  <2>2. Unused(<<v, g>>) /\ <<v, g>> # Endpoint(w) /\ <<v, g>> \in Endpoints
    BY <1>1 DEF ManagerInv, Fresh, Endpoint, Endpoints, ManagerType
  <2> QED BY <1>1, <2>2 DEF Unused, Stop, ProcType
<1>6. BusyHasRequest'
  <2>1. requests' = requests \/ requests'[Endpoint(w)] # <<>>
    BY <1>1, AppendProperties, TagType DEF Stop, ProcType
  <2> QED BY <1>1, <2>1 DEF Stop, ManagerInv, BusyHasRequest, ProcType
<1>7. Exchanges'
  BY <1>1 DEF ManagerInv, Exchanges, Exchange, Closing, Stop, Stoppable, At, EnterClose, Endpoint, Endpoints, ManagerType, ProcType, HistoryType, procVars, historyVars
<1>8. NoOrphanProcess'
  BY <1>1 DEF ManagerInv, NoOrphanProcess, Stop, Stoppable, EnterClose, Endpoint, Endpoints, ManagerType, ProcType, procVars
<1>9. CoverIsExact'
  BY <1>1, Slices DEF ManagerInv, CoverIsExact, Stop, Stoppable, EnterClose, At, ManagerType, HistoryType, historyVars
<1> QED BY <1>2, <1>3, <1>4, <1>5, <1>6, <1>7, <1>8, <1>9 DEF ManagerInv

\* A reply is consumed, in a closed pool.
LEMMA InvDrain ==
  ASSUME TypeOK, ManagerInv, NEW w \in Workers, Drain(w)
  PROVE  ManagerInv'
<1>1. ManagerType /\ ProcType /\ HistoryType /\ Endpoint(w) \in Endpoints
  BY TypeParts, EndpointType
<1>2. Closing'
  BY <1>1 DEF ManagerInv, Closing, Drain, Stoppable, At, Step, EnterClose
<1>3. Launching'
  BY <1>1 DEF ManagerInv, Launching, Drain, Stoppable, At, Step, EnterClose, ManagerType, HistoryType
<1>4. Dispatching'
  BY <1>1 DEF ManagerInv, Dispatching, Drain, Stoppable, At, Step, EnterClose, HistoryType, historyVars
<1>5. Fresh'
  <2> SUFFICES ASSUME NEW v \in Workers, NEW h \in 0 .. MaxGeneration,
                      h > generation'[v] \/ (~ closed' /\ status'[v] = "Absent")
               PROVE  Unused(<<v, h>>)'
    BY DEF Fresh
  <2>1. Unused(<<v, h>>)
    BY <1>1 DEF Drain, ManagerInv, Fresh, ManagerType
  <2>2. <<v, h>> # Endpoint(w) \/ UNCHANGED replies
    BY <1>1, <2>1 DEF Drain, Endpoint, Unused, ManagerType
  <2> QED BY <1>1, <2>1, <2>2 DEF Drain, Unused, ProcType, Endpoints
<1>6. BusyHasRequest'
  BY <1>1 DEF ManagerInv, BusyHasRequest, Drain, Stoppable, Endpoints, ProcType, procVars
<1>7. Exchanges'
  BY <1>1 DEF ManagerInv, Exchanges, Exchange, Closing, Drain, Stoppable, At, EnterClose, Endpoint, Endpoints, ManagerType, ProcType, HistoryType, procVars, historyVars
<1>8. NoOrphanProcess'
  BY <1>1 DEF ManagerInv, NoOrphanProcess, Drain, Stoppable, EnterClose, Endpoint, Endpoints, ManagerType, ProcType, procVars
<1>9. CoverIsExact'
  BY <1>1, Slices DEF ManagerInv, CoverIsExact, Drain, Stoppable, EnterClose, At, ManagerType, HistoryType, historyVars
<1> QED BY <1>2, <1>3, <1>4, <1>5, <1>6, <1>7, <1>8, <1>9 DEF ManagerInv
-----------------------------------------------------------------------------
(***************************************************************************)
(* The caller's calls, and the end of close.                               *)
(***************************************************************************)

\* What concerns the queues and the children alone, while no slice changes.
LEMMA QuietCall ==
  ASSUME ManagerInv, UNCHANGED <<status, generation, procVars, sent, answered>>,
         closed => closed'
  PROVE  Fresh' /\ BusyHasRequest' /\ Exchanges' /\ NoOrphanProcess'
<1>1. Fresh'
  BY DEF ManagerInv, Fresh, Unused, procVars
<1>2. BusyHasRequest'
  BY DEF ManagerInv, BusyHasRequest, procVars
<1>3. Exchanges'
  BY DEF ManagerInv, Exchanges, Exchange, Endpoint, procVars
<1>4. NoOrphanProcess'
  BY DEF ManagerInv, NoOrphanProcess, procVars
<1> QED BY <1>1, <1>2, <1>3, <1>4

\* Every worker may be asked once more.
LEMMA InvDispatch ==
  ASSUME TypeOK, ManagerInv, Dispatch
  PROVE  ManagerInv'
<1>1. ManagerType /\ ProcType /\ HistoryType
  BY TypeParts
<1>2. Closing' /\ Launching'
  BY DEF ManagerInv, Closing, Launching, Dispatch
<1>3. Dispatching'
  BY <1>1 DEF ManagerInv, Dispatching, Dispatch, HistoryType
<1>4. Fresh' /\ BusyHasRequest' /\ Exchanges' /\ NoOrphanProcess'
  BY QuietCall DEF Dispatch, ManagerInv, Closing
<1>5. CoverIsExact'
  BY DEF ManagerInv, CoverIsExact, Dispatch
<1> QED BY <1>2, <1>3, <1>4, <1>5 DEF ManagerInv

LEMMA InvCollect ==
  ASSUME TypeOK, ManagerInv, Collect
  PROVE  ManagerInv'
<1>1. ManagerType /\ ProcType /\ HistoryType
  BY TypeParts
<1>2. Closing' /\ Launching'
  BY DEF ManagerInv, Closing, Launching, Collect
<1>3. Dispatching'
  BY DEF ManagerInv, Dispatching, Collect, historyVars
<1>4. Fresh' /\ BusyHasRequest' /\ Exchanges' /\ NoOrphanProcess'
  BY QuietCall DEF Collect, ManagerInv, Closing, historyVars
<1>5. CoverIsExact'
  BY DEF ManagerInv, CoverIsExact, Collect, historyVars
<1> QED BY <1>2, <1>3, <1>4, <1>5 DEF ManagerInv

LEMMA InvCloseCall ==
  ASSUME TypeOK, ManagerInv, CloseCall
  PROVE  ManagerInv'
<1>1. Closing' /\ Launching'
  BY DEF ManagerInv, Closing, Launching, CloseCall, EnterClose
<1>2. Dispatching'
  BY DEF ManagerInv, Dispatching, CloseCall, EnterClose, historyVars
<1>3. Fresh' /\ BusyHasRequest' /\ Exchanges' /\ NoOrphanProcess'
  BY QuietCall DEF CloseCall, EnterClose, historyVars
<1>4. CoverIsExact'
  BY DEF ManagerInv, CoverIsExact, CloseCall, historyVars
<1> QED BY <1>1, <1>2, <1>3, <1>4 DEF ManagerInv

\* A slice is replaced when its flags cover it: none of its rows is owed.
LEMMA InvRespawn ==
  ASSUME TypeOK, ManagerInv, NEW rows \in (SUBSET Rows) \ {{}}, Respawn(rows)
  PROVE  ManagerInv'
<1> DEFINE marks == MarkedRows(rows)
           ready == {w \in Workers : Ready(w, marks)}
<1>1. ManagerType /\ ProcType /\ HistoryType
  BY TypeParts
<1>2. /\ pc = "ready"
      /\ \A w \in ready : generation[w] < MaxGeneration
      /\ resetRows' = marks
      /\ owed' = owed \ rows
      /\ batch' = ready /\ rest' = ready
      /\ pc' = IF ready = {} THEN "ready" ELSE "launch"
      /\ UNCHANGED <<closed, status, generation, procVars, calls, sent, answered>>
  BY DEF Respawn
<1>3. \A w \in Workers : status[w] = "Retired" =>
        marks[w] = Rowids(w) \ owed'
  BY <1>1, <1>2, Slices DEF ManagerInv, CoverIsExact, MarkedRows
<1>4. \A w \in ready : status[w] = "Retired" /\ Rowids(w) \cap owed' = {}
  BY <1>3 DEF Ready
<1> HIDE DEF marks, ready
<1>5. Closing'
  BY <1>2 DEF ManagerInv, Closing
<1>6. Launching'
  BY <1>2, <1>4 DEF Launching
<1>7. Dispatching'
  BY <1>2 DEF ManagerInv, Dispatching
<1>8. Fresh' /\ BusyHasRequest' /\ Exchanges' /\ NoOrphanProcess'
  BY <1>2, QuietCall DEF ManagerInv, Closing
<1>9. CoverIsExact'
  BY <1>2, <1>3 DEF CoverIsExact
<1> QED BY <1>5, <1>6, <1>7, <1>8, <1>9 DEF ManagerInv

\* Reaping terminates the current child of every worker the manager knows, and
\* the others were gone before.
LEMMA InvReap ==
  ASSUME TypeOK, ManagerInv, Reap
  PROVE  ManagerInv'
<1>1. ManagerType /\ ProcType /\ HistoryType
  BY TypeParts
<1>2. closed
  BY DEF Reap, ManagerInv, Closing
<1>3. \A e \in Endpoints : proc'[e] = proc[e] \/ proc'[e] = "gone"
  BY DEF Reap
<1>4. Closing' /\ Launching'
  BY <1>2 DEF Closing, Launching, Reap
<1>5. Dispatching'
  BY DEF ManagerInv, Dispatching, Reap, historyVars
<1>6. Fresh'
  <2> SUFFICES ASSUME NEW v \in Workers, NEW h \in 0 .. MaxGeneration, h > generation[v]
               PROVE  Unused(<<v, h>>)'
    BY <1>2 DEF Fresh, Reap
  <2>1. Unused(<<v, h>>) /\ <<v, h>> \in Endpoints
    BY DEF ManagerInv, Fresh, Endpoints
  <2>2. h # generation[v]
    BY <1>1 DEF ManagerType
  <2> QED BY <2>1, <2>2 DEF Reap, Unused
<1>7. BusyHasRequest'
  BY <1>3 DEF ManagerInv, BusyHasRequest, Reap
<1>8. Exchanges'
  BY <1>2 DEF Exchanges, Reap
<1>9. NoOrphanProcess'
  BY <1>3 DEF Reap, ManagerInv, NoOrphanProcess, Alive
<1>10. CoverIsExact'
  BY DEF CoverIsExact, Reap
<1> QED BY <1>4, <1>5, <1>6, <1>7, <1>8, <1>9, <1>10 DEF ManagerInv

-----------------------------------------------------------------------------
(***************************************************************************)
(* The steps of the workers.                                               *)
(***************************************************************************)

\* A worker's step disturbs neither the manager's state nor the history.
LEMMA QuietWorker ==
  ASSUME ManagerInv, UNCHANGED <<managerVars, historyVars>>
  PROVE  Closing' /\ Launching' /\ Dispatching' /\ CoverIsExact'
BY DEF ManagerInv, Closing, Launching, Dispatching, CoverIsExact, managerVars, historyVars

\* Neither does it change which endpoints are unused, or what the exchange of
\* any other endpoint looks like.
LEMMA WorkerFrame ==
  ASSUME TypeOK, ManagerInv, UNCHANGED <<managerVars, historyVars>>,
         NEW e \in Endpoints, proc[e] \in Alive,
         \A f \in Endpoints \ {e} : /\ proc'[f] = proc[f]
                                    /\ requests'[f] = requests[f]
                                    /\ replies'[f] = replies[f],
         proc'[e] = "busy" => requests'[e] # <<>>,
         \A w \in Workers : ~ closed /\ e = Endpoint(w) => Exchange(w)'
  PROVE  ManagerInv'
<1>1. Closing' /\ Launching' /\ Dispatching' /\ CoverIsExact'
  BY QuietWorker
<1>2. Fresh'
  <2> SUFFICES ASSUME NEW v \in Workers, NEW h \in 0 .. MaxGeneration,
                      h > generation[v] \/ (~ closed /\ status[v] = "Absent")
               PROVE  Unused(<<v, h>>)'
    BY DEF Fresh, managerVars
  <2>1. Unused(<<v, h>>) /\ <<v, h>> \in Endpoints
    BY DEF ManagerInv, Fresh, Endpoints
  <2>2. <<v, h>> # e
    BY <2>1 DEF Unused, Alive
  <2> QED BY <2>1, <2>2 DEF Unused
<1>3. BusyHasRequest'
  BY DEF ManagerInv, BusyHasRequest
<1>4. Exchanges'
  <2> SUFFICES ASSUME ~ closed, NEW v \in Workers PROVE Exchange(v)'
    BY DEF Exchanges, managerVars
  <2>1. CASE e = Endpoint(v)
    BY <2>1
  <2>2. CASE e # Endpoint(v)
    <3>1. Exchange(v) /\ Endpoint(v) \in Endpoints
      BY EndpointType DEF ManagerInv, Exchanges
    <3> QED BY <2>2, <3>1, ExchangeFrame DEF managerVars, historyVars
  <2> QED BY <2>1, <2>2
<1>5. NoOrphanProcess'
  BY DEF ManagerInv, NoOrphanProcess, managerVars
<1> QED BY <1>1, <1>2, <1>3, <1>4, <1>5 DEF ManagerInv

\* Answering moves the only message of an exchange from one queue to the other.
LEMMA AnswerExchange ==
  ASSUME TypeOK, ManagerInv, UNCHANGED <<managerVars, historyVars>>, ~ closed,
         NEW w \in Workers, NEW error \in BOOLEAN, Answer(Endpoint(w), error),
         requests[Endpoint(w)] # <<>>, proc'[Endpoint(w)] # "busy"
  PROVE  Exchange(w)'
<1> DEFINE e == Endpoint(w)
           q == requests[e]
           r == [tag |-> Head(q), error |-> error]
<1>1. ManagerType /\ ProcType /\ HistoryType /\ e \in Endpoints /\ Exchange(w)
  BY TypeParts, EndpointType DEF ManagerInv, Exchanges
<1>2. q \in Seq(Tags) /\ replies[e] \in Seq(Reply)
  BY <1>1 DEF ProcType
<1>3. Len(q) \in Nat \ {0} /\ Len(replies[e]) \in Nat
  BY <1>2, EmptySeq
<1>4. Len(q) <= 1 /\ Len(replies[e]) = 0
  <2>1. Len(q) + Len(replies[e]) <= 1
    BY <1>1 DEF Exchange
  <2> DEFINE m == Len(q)
             n == Len(replies[e])
  <2>2. m \in Nat \ {0} /\ n \in Nat /\ m + n <= 1
    BY <1>3, <2>1
  <2> HIDE DEF m, n
  <2>3. m <= 1 /\ n = 0
    BY <2>2
  <2> QED BY <2>3 DEF m, n
<1>5. replies[e] = <<>>
  BY <1>2, <1>4, EmptySeq
<1>6. Head(q) = q[1] /\ Tail(q) = <<>>
  BY <1>2, <1>4, SingleQueue
<1>7. requests'[e] = <<>>
  BY <1>1, <1>6 DEF Answer, ProcType
<1>8. replies'[e] = <<r>>
  BY <1>1, <1>5, FirstMessage DEF Answer, ProcType
<1>9. Len(replies'[e]) = 1 /\ replies'[e][1] = r /\ Len(requests'[e]) = 0
  BY <1>7, <1>8, FirstMessage
<1>10. status[w] = "Working" => r.tag = sent[w]
  <2>1. ASSUME status[w] = "Working" PROVE q = <<sent[w]>>
    BY <1>1, <2>1 DEF Exchange
  <2> QED BY <1>6, <2>1
<1>11. status[w] # "Completed"
  BY <1>1 DEF Exchange
<1>12. Endpoint(w)' = e /\ status' = status /\ sent' = sent
  BY DEF Endpoint, managerVars, historyVars
<1>13. Len(requests'[e]) + Len(replies'[e]) <= 1
  BY <1>9
<1> HIDE DEF e, q, r
<1>14. proc'[e] # "busy"
  BY DEF e
<1> QED BY <1>7, <1>9, <1>10, <1>11, <1>12, <1>13, <1>14 DEF Exchange

LEMMA InvBoot ==
  ASSUME TypeOK, ManagerInv, NEW e \in Endpoints, Boot(e)
  PROVE  ManagerInv'
<1>1. ManagerType /\ ProcType /\ HistoryType
  BY TypeParts
<1>2. PICK failed \in BOOLEAN : Answer(e, failed)
  BY DEF Boot
<1>3. proc'[e] = "idle" /\ proc[e] \in Alive
  BY <1>1 DEF Boot, ProcType, Alive
<1>4. \A f \in Endpoints \ {e} : /\ proc'[f] = proc[f]
                                 /\ requests'[f] = requests[f]
                                 /\ replies'[f] = replies[f]
  BY <1>1, <1>2 DEF Boot, Answer, ProcType
<1>5. ASSUME NEW w \in Workers, ~ closed, e = Endpoint(w) PROVE Exchange(w)'
  BY <1>2, <1>3, <1>5, AnswerExchange DEF Boot
<1> QED BY <1>3, <1>4, <1>5, WorkerFrame DEF Boot

LEMMA InvFinishOperation ==
  ASSUME TypeOK, ManagerInv, NEW e \in Endpoints, FinishOperation(e)
  PROVE  ManagerInv'
<1>1. ManagerType /\ ProcType /\ HistoryType
  BY TypeParts
<1>2. PICK failed \in {failure[e], TRUE} : Answer(e, failed)
  BY DEF FinishOperation
<1>3. failed \in BOOLEAN
  BY <1>1, <1>2, Zenon DEF ProcType
<1>4. /\ proc'[e] = "idle" /\ proc[e] \in Alive
      /\ requests[e] # <<>>
  BY <1>1 DEF FinishOperation, ProcType, Alive, ManagerInv, BusyHasRequest
<1>5. \A f \in Endpoints \ {e} : /\ proc'[f] = proc[f]
                                 /\ requests'[f] = requests[f]
                                 /\ replies'[f] = replies[f]
  BY <1>1, <1>2 DEF FinishOperation, Answer, ProcType
<1>6. ASSUME NEW w \in Workers, ~ closed, e = Endpoint(w) PROVE Exchange(w)'
  BY <1>2, <1>3, <1>4, <1>6, AnswerExchange DEF FinishOperation
<1> QED BY <1>4, <1>5, <1>6, WorkerFrame DEF FinishOperation

LEMMA InvTakeStop ==
  ASSUME TypeOK, ManagerInv, NEW e \in Endpoints, TakeStop(e)
  PROVE  ManagerInv'
<1>1. ManagerType /\ ProcType /\ HistoryType
  BY TypeParts
<1>2. Answer(e, FALSE) /\ FALSE \in BOOLEAN
  BY Zenon DEF TakeStop
<1>3. proc'[e] = "gone" /\ proc[e] \in Alive
  BY <1>1 DEF TakeStop, ProcType, Alive
<1>4. \A f \in Endpoints \ {e} : /\ proc'[f] = proc[f]
                                 /\ requests'[f] = requests[f]
                                 /\ replies'[f] = replies[f]
  BY <1>1, <1>2 DEF TakeStop, Answer, ProcType
<1>5. ASSUME NEW w \in Workers, ~ closed, e = Endpoint(w) PROVE Exchange(w)'
  BY <1>2, <1>3, <1>5, AnswerExchange DEF TakeStop
<1> QED BY <1>3, <1>4, <1>5, WorkerFrame DEF TakeStop

\* A worker that takes a request has it before it, so it has not completed.
LEMMA InvTakeOperation ==
  ASSUME TypeOK, ManagerInv, NEW e \in Endpoints, TakeOperation(e)
  PROVE  ManagerInv'
<1>1. ManagerType /\ ProcType /\ HistoryType
  BY TypeParts
<1>2. proc[e] \in Alive /\ requests[e] # <<>>
  BY DEF TakeOperation, Alive
<1>3. /\ \A f \in Endpoints \ {e} : proc'[f] = proc[f]
      /\ requests' = requests /\ replies' = replies
      /\ UNCHANGED <<managerVars, historyVars>>
  BY <1>1 DEF TakeOperation, ProcType
<1>4. ASSUME NEW w \in Workers, ~ closed, e = Endpoint(w) PROVE Exchange(w)'
  <2>1. Exchange(w)
    BY <1>4 DEF ManagerInv, Exchanges
  <2>2. Endpoint(w)' = Endpoint(w) /\ status' = status /\ sent' = sent /\ answered' = answered
    BY <1>3 DEF Endpoint, managerVars, historyVars
  <2> QED BY <1>2, <1>3, <1>4, <2>1, <2>2 DEF Exchange
<1> QED BY <1>2, <1>3, <1>4, WorkerFrame

\* A death leaves the messages where they are.
LEMMA InvDie ==
  ASSUME TypeOK, ManagerInv, NEW e \in Endpoints, Die(e)
  PROVE  ManagerInv'
<1>1. ManagerType /\ ProcType /\ HistoryType
  BY TypeParts
<1>2. proc[e] \in Alive /\ proc'[e] = "gone"
  BY <1>1 DEF Die, Alive, ProcType
<1>3. /\ \A f \in Endpoints \ {e} : proc'[f] = proc[f]
      /\ requests' = requests /\ replies' = replies
      /\ UNCHANGED <<managerVars, historyVars>>
  BY <1>1 DEF Die, ProcType
<1>4. ASSUME NEW w \in Workers, ~ closed, e = Endpoint(w) PROVE Exchange(w)'
  <2>1. Exchange(w)
    BY <1>4 DEF ManagerInv, Exchanges
  <2>2. Endpoint(w)' = Endpoint(w) /\ status' = status /\ sent' = sent
        /\ answered' = answered /\ generation' = generation
    BY <1>3 DEF Endpoint, managerVars, historyVars
  <2> QED BY <1>2, <1>3, <1>4, <2>1, <2>2 DEF Exchange
<1> QED BY <1>2, <1>3, <1>4, WorkerFrame

-----------------------------------------------------------------------------
(***************************************************************************)
(* The invariant of the specification.                                     *)
(***************************************************************************)
LEMMA InitInvariant ==
  ASSUME Init
  PROVE  TypeOK /\ ManagerInv
<1>1. ManagerType
  <2>1. closed \in BOOLEAN
    BY Zenon DEF Init
  <2> QED BY <2>1 DEF Init, ManagerType, Phases, Statuses
<1>2. ProcType
  <2>1. failure \in [Endpoints -> BOOLEAN]
    <3>1. FALSE \in BOOLEAN
      BY Zenon
    <3> QED BY <3>1 DEF Init
  <2>2. \A S : <<>> \in Seq(S)
    OBVIOUS
  <2> QED BY <2>1, <2>2 DEF Init, ProcType, ProcStates
<1>3. HistoryType
  BY DEF Init, HistoryType, AnswerTags, StopTag, Tags
<1>4. ManagerInv
  BY DEF Init, ManagerInv, Closing, Launching, Dispatching, Fresh, Unused,
         BusyHasRequest, Exchanges, Exchange, Endpoint, Endpoints,
         NoOrphanProcess, CoverIsExact, Alive
<1> QED BY <1>1, <1>2, <1>3, <1>4, TypeParts

\* An unchanged state keeps the invariant.
LEMMA InvUnchanged ==
  ASSUME TypeOK, ManagerInv, UNCHANGED vars
  PROVE  TypeOK' /\ ManagerInv'
<1>1. UNCHANGED <<managerVars, procVars, historyVars>>
  BY DEF vars
<1>2. TypeOK'
  BY <1>1, TypeParts, TypeUnchanged
<1>3. Closing' /\ Launching' /\ Dispatching' /\ CoverIsExact'
  BY <1>1, QuietWorker
<1>4. Fresh' /\ BusyHasRequest' /\ Exchanges' /\ NoOrphanProcess'
  BY <1>1, QuietCall DEF managerVars, historyVars
<1> QED BY <1>2, <1>3, <1>4 DEF ManagerInv

LEMMA NextInvariant ==
  ASSUME TypeOK, ManagerInv, [Next]_vars
  PROVE  TypeOK' /\ ManagerInv'
<1>1. CASE Calls
  <2>1. TypeOK'
    BY <1>1, CallTypes DEF Calls
  <2>2. ManagerInv'
    BY <1>1, InvDispatch, InvCollect, InvRespawn, InvCloseCall DEF Calls
  <2> QED BY <2>1, <2>2
<1>2. CASE Progress
  <2>1. TypeOK'
    BY <1>2, LoopTypes, CallTypes DEF Progress
  <2>2. ManagerInv'
    BY <1>2, InvLaunch, InvLaunchFails, InvStarted, InvStartFails,
       InvDispatchTo, InvSendFails, InvDispatchSkips, InvHarvest,
       InvHarvestFails, InvHarvestSkips, InvRetire, InvRetireFails, InvStop,
       InvDrain, InvReap DEF Progress
  <2> QED BY <2>1, <2>2
<1>3. ASSUME NEW e \in Endpoints, WorkerStep(e) PROVE TypeOK' /\ ManagerInv'
  BY <1>3, WorkerTypes, InvBoot, InvTakeOperation, InvFinishOperation,
     InvTakeStop, InvDie DEF WorkerStep
<1>4. CASE UNCHANGED vars
  BY <1>4, InvUnchanged
<1> QED BY <1>1, <1>2, <1>3, <1>4 DEF Next, CallOnClosed

LEMMA Invariant == Spec => [](TypeOK /\ ManagerInv)
<1>1. Init => TypeOK /\ ManagerInv
  BY InitInvariant
<1>2. TypeOK /\ ManagerInv /\ [Next]_vars => (TypeOK /\ ManagerInv)'
  BY NextInvariant
<1> QED BY <1>1, <1>2, PTL DEF Spec

-----------------------------------------------------------------------------
(***************************************************************************)
(* The theorems.                                                           *)
(***************************************************************************)

\* The manager's variables, the children's and the queues keep their types:
\* no call counts past its bound, no message is foreign to the protocol.
THEOREM TypeCorrect == Spec => []TypeOK
BY Invariant, PTL

\* In an open pool there is at most one message per slice, and none for a
\* worker that completed, however workers answer, wedge and die: the deadline
\* retires a worker, so its late reply is in an endpoint nobody reads.
THEOREM OneIsOutstanding == Spec => []OneOutstanding
<1>1. ManagerInv => OneOutstanding
  BY DEF ManagerInv, Exchanges, Exchange, OneOutstanding
<1> QED BY <1>1, Invariant, PTL

\* A worker counts as Completed only by its current generation's reply to the
\* last operation it was sent.
THEOREM AnswersAreCurrent == Spec => []AnsweredCurrent
<1>1. ManagerInv => AnsweredCurrent
  BY DEF ManagerInv, Exchanges, Exchange, AnsweredCurrent
<1> QED BY <1>1, Invariant, PTL

\* A running child belongs to the current generation of a worker the manager
\* still knows, whatever call failed and whenever close came.
THEOREM NoProcessIsOrphaned == Spec => []NoOrphanProcess
<1>1. ManagerInv => NoOrphanProcess
  BY DEF ManagerInv
<1> QED BY <1>1, Invariant, PTL

\* The reset flags of a quarantined worker are the rows reset since.
THEOREM FlagsAreExact == Spec => []CoverIsExact
<1>1. ManagerInv => CoverIsExact
  BY DEF ManagerInv
<1> QED BY <1>1, Invariant, PTL

\* A slice gets a new generation only once every row lost with the old one has
\* been reset.
THEOREM SlicesAwaitTheirResets == Spec => QuarantineUntilReset
<1>1. ASSUME TypeOK, ManagerInv, [Next]_vars,
             NEW w \in Workers, generation'[w] # generation[w]
      PROVE  Rowids(w) \cap owed = {}
  <2>1. PICK v \in Workers : Launch(v)
    BY <1>1 DEF Next, Calls, Dispatch, Collect, Respawn, CloseCall, Progress,
       LaunchFails, Started, StartFails, DispatchTo, SendFails, DispatchSkips,
       Harvest, HarvestFails, HarvestSkips, Retire, RetireFails, Stop, Drain,
       Reap, WorkerStep, Boot, TakeOperation, FinishOperation, TakeStop, Die,
       CallOnClosed, vars, managerVars
  <2>2. ManagerType
    BY <1>1, TypeParts
  <2>3. w = v /\ pc = "launch" /\ w \in rest
    BY <1>1, <2>1, <2>2 DEF Launch, At, ManagerType
  <2>4. CASE status[w] = "Absent" /\ generation[w] = 0
    BY <1>1, <2>1, <2>2, <2>3, <2>4 DEF Launch, NextGeneration, ManagerType
  <2>5. CASE Rowids(w) \cap owed = {}
    BY <2>5
  <2> QED BY <1>1, <2>3, <2>4, <2>5 DEF ManagerInv, Launching
<1>2. TypeOK /\ ManagerInv /\ [Next]_vars =>
        [\A w \in Workers : generation'[w] # generation[w] => Rowids(w) \cap owed = {}]_vars
  BY <1>1
<1> QED BY <1>2, Invariant, PTL DEF Spec, QuarantineUntilReset
-----------------------------------------------------------------------------
(***************************************************************************)
(* The manager implements WorkerPool.  The mapping needs three facts more. *)
(***************************************************************************)

\* Only the launch and the start loops have slices without a started worker,
\* and only those that they have still to bring up.
Starts ==
  /\ pc \in {"ready", "dispatch", "collect", "retire"} =>
       \A w \in Workers : status[w] # "Absent" /\ ~ Starting(w)
  /\ pc = "start" =>
       \A w \in Workers : status[w] # "Absent" /\ (Starting(w) => w \in rest)
  /\ pc = "launch" =>
       /\ rest \subseteq batch
       /\ \A w \in Workers : /\ status[w] = "Absent" => w \in rest
                             /\ Starting(w) => w \in batch

\* Collect retires the workers it found failed, and no other.
GivenUp ==
  /\ pc = "collect" => \A w \in batch : status[w] \in {"Failed", "TimedOut"}
  /\ pc = "retire" => \A w \in rest : status[w] \in {"Failed", "TimedOut"}

\* Only a quarantined worker has reset flags.
FlagsAreRetired ==
  ~ closed => \A w \in Workers : status[w] # "Retired" => resetRows[w] = {}

PoolInv == Starts /\ GivenUp /\ FlagsAreRetired

\* A closed pool satisfies them trivially.
LEMMA ClosedPoolInv ==
  ASSUME closed', Closing'
  PROVE  PoolInv'
BY DEF PoolInv, Closing, Starts, GivenUp, FlagsAreRetired

LEMMA CallPoolInv ==
  ASSUME TypeOK, ManagerInv, PoolInv, Calls
  PROVE  PoolInv'
<1>1. ManagerType /\ ProcType /\ HistoryType
  BY TypeParts
<1>2. CASE Dispatch
  BY <1>2 DEF Dispatch, PoolInv, Starts, Starting, GivenUp, FlagsAreRetired
<1>3. CASE Collect
  BY <1>3 DEF Collect, historyVars, PoolInv, Starts, Starting, GivenUp, FlagsAreRetired
<1>4. CASE CloseCall
  BY <1>4 DEF CloseCall, EnterClose, PoolInv, Starts, GivenUp, FlagsAreRetired
<1>5. ASSUME NEW rows \in (SUBSET Rows) \ {{}}, Respawn(rows) PROVE PoolInv'
  <2>1. Starts' /\ GivenUp'
    BY <1>5 DEF Respawn, PoolInv, Starts, Starting, GivenUp
  <2>2. FlagsAreRetired'
    BY <1>5 DEF Respawn, MarkedRows, PoolInv, FlagsAreRetired
  <2> QED BY <2>1, <2>2 DEF PoolInv
<1> QED BY <1>2, <1>3, <1>4, <1>5 DEF Calls

LEMMA LoopPoolInv ==
  ASSUME TypeOK, ManagerInv, ManagerInv', PoolInv, NEW w \in Workers,
         \/ Launch(w) \/ LaunchFails(w) \/ Started(w) \/ StartFails(w)
         \/ DispatchTo(w) \/ SendFails(w) \/ DispatchSkips(w)
         \/ Harvest(w) \/ HarvestFails(w) \/ HarvestSkips(w)
         \/ Retire(w) \/ RetireFails(w) \/ Stop(w) \/ Drain(w)
  PROVE  PoolInv'
<1>1. ManagerType /\ ProcType /\ HistoryType
  BY TypeParts
<1>2. CASE Launch(w)
  <2>1. Starts'
    <3>1. /\ pc = "launch" /\ w \in rest /\ w \in batch /\ batch' = batch
          /\ status' = [status EXCEPT ![w] = "Working"]
          /\ sent' = [sent EXCEPT ![w] = 0]
      BY <1>2 DEF Launch, At, PoolInv, Starts
    <3>2. \A v \in Workers : Starting(v)' => v \in batch
      BY <1>1, <3>1 DEF PoolInv, Starts, Starting, ManagerType, HistoryType
    <3>3. CASE rest = {w}
      <4>1. pc' = "start" /\ rest' = batch
        BY <1>2, <3>1, <3>3 DEF Launch, Step
      <4> QED BY <1>1, <3>1, <3>2, <3>3, <4>1 DEF PoolInv, Starts, ManagerType
    <3>4. CASE rest # {w}
      <4>1. pc' = "launch" /\ rest' = rest \ {w}
        BY <1>2, <3>1, <3>4 DEF Launch, Step
      <4> QED BY <1>1, <3>1, <3>2, <3>4, <4>1 DEF PoolInv, Starts, ManagerType
    <3> QED BY <3>3, <3>4
  <2>2. GivenUp' /\ FlagsAreRetired'
    BY <1>1, <1>2 DEF Launch, At, Step, PoolInv, GivenUp, FlagsAreRetired, ManagerType
  <2> QED BY <2>1, <2>2 DEF PoolInv
<1>3. CASE LaunchFails(w) \/ StartFails(w) \/ RetireFails(w)
  BY <1>3, ClosedPoolInv DEF LaunchFails, StartFails, RetireFails, EnterClose, ManagerInv
<1>4. CASE Started(w)
  <2>1. Starts'
    BY <1>1, <1>4 DEF Started, At, Step, PoolInv, Starts, Starting, ManagerType
  <2>2. GivenUp' /\ FlagsAreRetired'
    BY <1>1, <1>4 DEF Started, At, Step, PoolInv, GivenUp, FlagsAreRetired, ManagerType,
       ManagerInv, Launching
  <2> QED BY <2>1, <2>2 DEF PoolInv
<1>5. CASE DispatchTo(w)
  <2>1. sent[w] + 1 # 0
    BY <1>1 DEF HistoryType
  <2>2. Starts'
    BY <1>1, <1>5, <2>1 DEF DispatchTo, At, Step, PoolInv, Starts, Starting, ManagerType, HistoryType
  <2>3. GivenUp' /\ FlagsAreRetired'
    BY <1>1, <1>5 DEF DispatchTo, Asks, At, Step, PoolInv, GivenUp, FlagsAreRetired, ManagerType
  <2> QED BY <2>2, <2>3 DEF PoolInv
<1>6. CASE SendFails(w) \/ DispatchSkips(w)
  <2>1. Starts'
    BY <1>1, <1>6 DEF SendFails, DispatchSkips, At, Step, PoolInv, Starts, Starting,
       ManagerType, historyVars
  <2>2. GivenUp' /\ FlagsAreRetired'
    BY <1>1, <1>6 DEF SendFails, DispatchSkips, Asks, At, Step, PoolInv, GivenUp,
       FlagsAreRetired, ManagerType
  <2> QED BY <2>1, <2>2 DEF PoolInv
<1>7. CASE Harvest(w)
  <2>1. Starts'
    BY <1>1, <1>7 DEF Harvest, At, Step, PoolInv, Starts, Starting, ManagerType
  <2>2. GivenUp' /\ FlagsAreRetired'
    <3>1. /\ pc = "collect" /\ w \in rest /\ Step(w, "retire", batch')
          /\ closed' = closed /\ resetRows' = resetRows /\ status[w] = "Working"
          /\ \A v \in Workers : v # w => status'[v] = status[v]
      BY <1>1, <1>7 DEF Harvest, At, ManagerType
    <3>2. \/ batch' = batch /\ status'[w] = "Completed"
          \/ batch' = batch \cup {w} /\ status'[w] = "Failed"
      BY <1>1, <1>7 DEF Harvest, ManagerType
    <3>3. \A v \in batch : status[v] \in {"Failed", "TimedOut"}
      BY <3>1 DEF PoolInv, GivenUp
    <3>4. \A v \in batch' : status'[v] \in {"Failed", "TimedOut"}
      BY <1>1, <3>1, <3>2, <3>3 DEF ManagerType
    <3>5. GivenUp'
      BY <3>1, <3>4 DEF Step, GivenUp
    <3>6. FlagsAreRetired'
      BY <3>1, <3>2 DEF PoolInv, FlagsAreRetired
    <3> QED BY <3>5, <3>6
  <2> QED BY <2>1, <2>2 DEF PoolInv
<1>8. CASE HarvestFails(w) \/ HarvestSkips(w)
  <2>1. Starts'
    BY <1>1, <1>8 DEF HarvestFails, HarvestSkips, At, Step, PoolInv, Starts, Starting,
       ManagerType, historyVars
  <2>2. GivenUp' /\ FlagsAreRetired'
    BY <1>1, <1>8 DEF HarvestFails, HarvestSkips, At, Step, PoolInv, GivenUp,
       FlagsAreRetired, ManagerType
  <2> QED BY <2>1, <2>2 DEF PoolInv
<1>9. CASE Retire(w)
  <2>1. Starts'
    BY <1>1, <1>9 DEF Retire, At, Step, PoolInv, Starts, Starting, ManagerType
  <2>2. GivenUp' /\ FlagsAreRetired'
    BY <1>1, <1>9 DEF Retire, At, Step, PoolInv, GivenUp, FlagsAreRetired, ManagerType
  <2> QED BY <2>1, <2>2 DEF PoolInv
<1>10. CASE Stop(w) \/ Drain(w)
  BY <1>10, ClosedPoolInv DEF Stop, Drain, At, ManagerInv, Closing
<1> QED BY <1>2, <1>3, <1>4, <1>5, <1>6, <1>7, <1>8, <1>9, <1>10

LEMMA PoolInvariant == Spec => [](TypeOK /\ ManagerInv /\ PoolInv)
<1>1. Init => PoolInv
  BY DEF Init, PoolInv, Starts, Starting, GivenUp, FlagsAreRetired
<1>2. ASSUME TypeOK, ManagerInv, ManagerInv', PoolInv, [Next]_vars PROVE PoolInv'
  <2>1. CASE Calls
    BY <1>2, <2>1, CallPoolInv
  <2>2. CASE Progress
    <3>1. CASE Reap
      BY <1>2, <3>1, ClosedPoolInv DEF Reap, ManagerInv, Closing
    <3> QED BY <1>2, <2>2, <3>1, LoopPoolInv DEF Progress
  <2>3. CASE UNCHANGED <<managerVars, historyVars>>
    BY <1>2, <2>3 DEF PoolInv, Starts, Starting, GivenUp, FlagsAreRetired, managerVars, historyVars
  <2>4. ASSUME NEW e \in Endpoints, WorkerStep(e) PROVE UNCHANGED <<managerVars, historyVars>>
    BY <2>4 DEF WorkerStep, Boot, TakeOperation, FinishOperation, TakeStop, Die
  <2>5. CASE UNCHANGED vars
    BY <2>3, <2>5 DEF vars
  <2> QED BY <1>2, <2>1, <2>2, <2>3, <2>4, <2>5 DEF Next, CallOnClosed
<1>3. TypeOK /\ ManagerInv /\ ManagerInv' /\ PoolInv /\ [Next]_vars => PoolInv'
  BY <1>2
<1> QED BY <1>1, <1>3, Invariant, PTL DEF Spec

-----------------------------------------------------------------------------
(***************************************************************************)
(* Every step of the manager is a step of the pool, or none.               *)
(***************************************************************************)

\* The slices satisfy what WorkerPool assumes of its constants.
LEMMA PoolConstants == Pool!PoolAssumption
BY Slices DEF Pool!PoolAssumption

\* What a step leaves alone of a slice, the pool does not see change.
LEMMA SliceFrame ==
  ASSUME NEW v \in Workers, closed' = closed, status'[v] = status[v],
         sent'[v] = sent[v], resetRows'[v] = resetRows[v]
  PROVE  SliceOf(v)' = SliceOf(v) /\ CoveredOf(v)' = CoveredOf(v)
BY DEF SliceOf, CoveredOf, Starting

\* Nothing is seen of a closed pool, and closing is Shut.
LEMMA ClosingIsShut ==
  ASSUME closed'
  PROVE  IF closed THEN UNCHANGED Pool!poolVars ELSE Pool!Shut
<1>1. \A v \in Workers : SliceOf(v)' = "Down" /\ CoveredOf(v)' = {}
  BY DEF SliceOf, CoveredOf
<1>2. CASE closed
  <2>1. \A v \in Workers : SliceOf(v) = "Down" /\ CoveredOf(v) = {}
    BY <1>2 DEF SliceOf, CoveredOf
  <2> QED BY <1>1, <1>2, <2>1 DEF Pool!poolVars
<1>3. CASE ~ closed
  BY <1>1, <1>3 DEF Pool!Shut
<1> QED BY <1>2, <1>3

\* A step that the pool sees as none.
LEMMA PoolStutter ==
  ASSUME closed' = closed,
         \A v \in Workers : SliceOf(v)' = SliceOf(v) /\ CoveredOf(v)' = CoveredOf(v)
  PROVE  UNCHANGED Pool!poolVars
BY DEF Pool!poolVars

\* One slice changes and the others do not.
LEMMA OneSlice ==
  ASSUME NEW w \in Workers, ~ closed, ~ closed',
         \A v \in Workers \ {w} : SliceOf(v)' = SliceOf(v) /\ CoveredOf(v)' = CoveredOf(v),
         \/ /\ SliceOf(w) = "Idle" /\ SliceOf(w)' \in {"Asked", "Lost"}
            /\ CoveredOf(w)' = CoveredOf(w)
         \/ /\ SliceOf(w) = "Asked" /\ SliceOf(w)' \in {"Idle", "Lost"}
            /\ CoveredOf(w)' = CoveredOf(w)
         \/ /\ SliceOf(w) = "Lost" /\ SliceOf(w)' = "Down"
            /\ CoveredOf(w)' = {}
         \/ /\ SliceOf(w) = "Down" /\ CoveredOf(w) = Rowids(w)
            /\ SliceOf(w)' = "Idle" /\ CoveredOf(w)' = {}
  PROVE  Pool!PoolNext
<1>1. CASE SliceOf(w) = "Idle" /\ SliceOf(w)' = "Asked" /\ CoveredOf(w)' = CoveredOf(w)
  <2>1. Pool!Ask({w}, {})
    BY <1>1 DEF Pool!Ask, Pool!InPhase
  <2> QED BY <2>1 DEF Pool!PoolNext
<1>2. CASE SliceOf(w) = "Idle" /\ SliceOf(w)' = "Lost" /\ CoveredOf(w)' = CoveredOf(w)
  <2>1. Pool!Ask({}, {w})
    BY <1>2 DEF Pool!Ask, Pool!InPhase
  <2> QED BY <2>1 DEF Pool!PoolNext
<1>3. CASE SliceOf(w) = "Asked" /\ SliceOf(w)' = "Idle" /\ CoveredOf(w)' = CoveredOf(w)
  <2>1. Pool!Harvest({w}, {}, {})
    BY <1>3 DEF Pool!Harvest, Pool!InPhase
  <2> QED BY <2>1 DEF Pool!PoolNext
<1>4. CASE SliceOf(w) = "Asked" /\ SliceOf(w)' = "Lost" /\ CoveredOf(w)' = CoveredOf(w)
  <2>1. Pool!Harvest({}, {w}, {})
    BY <1>4 DEF Pool!Harvest, Pool!InPhase
  <2> QED BY <2>1 DEF Pool!PoolNext
<1>5. CASE SliceOf(w) = "Lost" /\ SliceOf(w)' = "Down" /\ CoveredOf(w)' = {}
  <2>1. Pool!Harvest({}, {}, {w})
    BY <1>5 DEF Pool!Harvest, Pool!InPhase
  <2> QED BY <2>1 DEF Pool!PoolNext
<1>6. CASE /\ SliceOf(w) = "Down" /\ CoveredOf(w) = Rowids(w)
           /\ SliceOf(w)' = "Idle" /\ CoveredOf(w)' = {}
  <2>1. \A v \in Workers : Pool!CoveredAfter({})[v] = CoveredOf(v)
    BY DEF Pool!CoveredAfter
  <2>2. Pool!Replace({}, {w})
    BY <1>6, <2>1 DEF Pool!Replace, Pool!Replaceable, Pool!InPhase
  <2> QED BY <2>2 DEF Pool!PoolNext
<1> QED BY <1>1, <1>2, <1>3, <1>4, <1>5, <1>6

\* The loops, worker by worker.
LEMMA LoopSimulates ==
  ASSUME TypeOK, ManagerInv, PoolInv, ~ closed, ~ closed', NEW w \in Workers,
         \/ Launch(w) \/ Started(w) \/ DispatchTo(w) \/ SendFails(w)
         \/ DispatchSkips(w) \/ Harvest(w) \/ HarvestFails(w)
         \/ HarvestSkips(w) \/ Retire(w)
  PROVE  [Pool!PoolNext]_(Pool!poolVars)
<1>1. ManagerType /\ ProcType /\ HistoryType
  BY TypeParts
<1>2. \A v \in Workers \ {w} : SliceOf(v)' = SliceOf(v) /\ CoveredOf(v)' = CoveredOf(v)
  <2> SUFFICES ASSUME NEW v \in Workers \ {w}
               PROVE  /\ closed' = closed /\ status'[v] = status[v]
                      /\ sent'[v] = sent[v] /\ resetRows'[v] = resetRows[v]
    BY SliceFrame
  <2> QED BY <1>1 DEF Launch, Started, DispatchTo, SendFails, DispatchSkips, Harvest,
       HarvestFails, HarvestSkips, Retire, ManagerType, HistoryType, historyVars
<1>3. w \in rest /\ (status[w] # "Retired" => resetRows[w] = {})
  BY DEF PoolInv, FlagsAreRetired, Launch, Started, DispatchTo, SendFails,
     DispatchSkips, Harvest, HarvestFails, HarvestSkips, Retire, At
<1>4. CASE Launch(w)
  <2>1. status[w] = "Absent" \/ (status[w] = "Retired" /\ resetRows[w] = Rowids(w))
    BY <1>4 DEF Launch, At, ManagerInv, Launching, CoverIsExact
  <2>2. SliceOf(w) = "Down" /\ CoveredOf(w) = Rowids(w)
    BY <2>1 DEF SliceOf, CoveredOf, Starting
  <2>3. status'[w] = "Working" /\ sent'[w] = 0
    BY <1>1, <1>4 DEF Launch, ManagerType, HistoryType
  <2>4. SliceOf(w)' = "Down" /\ CoveredOf(w)' = Rowids(w)
    BY <2>3 DEF SliceOf, CoveredOf, Starting
  <2>5. UNCHANGED Pool!poolVars
    BY <1>2, <1>4, <2>2, <2>4, PoolStutter DEF Launch
  <2> QED BY <2>5
<1>5. CASE Started(w)
  <2>1. Starting(w) /\ resetRows[w] = {}
    BY <1>3, <1>5 DEF Started, At, ManagerInv, Launching, Starting
  <2>2. SliceOf(w) = "Down" /\ CoveredOf(w) = Rowids(w)
    BY <2>1 DEF SliceOf, CoveredOf, Starting
  <2>3. SliceOf(w)' = "Idle" /\ CoveredOf(w)' = {}
    BY <1>1, <1>5, <2>1 DEF SliceOf, CoveredOf, Starting, Started, ManagerType
  <2> QED BY <1>2, <2>2, <2>3, OneSlice
<1>6. CASE DispatchTo(w)
  <2>1. SliceOf(w) = "Idle" /\ CoveredOf(w) = {}
    BY <1>3, <1>6 DEF DispatchTo, Asks, SliceOf, CoveredOf, Starting
  <2>2. status'[w] = "Working" /\ sent'[w] # 0 /\ resetRows'[w] = {}
    BY <1>1, <1>3, <1>6 DEF DispatchTo, Asks, ManagerType, HistoryType
  <2>3. SliceOf(w)' = "Asked" /\ CoveredOf(w)' = {}
    BY <2>2 DEF SliceOf, CoveredOf, Starting
  <2> QED BY <1>2, <2>1, <2>3, OneSlice
<1>7. CASE SendFails(w)
  <2>1. SliceOf(w) = "Idle" /\ CoveredOf(w) = {}
    BY <1>3, <1>7 DEF SendFails, Asks, SliceOf, CoveredOf, Starting
  <2>2. status'[w] = "Failed" /\ resetRows'[w] = {}
    BY <1>1, <1>3, <1>7 DEF SendFails, Asks, ManagerType
  <2>3. SliceOf(w)' = "Lost" /\ CoveredOf(w)' = {}
    BY <2>2 DEF SliceOf, CoveredOf, Starting
  <2> QED BY <1>2, <2>1, <2>3, OneSlice
<1>8. CASE DispatchSkips(w) \/ HarvestSkips(w)
  <2>1. SliceOf(w)' = SliceOf(w) /\ CoveredOf(w)' = CoveredOf(w)
    BY <1>8, SliceFrame DEF DispatchSkips, HarvestSkips, historyVars
  <2>2. UNCHANGED Pool!poolVars
    BY <1>2, <1>8, <2>1, PoolStutter DEF DispatchSkips, HarvestSkips
  <2> QED BY <2>2
<1>9. ASSUME Harvest(w) \/ HarvestFails(w)
      PROVE  SliceOf(w) = "Asked" /\ CoveredOf(w) = {}
  BY <1>3, <1>9 DEF Harvest, HarvestFails, At, PoolInv, Starts, SliceOf, CoveredOf, Starting
<1>10. CASE Harvest(w)
  <2>1. status'[w] \in {"Completed", "Failed"} /\ resetRows'[w] = {}
    BY <1>1, <1>3, <1>10 DEF Harvest, ManagerType
  <2>2. SliceOf(w)' \in {"Idle", "Lost"} /\ CoveredOf(w)' = {}
    BY <2>1 DEF SliceOf, CoveredOf, Starting
  <2> QED BY <1>2, <1>9, <1>10, <2>2, OneSlice
<1>11. CASE HarvestFails(w)
  <2>1. status'[w] \in {"TimedOut", "Failed"} /\ resetRows'[w] = {}
    BY <1>1, <1>3, <1>11 DEF HarvestFails, ManagerType
  <2>2. SliceOf(w)' = "Lost" /\ CoveredOf(w)' = {}
    BY <2>1 DEF SliceOf, CoveredOf, Starting
  <2> QED BY <1>2, <1>9, <1>11, <2>2, OneSlice
<1>12. CASE Retire(w)
  <2>1. status[w] \in {"Failed", "TimedOut"}
    BY <1>12 DEF Retire, At, PoolInv, GivenUp
  <2>2. SliceOf(w) = "Lost"
    BY <2>1 DEF SliceOf, Starting
  <2>3. status'[w] = "Retired" /\ resetRows'[w] = {}
    BY <1>1, <1>12 DEF Retire, ManagerType
  <2>4. SliceOf(w)' = "Down" /\ CoveredOf(w)' = {}
    BY <2>3 DEF SliceOf, CoveredOf, Starting
  <2> QED BY <1>2, <2>2, <2>4, OneSlice
<1> QED BY <1>4, <1>5, <1>6, <1>7, <1>8, <1>10, <1>11, <1>12

\* A reset of rows is a replacement that brings no slice back yet.
LEMMA RespawnSimulates ==
  ASSUME TypeOK, ManagerInv, PoolInv, NEW rows \in (SUBSET Rows) \ {{}}, Respawn(rows)
  PROVE  Pool!PoolNext
<1>1. ManagerType /\ pc = "ready" /\ ~ closed /\ ~ closed'
  BY TypeParts DEF Respawn, ManagerInv, Closing
<1>2. \A v \in Workers :
        /\ status'[v] = status[v] /\ sent'[v] = sent[v]
        /\ status[v] # "Absent" /\ ~ Starting(v)
        /\ resetRows'[v] = IF status[v] = "Retired"
                           THEN resetRows[v] \cup (rows \cap Rowids(v)) ELSE resetRows[v]
  BY <1>1 DEF Respawn, MarkedRows, PoolInv, Starts
<1>3. \A v \in Workers : SliceOf(v)' = SliceOf(v)
  BY <1>1, <1>2 DEF SliceOf, Starting
<1>4. \A v \in Workers : (SliceOf(v) = "Down") <=> (status[v] = "Retired")
  BY <1>1, <1>2 DEF SliceOf, ManagerType, Statuses
<1>5. \A v \in Workers : CoveredOf(v) = resetRows[v] /\ CoveredOf(v)' = resetRows'[v]
  BY <1>1, <1>2 DEF CoveredOf, Starting
<1>6. \A v \in Workers : CoveredOf(v)' = Pool!CoveredAfter(rows)[v]
  BY <1>2, <1>4, <1>5 DEF Pool!CoveredAfter
<1>7. Pool!Replace(rows, {})
  BY <1>1, <1>3, <1>6 DEF Pool!Replace
<1> QED BY <1>7 DEF Pool!PoolNext

LEMMA StepSimulates ==
  ASSUME TypeOK, ManagerInv, ManagerInv', PoolInv, [Next]_vars
  PROVE  [Pool!PoolNext]_(Pool!poolVars)
<1>1. CASE closed'
  BY <1>1, ClosingIsShut DEF Pool!PoolNext
<1>2. closed => closed'
  BY DEF Next, Calls, Dispatch, Collect, Respawn, CloseCall, Progress, Launch,
     LaunchFails, Started, StartFails, DispatchTo, SendFails, DispatchSkips,
     Harvest, HarvestFails, HarvestSkips, Retire, RetireFails, Stop, Drain,
     Reap, EnterClose, WorkerStep, Boot, TakeOperation, FinishOperation,
     TakeStop, Die, CallOnClosed, vars, managerVars
<1>3. ASSUME UNCHANGED <<closed, status, sent, resetRows>>
      PROVE  UNCHANGED Pool!poolVars
  BY <1>3, SliceFrame, PoolStutter
<1>4. CASE ~ closed'
  <2>1. ~ closed
    BY <1>2, <1>4
  <2>2. CASE Calls
    <3>1. CASE Dispatch \/ Collect
      BY <1>3, <3>1 DEF Dispatch, Collect, historyVars
    <3>2. ASSUME NEW rows \in (SUBSET Rows) \ {{}}, Respawn(rows) PROVE Pool!PoolNext
      BY <3>2, RespawnSimulates
    <3>3. ~ CloseCall
      BY <1>4 DEF CloseCall, EnterClose
    <3> QED BY <2>2, <3>1, <3>2, <3>3 DEF Calls
  <2>3. CASE Progress
    <3>1. ~ Reap /\ \A w \in Workers : ~ LaunchFails(w) /\ ~ StartFails(w)
                         /\ ~ RetireFails(w) /\ ~ Stop(w) /\ ~ Drain(w)
      BY <1>4, <2>1 DEF Reap, LaunchFails, StartFails, RetireFails, EnterClose, Stop,
         Drain, At, ManagerInv, Closing
    <3> QED BY <1>4, <2>1, <2>3, <3>1, LoopSimulates DEF Progress
  <2>4. ASSUME NEW e \in Endpoints, WorkerStep(e) PROVE UNCHANGED Pool!poolVars
    BY <1>3, <2>4 DEF WorkerStep, Boot, TakeOperation, FinishOperation, TakeStop, Die,
       managerVars, historyVars
  <2>5. CASE UNCHANGED vars
    BY <1>3, <2>5 DEF vars, managerVars, historyVars
  <2> QED BY <2>2, <2>3, <2>4, <2>5 DEF Next, CallOnClosed
<1> QED BY <1>1, <1>4

\* The pool starts with every slice down and covered: construction is the
\* first replacement.
LEMMA InitSimulates ==
  ASSUME Init
  PROVE  Pool!PoolInit
<1>1. ~ closed /\ \A v \in Workers : SliceOf(v) = "Down" /\ CoveredOf(v) = Rowids(v)
  BY DEF Init, SliceOf, CoveredOf, Starting
<1> QED BY <1>1 DEF Pool!PoolInit

\* With its processes, messages, deadlines and crashes hidden, the manager is
\* the pool that the residual action term builds on.
THEOREM ManagerIsWorkerPool == Spec => ImplementsWorkerPool
<1>1. Init => Pool!PoolInit
  BY InitSimulates
<1>2. TypeOK /\ ManagerInv /\ ManagerInv' /\ PoolInv /\ [Next]_vars
        => [Pool!PoolNext]_(Pool!poolVars)
  BY StepSimulates
<1> QED BY <1>1, <1>2, PoolInvariant, PTL DEF Spec, ImplementsWorkerPool, Pool!PoolSpec

\* A quarantine never ends before every row it lost was reset, and its flags are the
\* rows that were.
THEOREM QuarantinesAreExact == Spec => QuarantineIsExact
BY FlagsAreExact, SlicesAwaitTheirResets, PTL DEF QuarantineIsExact
==============================================================================
