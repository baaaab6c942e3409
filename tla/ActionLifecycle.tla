---------------------------- MODULE ActionLifecycle ----------------------------
(***************************************************************************)
(* From the construction of the residual action terms of an environment    *)
(* to the end of the process: actions/mc_rtc_residual_action.py            *)
(* (__init__, close and the finalizer), its subclasses, the shared memory  *)
(* of bridge/shared_memory.py and managed_env of evaluation/rollout.py.    *)
(* Any step of a construction, the body of the script and a close may be   *)
(* left by an exception or by an interrupt.                                *)
(***************************************************************************)
EXTENDS Integers, FiniteSets

CONSTANTS Terms,         \* number of terms, built in order and closed in reverse
          MaxInterrupts  \* bound on the interrupts that hit a close

\* What is assumed of the constants.
LifecycleAssumption == Terms \in Nat \ {0} /\ MaxInterrupts \in Nat

VARIABLES
  proc,          \* "build", "body", "unwind", "exit" or "gone"
  term,          \* the term being built or closed
  terms,         \* the action terms
  managed,       \* whether the script uses managed_env
  envClosed,     \* env.close() was called
  interrupted,   \* history: terms whose close an interrupt cut short
  leaked         \* history: terms whose memory was left to the resource tracker

vars == <<proc, term, terms, managed, envClosed, interrupted, leaked>>

Term == 1..Terms

Stages == {"validate", "residual", "bridge", "input", "output", "manager", "finalizer",
           "initialize", "finish", "subclass", "ready"}

\* What a term is before its constructor: `has` is the attributes it holds.
Fresh == [stage |-> "validate", input |-> "none", output |-> "none", manager |-> "none",
          finalizer |-> "none", has |-> {}]

Init ==
  /\ proc = "build" /\ term = 1 /\ terms = [t \in Term |-> Fresh]
  /\ managed \in BOOLEAN /\ envClosed = FALSE /\ interrupted = {} /\ leaked = {}
-----------------------------------------------------------------------------
\* One step of the constructor of the current term: it moves on and makes `after` of it.
Construct(stage, next, after) ==
  /\ proc = "build" /\ terms[term].stage = stage
  /\ terms' = [terms EXCEPT ![term] = [after EXCEPT !.stage = next]]
  /\ UNCHANGED <<proc, term, managed, envClosed, interrupted, leaked>>

Now == terms[term]

ValidateCfg == Construct("validate", "residual", Now)

SetupResidual == Construct("residual", "bridge", Now)

BuildBridge == Construct("bridge", "input", Now)

CreateInput == Construct("input", "output", [Now EXCEPT !.input = "mapped", !.has = @ \cup {"input"}])

\* The second block, the views of both and the first controller input.
CreateOutput == Construct("output", "manager",
  [Now EXCEPT !.output = "mapped", !.has = @ \cup {"output", "views"}])

StartManager == Construct("manager", "finalizer",
  [Now EXCEPT !.manager = "running", !.has = @ \cup {"manager"}])

\* weakref.finalize holds the manager and the memory, not the term.
ArmFinalizer == Construct("finalizer", "initialize",
  [Now EXCEPT !.finalizer = "armed", !.has = @ \cup {"finalizer"}])

Initialize == Construct("initialize", "finish", Now)

FinishInitialization == Construct("finish", "subclass", Now)

\* What the torque, ResidualMPC and feedback actions do once super().__init__ returned.
SubclassInit == Construct("subclass", "ready", Now)
-----------------------------------------------------------------------------
Unlink(block, does) ==
  IF does THEN [none |-> "none", mapped |-> "unlinked", unlinked |-> "twice",
                twice |-> "twice"][block]
  ELSE block

\* Mutant: the memory is released before the workers that access it.
Release_MemoryFirst(r, k) ==
  LET alive == r.finalizer = "armed"
  IN  [r EXCEPT !.finalizer = IF alive /\ k >= 1 THEN "spent" ELSE @,
                !.input = Unlink(@, alive /\ k >= 2), !.output = Unlink(@, alive /\ k >= 3),
                !.manager = IF alive /\ k >= 4 THEN "closed" ELSE @]

\* _release_controller, the first k steps of it; a finalizer runs once.
Release(r, k) ==
  LET alive == r.finalizer = "armed"
  IN  [r EXCEPT !.finalizer = IF alive /\ k >= 1 THEN "spent" ELSE @,
                !.manager = IF alive /\ k >= 2 THEN "closed" ELSE @,
                !.input = Unlink(@, alive /\ k >= 3), !.output = Unlink(@, alive /\ k >= 4)]

\* The attributes close has set to None after k steps, before it unlinks what is left.
Dropped(r, k) ==
  (IF k >= 5 /\ "finalizer" \in r.has THEN {"finalizer", "input", "output"} ELSE {})
  \cup (IF k >= 6 THEN {"manager"} ELSE {}) \cup (IF k >= 7 THEN {"views"} ELSE {})

CloseSteps == 9

\* The first k steps of close.
Close(r, k) ==
  LET called == IF "finalizer" \in r.has THEN Release(r, k)
                ELSE [r EXCEPT !.manager =
                        IF k >= 2 /\ "manager" \in r.has THEN "closed" ELSE @]
      kept == r.has \ Dropped(r, k)
  IN  [called EXCEPT !.input = Unlink(@, k >= 8 /\ "input" \in kept),
                     !.output = Unlink(@, k >= 9 /\ "output" \in kept),
                     !.has = kept \ ((IF k >= 8 THEN {"input"} ELSE {})
                                       \cup (IF k >= 9 THEN {"output"} ELSE {}))]

\* The current term is closed; an interrupt may come between any two steps.
CloseCurrent(k) ==
  /\ terms' = [terms EXCEPT ![term] = Close(@, k)]
  /\ IF k = CloseSteps THEN UNCHANGED interrupted
     ELSE Cardinality(interrupted) < MaxInterrupts /\ interrupted' = interrupted \cup {term}

\* The stages inside the try of __init__; `except BaseException` closes.
Guarded == {"input", "output", "manager", "finalizer", "initialize", "finish"}

\* A stage raises, or is interrupted: the environment is never built, so that nothing is
\* on the exit stack yet.
ConstructionFails ==
  /\ proc = "build" /\ proc' = "exit" /\ Now.stage # "ready"
  /\ IF Now.stage \in Guarded THEN \E k \in 0..CloseSteps : CloseCurrent(k)
     ELSE UNCHANGED <<terms, interrupted>>
  /\ UNCHANGED <<term, managed, envClosed, leaked>>

\* The next term, or the environment with all of them.
TermBuilt ==
  /\ proc = "build" /\ Now.stage = "ready"
  /\ IF term < Terms THEN term' = term + 1 /\ UNCHANGED proc ELSE proc' = "body" /\ UNCHANGED term
  /\ UNCHANGED <<terms, managed, envClosed, interrupted, leaked>>

\* The body ends or raises; without managed_env only a body that ends closes the
\* environment, and nobody closes the terms.
BodyEnds ==
  /\ proc = "body"
  /\ IF managed THEN proc' = "unwind" /\ UNCHANGED envClosed
     ELSE proc' = "exit" /\ envClosed' \in BOOLEAN
  /\ UNCHANGED <<term, terms, managed, interrupted, leaked>>

\* The callback after which the exit stack goes on: its own, whether or not it raised.
Unwound(k) == term

\* The exit stack closes the terms in reverse order, then the environment.
Unwind ==
  /\ proc = "unwind"
  /\ \E k \in 0..CloseSteps :
       /\ CloseCurrent(k)
       /\ IF Unwound(k) > 1 THEN term' = term - 1 /\ UNCHANGED <<proc, envClosed>>
          ELSE proc' = "exit" /\ envClosed' = TRUE /\ UNCHANGED term
  /\ UNCHANGED <<managed, leaked>>

\* The interpreter ends: the armed finalizers run, a manager nobody holds is destroyed,
\* and the resource tracker unlinks what is still registered.
Exit ==
  /\ proc = "exit" /\ proc' = "gone"
  /\ LET final == [t \in Term |-> Release(terms[t], CloseSteps)]
     IN  /\ leaked' = {t \in Term : "mapped" \in {final[t].input, final[t].output}}
         /\ terms' = [t \in Term |-> [final[t] EXCEPT
                        !.manager = IF @ = "running" THEN "closed" ELSE @, !.has = {}]]
  /\ UNCHANGED <<term, managed, envClosed, interrupted>>

Next ==
  \/ ValidateCfg \/ SetupResidual \/ BuildBridge \/ CreateInput \/ CreateOutput
  \/ StartManager \/ ArmFinalizer \/ Initialize \/ FinishInitialization \/ SubclassInit
  \/ ConstructionFails \/ TermBuilt \/ BodyEnds \/ Unwind \/ Exit

Spec == Init /\ [][Next]_vars
-----------------------------------------------------------------------------
\* One type invariant; a block unlinked twice is the error shm_unlink would raise.
TypeOK ==
  /\ proc \in {"build", "body", "unwind", "exit", "gone"} /\ term \in Term
  /\ \A t \in Term :
       /\ terms[t].stage \in Stages
       /\ {terms[t].input, terms[t].output} \subseteq {"none", "mapped", "unlinked"}
       /\ terms[t].manager \in {"none", "running", "closed"}
       /\ terms[t].finalizer \in {"none", "armed", "spent"}
  /\ interrupted \subseteq Term /\ leaked \subseteq Term

\* _release_controller: the workers are released before the memory they may still be
\* accessing, on every way a term comes to its end.
WorkersGoFirst ==
  \A t \in Term : "unlinked" \in {terms[t].input, terms[t].output} => terms[t].manager # "running"

\* The creator alone unlinks, and once: neither the failed constructor nor the close after
\* the finalizer nor the exit finds a block it already removed.
UnlinkedOnce == \A t \in Term : "twice" \notin {terms[t].input, terms[t].output}

\* Whatever raises, and whoever forgets to close: no block is left to the resource tracker,
\* except by a close that an interrupt cut short.
NothingIsLeaked == leaked \subseteq interrupted

\* managed_env: every controller is closed before the environment, also after a close
\* that raised.
ControllersCloseFirst ==
  managed /\ envClosed => \A t \in Term \ interrupted : terms[t].manager = "closed"

\* bridge/sim_controller_bridge.py: "Drop the shared-block views so the blocks can be
\* unlinked": nothing is unlinked while the bridge still views it (violated).
ViewsDropFirst ==
  \A t \in Term : "unlinked" \in {terms[t].input, terms[t].output} => "views" \notin terms[t].has
=============================================================================
