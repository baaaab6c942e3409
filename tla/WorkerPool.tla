----------------------------- MODULE WorkerPool -----------------------------
(***************************************************************************)
(* What a pool of controller workers promises its caller, without          *)
(* processes, sockets or messages: the contract ControllersManager         *)
(* implements and the residual action term builds on.                      *)
(*                                                                         *)
(* A slice of rows is Idle (may be asked), Asked (one operation is         *)
(* outstanding), Lost (its worker failed, nobody has been told yet) or     *)
(* Down (its worker is gone and its rows are quarantined).  A Down slice   *)
(* comes back only after every one of its rows has been reset.             *)
(***************************************************************************)
EXTENDS Integers

CONSTANTS Worker,      \* the slices, one worker each
          Row,         \* the controller rows
          RowsOf       \* RowsOf[w]: the rows of a slice, which no other slice has

ASSUME PoolAssumption ==
  /\ RowsOf \in [Worker -> (SUBSET Row) \ {{}}]
  /\ \A v, w \in Worker : v # w => RowsOf[v] \cap RowsOf[w] = {}

VARIABLES slice,       \* slice[w]: the phase of w's slice
          covered,     \* covered[w]: rows reset since w went down
          open         \* FALSE once the pool is closed

poolVars == <<slice, covered, open>>

SlicePhase == {"Idle", "Asked", "Lost", "Down"}

PoolTypeOK ==
  /\ slice \in [Worker -> SlicePhase]
  /\ covered \in [Worker -> SUBSET Row]
  /\ open \in BOOLEAN

InPhase(p) == {w \in Worker : slice[w] = p}

\* Construction is the first replacement of every slice.
PoolInit ==
  /\ slice = [w \in Worker |-> "Down"]
  /\ covered = [w \in Worker |-> RowsOf[w]]
  /\ open = TRUE

-----------------------------------------------------------------------------
\* An operation reaches the idle slices `asked`; the send to `lost` fails.
Ask(asked, lost) ==
  /\ open
  /\ asked \cup lost \subseteq InPhase("Idle")
  /\ asked \cap lost = {}
  /\ slice' = [w \in Worker |-> IF w \in asked THEN "Asked"
                                ELSE IF w \in lost THEN "Lost" ELSE slice[w]]
  /\ UNCHANGED <<covered, open>>

\* `answered` completed; `lost` did not; `down` are torn down and reported.
Harvest(answered, lost, down) ==
  /\ open
  /\ answered \cup lost \subseteq InPhase("Asked")
  /\ down \subseteq InPhase("Asked") \cup InPhase("Lost")
  /\ answered \cap lost = {} /\ answered \cap down = {} /\ lost \cap down = {}
  /\ slice' = [w \in Worker |-> IF w \in answered THEN "Idle"
                                ELSE IF w \in lost THEN "Lost"
                                ELSE IF w \in down THEN "Down" ELSE slice[w]]
  /\ covered' = [w \in Worker |-> IF w \in down THEN {} ELSE covered[w]]
  /\ UNCHANGED open

\* Rows a reset of `rows` adds to the cover of each quarantined slice.
CoveredAfter(rows) ==
  [w \in Worker |-> IF slice[w] = "Down"
                    THEN covered[w] \cup (rows \cap RowsOf[w]) ELSE covered[w]]

\* Quarantined slices every row of which has now been reset.
Replaceable(rows) ==
  {w \in InPhase("Down") : CoveredAfter(rows)[w] = RowsOf[w]}

\* `rows` are reset, and the slices `back` get a new worker.
Replace(rows, back) ==
  /\ open
  /\ back \subseteq Replaceable(rows)
  /\ slice' = [w \in Worker |-> IF w \in back THEN "Idle" ELSE slice[w]]
  /\ covered' = [w \in Worker |-> IF w \in back THEN {} ELSE CoveredAfter(rows)[w]]
  /\ UNCHANGED open

\* Closing is final and takes every slice down, whatever it was doing.
Shut ==
  /\ open
  /\ open' = FALSE
  /\ slice' = [w \in Worker |-> "Down"]
  /\ covered' = [w \in Worker |-> {}]

PoolNext ==
  \/ \E asked, lost \in SUBSET Worker : Ask(asked, lost)
  \/ \E answered, lost, down \in SUBSET Worker : Harvest(answered, lost, down)
  \/ \E rows \in SUBSET Row, back \in SUBSET Worker : Replace(rows, back)
  \/ Shut

PoolSpec == PoolInit /\ [][PoolNext]_poolVars
=============================================================================
