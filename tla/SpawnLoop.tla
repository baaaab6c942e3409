------------------------------ MODULE SpawnLoop ------------------------------
(***************************************************************************)
(* The ControllersManager constructor's loop over the workers: which rows  *)
(* and which bytes of a shared block every spawned worker is given.        *)
(*                                                                         *)
(* Every worker maps its window writable, so two windows that overlap, or  *)
(* one that ends outside the block, are two processes writing the same     *)
(* row or one writing somebody else's memory.  ControllersManager uses the *)
(* closed form FirstRow of what the loop accumulates.                      *)
(***************************************************************************)
EXTENDS RowPartition, Sequences

CONSTANTS MaxControllers,  \* bound on num_controllers
          MaxRowSize,      \* bound on the doubles of a row
          MaxBase          \* bound on the offset of the whole block

ASSUME LoopAssumption ==
  MaxControllers \in Nat /\ MaxRowSize \in Nat /\ MaxBase \in Nat

VARIABLES
  numControllers,  \* m_num_controllers
  numWorkers,      \* m_num_workers
  rowSize,         \* layout.input_size() or layout.output_size()
  base,            \* m_configuration.<block>.offset
  outcome,         \* of the constructor: "checking", "looping", "done", "thrown"
  index,           \* the loop variable
  first,           \* first_controller_index
  slices           \* the row range and byte window of each spawned worker

arguments == <<numControllers, numWorkers, rowSize, base>>
vars == <<arguments, outcome, index, first, slices>>

Slice == [first : Nat, count : Nat, offset : Nat, size : Nat]

\* Indices and offsets are unsigned: nothing is ever negative.
TypeOK ==
  /\ numControllers \in Nat
  /\ numWorkers \in Nat
  /\ rowSize \in Nat
  /\ base \in Nat
  /\ outcome \in {"checking", "looping", "done", "thrown"}
  /\ index \in Nat
  /\ first \in Nat
  /\ slices \in Seq(Slice)

Init ==
  /\ numControllers \in 0 .. MaxControllers
  /\ numWorkers \in 0 .. (MaxControllers + 1)
  /\ rowSize \in 1 .. MaxRowSize
  /\ base \in 0 .. MaxBase
  /\ outcome = "checking"
  /\ index = 0
  /\ first = 0
  /\ slices = <<>>

\* Reject a worker without a row, before any division by numWorkers.
Check ==
  /\ outcome = "checking"
  /\ outcome' = IF ValidSplit(numControllers, numWorkers) THEN "looping" ELSE "thrown"
  /\ UNCHANGED <<arguments, index, first, slices>>

\* spawn_worker for the next slice.
SpawnNext ==
  LET count == Share(numControllers, numWorkers, index) IN
  /\ outcome = "looping"
  /\ index < numWorkers
  /\ slices' = Append(slices, [first |-> first, count |-> count,
                               offset |-> SliceOffset(base, first, rowSize),
                               size |-> SliceSize(count, rowSize)])
  /\ first' = first + count
  /\ index' = index + 1
  /\ UNCHANGED <<arguments, outcome>>

LeaveLoop ==
  /\ outcome = "looping"
  /\ index = numWorkers
  /\ outcome' = "done"
  /\ UNCHANGED <<arguments, index, first, slices>>

Next == Check \/ SpawnNext \/ LeaveLoop

Spec == Init /\ [][Next]_vars

-----------------------------------------------------------------------------
RowsOfSlice(s) == s.first .. (s.first + s.count - 1)
Bytes(s) == s.offset .. (s.offset + s.size - 1)
BlockBytes == base .. (base + numControllers * rowSize * DoubleBytes - 1)

\* The accumulator is at every iteration the closed form that the other
\* modules use for the first row of a slice.
AccumulatorIsClosedForm ==
  outcome \in {"looping", "done"} =>
    /\ index <= numWorkers
    /\ first = FirstRow(numControllers, numWorkers, index)

\* When the loop ends, every row has exactly one worker, no worker is without
\* a row (spawn_worker takes the front of its row list), and the largest
\* slice has at most one row more than the smallest.
EveryRowHasOneWorker ==
  outcome = "done" =>
    /\ UNION {RowsOfSlice(slices[i]) : i \in 1 .. Len(slices)} = 0 .. (numControllers - 1)
    /\ \A i, j \in 1 .. Len(slices) :
         /\ slices[i].count > 0
         /\ slices[i].count <= slices[j].count + 1
         /\ i # j => RowsOfSlice(slices[i]) \cap RowsOfSlice(slices[j]) = {}

\* No two workers map a common byte, and none maps a byte outside the block.
WindowsAreDisjoint ==
  \A i, j \in 1 .. Len(slices) :
    /\ Bytes(slices[i]) \subseteq BlockBytes
    /\ i # j => Bytes(slices[i]) \cap Bytes(slices[j]) = {}

\* The constructor's loop partitions the block among the workers, by rows and by bytes, and
\* the other modules may use the closed form of its accumulator.
SlicesPartitionTheBlock ==
  AccumulatorIsClosedForm /\ EveryRowHasOneWorker /\ WindowsAreDisjoint
=============================================================================
