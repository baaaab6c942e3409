---------------------------- MODULE RowPartition ----------------------------
(***************************************************************************)
(* How ControllersManager cuts the controller rows into one contiguous     *)
(* slice per worker, and the shared-memory window each worker is given.    *)
(*                                                                         *)
(* The constructor accumulates first_controller_index over a loop; the     *)
(* closed form FirstRow is what the accumulator holds at iteration w       *)
(* (SpawnLoop checks and proves it).                                       *)
(***************************************************************************)
EXTENDS Integers

\* sizeof(double), the unit of every column of the shared blocks.
DoubleBytes == 8

\* The constructor throws for any other pair.
ValidSplit(numControllers, numWorkers) ==
  ~ (numWorkers = 0 \/ numWorkers > numControllers)

\* num_controllers_per_worker at iteration w: the remainder goes to the
\* leading workers.
Share(numControllers, numWorkers, w) ==
  numControllers \div numWorkers
    + (IF w < numControllers % numWorkers THEN 1 ELSE 0)

\* first_controller_index at iteration w.
FirstRow(numControllers, numWorkers, w) ==
  w * (numControllers \div numWorkers)
    + (IF w < numControllers % numWorkers THEN w ELSE numControllers % numWorkers)

\* row_ids: std::iota from first_controller_index.
RowIds(numControllers, numWorkers, w) ==
  LET first == FirstRow(numControllers, numWorkers, w)
  IN  first .. (first + Share(numControllers, numWorkers, w) - 1)

\* Mutant of SliceOffset: rows counted as single columns.
SliceOffset_PerColumn(base, first, rowSize) == base + first * DoubleBytes

\* The byte window of `count` rows of `rowSize` doubles from row `first`, for
\* a block that itself starts at byte `base`.
SliceOffset(base, first, rowSize) == base + first * rowSize * DoubleBytes
SliceSize(count, rowSize) == count * rowSize * DoubleBytes
=============================================================================
