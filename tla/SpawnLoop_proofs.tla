--------------------------- MODULE SpawnLoop_proofs ---------------------------
(***************************************************************************)
(* The partition of the rows for every number of controllers and workers,  *)
(* every row size and every block offset.                                  *)
(***************************************************************************)
EXTENDS SpawnLoop, RuntimeLemmas

USE LoopAssumption

-----------------------------------------------------------------------------
(***************************************************************************)
(* The loop.                                                               *)
(***************************************************************************)

\* What spawn_worker is given at iteration i.
SliceAt(i) ==
  LET from == FirstRow(numControllers, numWorkers, i)
      count == Share(numControllers, numWorkers, i)
  IN  [first |-> from, count |-> count,
       offset |-> SliceOffset(base, from, rowSize),
       size |-> SliceSize(count, rowSize)]

ArgumentsOK ==
  /\ numControllers \in Nat /\ numWorkers \in Nat
  /\ rowSize \in Nat /\ base \in Nat

\* The loop has been through `index` workers, whose slices cover the rows
\* before `first`; and nothing is spawned for arguments that are rejected.
LoopState ==
  /\ outcome \in {"checking", "looping", "done", "thrown"}
  /\ index \in Nat /\ first \in Nat
  /\ Len(slices) = index
  /\ slices \in Seq(Slice)
  /\ \A i \in 1 .. index : slices[i] = SliceAt(i - 1)
  /\ \A row \in 0 .. (first - 1) :
       \E i \in 1 .. index : row \in RowsOfSlice(slices[i])
  /\ outcome \in {"looping", "done"} =>
       /\ ValidSplit(numControllers, numWorkers)
       /\ index <= numWorkers
       /\ first = FirstRow(numControllers, numWorkers, index)
  /\ outcome = "done" => index = numWorkers
  /\ outcome \in {"checking", "thrown"} => index = 0 /\ first = 0

\* The inductive invariant.
LoopInv == ArgumentsOK /\ LoopState

\* It holds before the check of the arguments.
LEMMA LoopInvInit == Init => LoopInv
BY DEF Init, LoopInv, ArgumentsOK, LoopState

\* Spawning a worker extends the covered rows by its slice.
LEMMA LoopInvSpawnNext ==
  ASSUME LoopInv, SpawnNext
  PROVE  LoopInv'
<1> DEFINE count == Share(numControllers, numWorkers, index)
           new == [first |-> first, count |-> count,
                   offset |-> SliceOffset(base, first, rowSize),
                   size |-> SliceSize(count, rowSize)]
<1>1. /\ outcome = "looping" /\ index < numWorkers
      /\ slices' = Append(slices, new)
      /\ first' = first + count /\ index' = index + 1
      /\ UNCHANGED <<numControllers, numWorkers, rowSize, base, outcome>>
  BY DEF SpawnNext, arguments
<1>2. /\ ArgumentsOK
      /\ ValidSplit(numControllers, numWorkers)
      /\ index \in Nat /\ first \in Nat
      /\ first = FirstRow(numControllers, numWorkers, index)
  BY <1>1 DEF LoopInv, LoopState
<1>3. /\ count \in Nat \ {0}
      /\ FirstRow(numControllers, numWorkers, index + 1) = first + count
  BY <1>2, LoopAccumulates DEF ArgumentsOK
<1>4. new = SliceAt(index)
  BY <1>2 DEF SliceAt
<1>5. new \in Slice
  <2>1. SliceOffset(base, first, rowSize) \in Nat
    BY <1>2 DEF SliceOffset, ArgumentsOK, DoubleBytes
  <2>2. SliceSize(count, rowSize) \in Nat
    BY <1>2, <1>3 DEF SliceSize, ArgumentsOK, DoubleBytes
  <2> QED BY <1>2, <1>3, <2>1, <2>2 DEF Slice
<1> HIDE DEF new, count
<1>6. slices \in Seq(Slice) /\ Len(slices) = index
  BY DEF LoopInv, LoopState
<1>7. /\ slices' \in Seq(Slice) /\ Len(slices') = index + 1
      /\ \A i \in 1 .. index : slices'[i] = slices[i]
      /\ slices'[index + 1] = new
  BY <1>1, <1>2, <1>5, <1>6
<1>8. \A i \in Nat : SliceAt(i)' = SliceAt(i)
  BY <1>1 DEF SliceAt
<1>9. \A i \in 1 .. index' : slices'[i] = SliceAt(i - 1)'
  <2>1. ASSUME NEW i \in 1 .. index' PROVE slices'[i] = SliceAt(i - 1)
    <3>1. i \in 1 .. index \/ i = index + 1
      BY <1>1, <1>2
    <3>2. CASE i \in 1 .. index
      BY <1>7, <3>2 DEF LoopInv, LoopState
    <3>3. CASE i = index + 1
      <4>1. i - 1 = index
        BY <1>2, <3>3
      <4> QED BY <1>4, <1>7, <3>3, <4>1
    <3> QED BY <3>1, <3>2, <3>3
  <2>2. \A i \in 1 .. index' : i - 1 \in Nat
    BY <1>1, <1>2
  <2> QED BY <1>8, <2>1, <2>2
<1>10. ASSUME NEW row \in 0 .. (first' - 1)
       PROVE  \E i \in 1 .. index' : row \in RowsOfSlice(slices'[i])
  <2>1. CASE row \in 0 .. (first - 1)
    <3>1. PICK i \in 1 .. index : row \in RowsOfSlice(slices[i])
      BY <2>1, Zenon DEF LoopInv, LoopState
    <3>2. i \in 1 .. index' /\ slices'[i] = slices[i]
      BY <1>1, <1>2, <1>7
    <3> QED BY <3>1, <3>2, Zenon DEF RowsOfSlice
  <2>2. CASE row \in first .. (first + count - 1)
    <3>1. new.first = first /\ new.count = count
      BY DEF new
    <3>2. row \in RowsOfSlice(slices'[index + 1])
      BY <1>7, <2>2, <3>1 DEF RowsOfSlice
    <3>3. index + 1 \in 1 .. index'
      BY <1>1, <1>2
    <3> QED BY <3>2, <3>3, Zenon
  <2>3. row \in 0 .. (first - 1) \/ row \in first .. (first + count - 1)
    BY <1>1, <1>2, <1>3
  <2> QED BY <2>1, <2>2, <2>3
<1>11. ArgumentsOK'
  BY <1>1, <1>2 DEF ArgumentsOK
<1>12. /\ outcome' = "looping" /\ index' \in Nat /\ first' \in Nat
       /\ ValidSplit(numControllers', numWorkers')
       /\ index' <= numWorkers'
       /\ first' = FirstRow(numControllers', numWorkers', index')
       /\ Len(slices') = index'
  BY <1>1, <1>2, <1>3, <1>7 DEF ArgumentsOK
<1> QED BY <1>7, <1>9, <1>10, <1>11, <1>12 DEF LoopInv, LoopState

\* No step breaks it.
LEMMA LoopInvStep == LoopInv /\ [Next]_vars => LoopInv'
<1> SUFFICES ASSUME LoopInv, [Next]_vars PROVE LoopInv'
  OBVIOUS
<1>1. CASE Check
  <2>1. /\ outcome' = IF ValidSplit(numControllers, numWorkers)
                      THEN "looping" ELSE "thrown"
        /\ UNCHANGED <<numControllers, numWorkers, rowSize, base, index, first, slices>>
        /\ index = 0 /\ first = 0
    BY <1>1 DEF Check, arguments, LoopInv, LoopState
  <2>2. \A i \in Nat : SliceAt(i)' = SliceAt(i)
    BY <2>1 DEF SliceAt
  <2>3. ValidSplit(numControllers, numWorkers) =>
          FirstRow(numControllers, numWorkers, 0) = 0
    BY LoopAccumulates DEF LoopInv, ArgumentsOK
  <2>4. ArgumentsOK'
    BY <2>1 DEF LoopInv, ArgumentsOK
  <2>5. 0 <= numWorkers
    BY DEF LoopInv, ArgumentsOK
  <2>6. outcome' = "looping" => ValidSplit(numControllers', numWorkers')
    BY <2>1, Zenon
  <2> QED BY <2>1, <2>2, <2>3, <2>4, <2>5, <2>6 DEF LoopInv, LoopState
<1>2. CASE SpawnNext
  BY <1>2, LoopInvSpawnNext
<1>3. CASE LeaveLoop
  <2>1. \A i \in Nat : SliceAt(i)' = SliceAt(i)
    BY <1>3 DEF LeaveLoop, arguments, SliceAt
  <2> QED BY <1>3, <2>1 DEF LeaveLoop, arguments, LoopInv, ArgumentsOK, LoopState
<1>4. CASE UNCHANGED vars
  <2>1. \A i \in Nat : SliceAt(i)' = SliceAt(i)
    BY <1>4 DEF vars, arguments, SliceAt
  <2> QED BY <1>4, <2>1 DEF vars, arguments, LoopInv, ArgumentsOK, LoopState
<1> QED BY <1>1, <1>2, <1>3, <1>4 DEF Next

\* The inductive invariant holds for ever.
LEMMA LoopInvariant == Spec => []LoopInv
BY LoopInvInit, LoopInvStep, PTL DEF Spec

-----------------------------------------------------------------------------
(***************************************************************************)
(* The properties.                                                         *)
(***************************************************************************)

\* Indices, offsets and sizes are natural numbers for all arguments.
THEOREM TypeCorrect == Spec => []TypeOK
<1>1. LoopInv => TypeOK
  BY DEF LoopInv, ArgumentsOK, LoopState, TypeOK
<1> QED BY <1>1, LoopInvariant, PTL

\* The accumulator is the closed form, for every split.
THEOREM AccumulatorIsRight == Spec => []AccumulatorIsClosedForm
<1>1. LoopInv => AccumulatorIsClosedForm
  BY DEF LoopInv, LoopState, AccumulatorIsClosedForm
<1> QED BY <1>1, LoopInvariant, PTL

\* What LoopInv says of two spawned slices: the earlier one ends before the
\* later one begins, and both lie within the rows.
LEMMA SlicesApart ==
  ASSUME LoopInv, NEW i \in 1 .. Len(slices)
  PROVE  /\ slices[i].first \in Nat
         /\ slices[i].count \in Nat \ {0}
         /\ slices[i].first + slices[i].count <= numControllers
         /\ \A j \in 1 .. Len(slices) :
              /\ slices[i].count <= slices[j].count + 1
              /\ i < j => slices[i].first + slices[i].count <= slices[j].first
<1>1. /\ ArgumentsOK
      /\ index \in Nat /\ Len(slices) = index
      /\ \A j \in 1 .. index : slices[j] = SliceAt(j - 1)
  BY DEF LoopInv, LoopState
<1>2. ValidSplit(numControllers, numWorkers) /\ index <= numWorkers
  BY <1>1 DEF LoopInv, LoopState
<1>3. \A j \in 1 .. index :
        /\ slices[j].first = FirstRow(numControllers, numWorkers, j - 1)
        /\ slices[j].count = Share(numControllers, numWorkers, j - 1)
  BY <1>1 DEF SliceAt
<1>4. \A j \in 1 .. index : j - 1 \in Nat
  BY <1>1
<1> DEFINE F(m) == FirstRow(numControllers, numWorkers, m)
           S(m) == Share(numControllers, numWorkers, m)
<1>0. /\ F(numWorkers) = numControllers
      /\ \A m \in Nat : /\ F(m) \in Nat /\ S(m) \in Nat \ {0}
                       /\ F(m + 1) = F(m) + S(m)
  <2>1. numControllers \in Nat /\ numWorkers \in Nat
    BY <1>1 DEF ArgumentsOK
  <2>2. F(numWorkers) = numControllers
    BY <1>2, <2>1, LoopAccumulates
  <2>3. ASSUME NEW m \in Nat
        PROVE  /\ F(m) \in Nat /\ S(m) \in Nat \ {0}
               /\ F(m + 1) = F(m) + S(m)
    <3>1. \A n, k \in Nat :
            ValidSplit(n, k) =>
              \A j \in Nat :
                /\ FirstRow(n, k, j) \in Nat
                /\ Share(n, k, j) \in Nat \ {0}
                /\ FirstRow(n, k, j + 1) = FirstRow(n, k, j) + Share(n, k, j)
      BY LoopAccumulates
    <3> QED BY <1>2, <2>1, <3>1, Zenon
  <2> QED BY <2>2, <2>3
<1> HIDE DEF F, S
<1>5. slices[i].first \in Nat /\ slices[i].count \in Nat \ {0}
  <2>1. slices[i].first = F(i - 1) /\ slices[i].count = S(i - 1)
    BY <1>1, <1>3 DEF F, S
  <2>2. i - 1 \in Nat
    BY <1>1, <1>4
  <2> QED BY <1>0, <2>1, <2>2
<1>8. F((i - 1) + 1) = slices[i].first + slices[i].count
  <2>1. slices[i].first = F(i - 1) /\ slices[i].count = S(i - 1)
    BY <1>1, <1>3 DEF F, S
  <2>2. i - 1 \in Nat
    BY <1>1, <1>4
  <2> QED BY <1>0, <2>1, <2>2
<1>6. slices[i].first + slices[i].count <= numControllers
  <2>1. CASE i - 1 < numWorkers - 1
    <3>1. F(i) = slices[i].first + slices[i].count
      <4>1. (i - 1) + 1 = i
        BY <1>1
      <4> QED BY <1>8, <4>1
    <3>2. i \in Nat /\ i < numWorkers /\ numWorkers \in Nat
      BY <1>1, <1>2, <2>1 DEF ArgumentsOK
    <3>5. F(i) \in Nat /\ S(i) \in Nat
      BY <1>0, <3>2
    <3>3. F(i) + S(i) <= F(numWorkers)
      BY <1>1, <1>2, <3>2, SlicesInOrder DEF ArgumentsOK, F, S
    <3>6. F(i) + S(i) <= numControllers
      BY <1>0, <3>3
    <3>7. numControllers \in Nat
      BY <1>1 DEF ArgumentsOK
    <3>4. F(i) <= numControllers
      BY <3>5, <3>6, <3>7
    <3> QED BY <3>1, <3>4
  <2>2. CASE i - 1 = numWorkers - 1
    <3>1. (i - 1) + 1 = numWorkers
      BY <1>1, <2>2 DEF ArgumentsOK
    <3> QED BY <1>0, <1>1, <1>5, <1>8, <3>1 DEF ArgumentsOK
  <2> QED BY <1>1, <1>2, <2>1, <2>2 DEF ArgumentsOK
<1>7. ASSUME NEW j \in 1 .. Len(slices)
      PROVE  /\ slices[i].count <= slices[j].count + 1
             /\ i < j => slices[i].first + slices[i].count <= slices[j].first
  <2>1. slices[i].count <= slices[j].count + 1
    <3> DEFINE q == numControllers \div numWorkers
    <3>1. q \in Nat
      BY <1>1, <1>2, Division DEF ArgumentsOK
    <3>2. \A m \in 1 .. index : slices[m].count = q \/ slices[m].count = q + 1
      BY <1>3, <3>1 DEF Share
    <3>3. /\ slices[i].count = q \/ slices[i].count = q + 1
          /\ slices[j].count = q \/ slices[j].count = q + 1
      BY <1>1, <3>2
    <3> HIDE DEF q
    <3> QED BY <3>1, <3>3
  <2>2. ASSUME i < j PROVE slices[i].first + slices[i].count <= slices[j].first
    <3>1. i - 1 < j - 1
      BY <1>1, <2>2
    <3> QED BY <1>1, <1>2, <1>3, <1>4, <3>1, SlicesInOrder DEF ArgumentsOK
  <2> QED BY <2>1, <2>2
<1> QED BY <1>5, <1>6, <1>7

\* The constructor gives every controller row to exactly one worker, in
\* slices that differ by at most one row, for every valid split.
THEOREM RowsArePartitioned == Spec => []EveryRowHasOneWorker
<1>1. LoopInv => EveryRowHasOneWorker
  <2> SUFFICES ASSUME LoopInv, outcome = "done"
               PROVE  /\ UNION {RowsOfSlice(slices[i]) : i \in 1 .. Len(slices)}
                           = 0 .. (numControllers - 1)
                      /\ \A i, j \in 1 .. Len(slices) :
                           /\ slices[i].count > 0
                           /\ slices[i].count <= slices[j].count + 1
                           /\ i # j => RowsOfSlice(slices[i]) \cap RowsOfSlice(slices[j]) = {}
    BY DEF EveryRowHasOneWorker
  <2>1. /\ ArgumentsOK
        /\ Len(slices) = index /\ index = numWorkers
        /\ first = FirstRow(numControllers, numWorkers, numWorkers)
        /\ ValidSplit(numControllers, numWorkers)
    BY DEF LoopInv, LoopState
  <2>2. first = numControllers
    BY <2>1, LoopAccumulates DEF ArgumentsOK
  <2>3. ASSUME NEW row \in 0 .. (numControllers - 1)
        PROVE  row \in UNION {RowsOfSlice(slices[i]) : i \in 1 .. Len(slices)}
    <3>1. \E i \in 1 .. Len(slices) : row \in RowsOfSlice(slices[i])
      BY <2>1, <2>2 DEF LoopInv, LoopState
    <3> QED BY <3>1, Zenon
  <2>4. ASSUME NEW i \in 1 .. Len(slices)
        PROVE  RowsOfSlice(slices[i]) \subseteq 0 .. (numControllers - 1)
    BY <2>1, SlicesApart DEF RowsOfSlice, ArgumentsOK
  <2>5. UNION {RowsOfSlice(slices[i]) : i \in 1 .. Len(slices)}
          = 0 .. (numControllers - 1)
    BY <2>3, <2>4, Zenon
  <2>6. ASSUME NEW i \in 1 .. Len(slices), NEW j \in 1 .. Len(slices)
        PROVE  /\ slices[i].count > 0
               /\ slices[i].count <= slices[j].count + 1
               /\ i # j => RowsOfSlice(slices[i]) \cap RowsOfSlice(slices[j]) = {}
    <3>1. ASSUME NEW a \in 1 .. Len(slices), NEW b \in 1 .. Len(slices), a < b
          PROVE  RowsOfSlice(slices[a]) \cap RowsOfSlice(slices[b]) = {}
      <4>1. /\ slices[a].first \in Nat /\ slices[a].count \in Nat
            /\ slices[b].first \in Nat /\ slices[b].count \in Nat
            /\ slices[a].first + slices[a].count <= slices[b].first
        BY <3>1, SlicesApart
      <4>2. \A x \in RowsOfSlice(slices[a]) : x \in Int /\ x < slices[b].first
        BY <4>1 DEF RowsOfSlice
      <4>3. \A x \in RowsOfSlice(slices[b]) : x \in Int /\ ~ (x < slices[b].first)
        BY <4>1 DEF RowsOfSlice
      <4> QED BY <4>2, <4>3
    <3>2. i # j => i < j \/ j < i
      BY <2>1 DEF ArgumentsOK
    <3>3. i # j => RowsOfSlice(slices[i]) \cap RowsOfSlice(slices[j]) = {}
      BY <3>1, <3>2
    <3> QED BY <3>3, SlicesApart
  <2> QED BY <2>5, <2>6
<1> QED BY <1>1, LoopInvariant, PTL

\* Every worker maps only its own bytes of the block, for every row size and
\* every offset of the block.
THEOREM WindowsArePrivate == Spec => []WindowsAreDisjoint
<1>1. LoopInv => WindowsAreDisjoint
  <2> SUFFICES ASSUME LoopInv PROVE WindowsAreDisjoint
    OBVIOUS
  <2>1. /\ ArgumentsOK
        /\ \A i \in 1 .. Len(slices) : slices[i] = SliceAt(i - 1)
    BY DEF LoopInv, LoopState
  <2> DEFINE unit == rowSize * DoubleBytes
  <2>2. unit \in Nat
    BY <2>1 DEF ArgumentsOK, DoubleBytes
  <2>3. ASSUME NEW i \in 1 .. Len(slices)
        PROVE  /\ slices[i].offset = base + slices[i].first * unit
               /\ slices[i].size = slices[i].count * unit
    <3>1. slices[i].first \in Nat /\ slices[i].count \in Nat
      BY SlicesApart
    <3>2. /\ slices[i].offset = SliceOffset(base, slices[i].first, rowSize)
          /\ slices[i].size = SliceSize(slices[i].count, rowSize)
      <4>1. slices[i] = SliceAt(i - 1)
        BY <2>1
      <4>2. \A m : /\ SliceAt(m).offset = SliceOffset(base, SliceAt(m).first, rowSize)
                   /\ SliceAt(m).size = SliceSize(SliceAt(m).count, rowSize)
        BY DEF SliceAt
      <4> QED BY <4>1, <4>2, Zenon
    <3> QED BY <2>1, <3>1, <3>2 DEF ArgumentsOK, DoubleBytes, SliceOffset, SliceSize
  <2>4. numControllers * rowSize * DoubleBytes = numControllers * unit
    BY <2>1 DEF ArgumentsOK, DoubleBytes
  <2> HIDE DEF unit
  <2>5. ASSUME NEW i \in 1 .. Len(slices)
        PROVE  /\ slices[i].offset \in Nat /\ slices[i].size \in Nat
               /\ base <= slices[i].offset
               /\ slices[i].offset + slices[i].size
                    = base + (slices[i].first + slices[i].count) * unit
    <3>1. slices[i].first \in Nat /\ slices[i].count \in Nat
      BY SlicesApart
    <3>2. /\ slices[i].first * unit \in Nat /\ slices[i].count * unit \in Nat
          /\ (slices[i].first + slices[i].count) * unit
               = slices[i].first * unit + slices[i].count * unit
      BY <2>2, <3>1
    <3>3. base \in Nat
      BY <2>1 DEF ArgumentsOK
    <3> QED BY <2>3, <3>2, <3>3
  <2>6. ASSUME NEW i \in 1 .. Len(slices)
        PROVE  Bytes(slices[i]) \subseteq BlockBytes
    <3>1. /\ slices[i].first + slices[i].count \in Nat
          /\ slices[i].first + slices[i].count <= numControllers
      BY SlicesApart
    <3>2. (slices[i].first + slices[i].count) * unit <= numControllers * unit
      BY <2>1, <2>2, <3>1, Multiples DEF ArgumentsOK
    <3>3. /\ numControllers * unit \in Nat
          /\ (slices[i].first + slices[i].count) * unit \in Nat
      BY <2>1, <2>2, <3>1 DEF ArgumentsOK
    <3>4. base \in Nat
      BY <2>1 DEF ArgumentsOK
    <3>5. slices[i].offset + slices[i].size <= base + numControllers * unit
      BY <2>5, <3>2, <3>3, <3>4
    <3>6. BlockBytes = base .. (base + numControllers * unit - 1)
      BY <2>4 DEF BlockBytes
    <3>7. slices[i].offset \in Nat /\ slices[i].size \in Nat /\ base <= slices[i].offset
      BY <2>5
    <3> QED BY <3>3, <3>4, <3>5, <3>6, <3>7 DEF Bytes
  <2>7. ASSUME NEW a \in 1 .. Len(slices), NEW b \in 1 .. Len(slices), a < b
        PROVE  Bytes(slices[a]) \cap Bytes(slices[b]) = {}
    <3>1. /\ slices[a].first + slices[a].count \in Nat
          /\ slices[b].first \in Nat
          /\ slices[a].first + slices[a].count <= slices[b].first
      BY <2>7, SlicesApart
    <3>2. /\ (slices[a].first + slices[a].count) * unit <= slices[b].first * unit
          /\ (slices[a].first + slices[a].count) * unit \in Nat
          /\ slices[b].first * unit \in Nat
      BY <2>2, <3>1, Multiples
    <3>3. slices[a].offset + slices[a].size <= slices[b].offset
      <4>1. base \in Nat
        BY <2>1 DEF ArgumentsOK
      <4>2. /\ slices[a].offset + slices[a].size
                 = base + (slices[a].first + slices[a].count) * unit
            /\ slices[b].offset = base + slices[b].first * unit
        BY <2>3, <2>5
      <4> QED BY <3>2, <4>1, <4>2
    <3>4. /\ slices[a].offset \in Nat /\ slices[a].size \in Nat
          /\ slices[b].offset \in Nat /\ slices[b].size \in Nat
      BY <2>5
    <3>5. \A x \in Bytes(slices[a]) : x \in Int /\ x < slices[b].offset
      BY <3>3, <3>4 DEF Bytes
    <3>6. \A x \in Bytes(slices[b]) : x \in Int /\ ~ (x < slices[b].offset)
      BY <3>4 DEF Bytes
    <3> QED BY <3>5, <3>6
  <2>8. \A i, j \in 1 .. Len(slices) : i # j => i < j \/ j < i
    BY DEF LoopInv, LoopState
  <2> QED BY <2>6, <2>7, <2>8, Zenon DEF WindowsAreDisjoint
<1> QED BY <1>1, LoopInvariant, PTL

\* The constructor partitions rows and bytes among any number of workers.
THEOREM SlicesArePartition == Spec => []SlicesPartitionTheBlock
BY AccumulatorIsRight, RowsArePartitioned, WindowsArePrivate, PTL DEF SlicesPartitionTheBlock
=============================================================================
