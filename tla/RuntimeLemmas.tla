---------------------------- MODULE RuntimeLemmas ----------------------------
(***************************************************************************)
(* Lemmas about the pure parts of the native runtime, for the proofs of    *)
(* the modules that use them: the split of the rows among the workers, and *)
(* the outcomes of the operations on one controller row; and, first, how   *)
(* the elements of a finite set are numbered in an order.                  *)
(***************************************************************************)
EXTENDS RowPartition, ControllerInstance, FiniteSetTheorems, WellFoundedInduction,
        NaturalsInduction, TLAPS

\* A set of naturals has a least element.
LEMMA LeastNumber ==
  ASSUME NEW T, T \subseteq Nat, T # {}
  PROVE  \E x \in T : \A y \in T : x <= y
<1> DEFINE R == OpToRel(<, Nat)
<1>1. PICK x \in T : \A y \in T : <<y, x>> \notin R
  BY NatLessThanWellFounded, WFMin, Zenon
<1>2. \A y \in T : <<y, x>> \in R <=> y < x
  BY Zenon DEF OpToRel
<1> HIDE DEF R
<1>3. \A y \in T : ~(y < x)
  BY <1>1, <1>2
<1>4. \A y \in T : x <= y
  BY <1>3
<1> QED BY <1>4

\* Counting, for each element of a finite set, those that come up to it numbers the set, if
\* of two elements one comes before the other and so do all that come up to it.
LEMMA RanksNumber ==
  ASSUME NEW F, IsFiniteSet(F), NEW upto \in [F -> SUBSET F],
         \A i \in F : i \in upto[i],
         \A i, j \in F : i # j =>
          \/ upto[i] \subseteq upto[j] /\ j \notin upto[i]
          \/ upto[j] \subseteq upto[i] /\ i \notin upto[j],
         NEW rank, rank = [i \in F |-> Cardinality(upto[i])]
  PROVE  /\ Cardinality(F) \in Nat /\ rank \in [F -> 1..Cardinality(F)]
         /\ \A k \in 1..Cardinality(F) : \E i \in F : rank[i] = k
         /\ \A i, j \in F : rank[i] = rank[j] => i = j
<1> DEFINE n == Cardinality(F)
<1>1. n \in Nat
  BY FS_CardinalityType
<1>2. ASSUME NEW i \in F
      PROVE  IsFiniteSet(upto[i]) /\ Cardinality(upto[i]) \in 1..n
  <2> DEFINE U == upto[i]
  <2>1. U \in SUBSET F /\ i \in U
    OBVIOUS
  <2> HIDE DEF U
  <2>2. IsFiniteSet(U) /\ Cardinality(U) <= n
    BY <2>1, FS_Subset
  <2>3. Cardinality(U) \in Nat /\ Cardinality(U) # 0
    BY <2>1, <2>2, FS_CardinalityType, FS_EmptySet
  <2> QED BY <1>1, <2>2, <2>3 DEF U
<1>3. ASSUME NEW i \in F, NEW j \in F, upto[i] \subseteq upto[j], j \notin upto[i]
      PROVE  Cardinality(upto[i]) # Cardinality(upto[j])
  <2> DEFINE U == upto[i]
             V == upto[j]
  <2>1. U \in SUBSET V /\ j \in V /\ j \notin U
    BY <1>3
  <2>2. IsFiniteSet(V)
    BY <1>2
  <2> HIDE DEF U, V
  <2>3. Cardinality(V) = Cardinality(U) => V = U
    BY <2>1, <2>2, FS_Subset
  <2> QED BY <2>1, <2>3 DEF U, V
<1>4. rank \in [F -> 1..n]
  BY <1>2
<1>5. \A i, j \in F : rank[i] = rank[j] => i = j
  BY <1>3
<1>6. rank \in Injection(F, 1..n)
  BY <1>4, <1>5 DEF Injection, IsInjective
<1>7. IsFiniteSet(1..n) /\ Cardinality(1..n) = n
  BY <1>1, FS_Interval
<1>8. rank \in Surjection(F, 1..n)
  BY <1>6, <1>7, FS_Injection
<1> QED BY <1>1, <1>4, <1>5, <1>8 DEF Surjection

-----------------------------------------------------------------------------

\* Quotient and remainder of a valid split: no worker is left without a row.
LEMMA Division ==
  ASSUME NEW n \in Nat, NEW k \in Nat, ValidSplit(n, k)
  PROVE  /\ n \div k \in Nat \ {0}
         /\ n % k \in 0 .. (k - 1)
         /\ n = k * (n \div k) + (n % k)
<1>1. /\ n \div k \in Nat
      /\ n % k \in 0 .. (k - 1)
      /\ n = k * (n \div k) + (n % k)
  BY DEF ValidSplit
<1> QED BY <1>1 DEF ValidSplit

\* A sum of equal terms grows with their number.
LEMMA Multiples ==
  ASSUME NEW i \in Nat, NEW j \in Nat, NEW q \in Nat, i <= j
  PROVE  i * q <= j * q /\ i * q \in Nat /\ j * q \in Nat
OBVIOUS

\* The closed form satisfies the recurrence of the loop's accumulator, starts
\* at row 0 and ends behind the last row.
LEMMA LoopAccumulates ==
  ASSUME NEW n \in Nat, NEW k \in Nat, ValidSplit(n, k)
  PROVE  /\ FirstRow(n, k, 0) = 0
         /\ FirstRow(n, k, k) = n
         /\ \A i \in Nat :
              /\ FirstRow(n, k, i) \in Nat
              /\ Share(n, k, i) \in Nat \ {0}
              /\ FirstRow(n, k, i + 1) = FirstRow(n, k, i) + Share(n, k, i)
<1> DEFINE q == n \div k
           r == n % k
<1>1. q \in Nat \ {0} /\ r \in 0 .. (k - 1) /\ n = k * q + r
  BY Division
<1> HIDE DEF q, r
<1>2. \A i \in Nat :
        /\ i < r => FirstRow(n, k, i) = i * q + i /\ Share(n, k, i) = q + 1
        /\ ~ (i < r) => FirstRow(n, k, i) = i * q + r /\ Share(n, k, i) = q
  BY <1>1 DEF FirstRow, Share, q, r
<1>3. FirstRow(n, k, 0) = 0
  BY <1>1, <1>2
<1>4. FirstRow(n, k, k) = n
  BY <1>1, <1>2
<1>5. ASSUME NEW i \in Nat
      PROVE  /\ FirstRow(n, k, i) \in Nat
             /\ Share(n, k, i) \in Nat \ {0}
             /\ FirstRow(n, k, i + 1) = FirstRow(n, k, i) + Share(n, k, i)
  <2>1. i * q \in Nat /\ (i + 1) * q = i * q + q
    BY <1>1
  <2>2. i + 1 \in Nat
    OBVIOUS
  <2> QED BY <1>1, <1>2, <2>1, <2>2
<1> QED BY <1>3, <1>4, <1>5

\* The slice of a worker ends before the slice of any later one begins.
LEMMA SlicesInOrder ==
  ASSUME NEW n \in Nat, NEW k \in Nat, ValidSplit(n, k),
         NEW i \in Nat, NEW j \in Nat, i < j
  PROVE  FirstRow(n, k, i) + Share(n, k, i) <= FirstRow(n, k, j)
<1> DEFINE q == n \div k
           r == n % k
<1>1. q \in Nat \ {0} /\ r \in Nat
  BY Division
<1> HIDE DEF q, r
<1>2. \A m \in Nat : /\ m < r => FirstRow(n, k, m) = m * q + m
                     /\ ~ (m < r) => FirstRow(n, k, m) = m * q + r
  BY <1>1 DEF FirstRow, q, r
<1>3. (i + 1) * q <= j * q /\ (i + 1) * q \in Nat /\ j * q \in Nat
  BY <1>1, Multiples
<1>4. FirstRow(n, k, i + 1) <= FirstRow(n, k, j)
  BY <1>1, <1>2, <1>3
<1> QED BY <1>4, LoopAccumulates

\* The slices are sets of rows, and no row is in two of them.
LEMMA SlicesPartition ==
  ASSUME NEW n \in Nat, NEW k \in Nat, ValidSplit(n, k),
         NEW i \in 0 .. (k - 1), NEW j \in 0 .. (k - 1)
  PROVE  /\ RowIds(n, k, i) \subseteq 0 .. (n - 1)
         /\ RowIds(n, k, i) # {}
         /\ i # j => RowIds(n, k, i) \cap RowIds(n, k, j) = {}
<1> DEFINE a == FirstRow(n, k, i)
           b == FirstRow(n, k, j)
           c == Share(n, k, i)
           d == Share(n, k, j)
<1>1. i \in Nat /\ j \in Nat /\ k \in Nat /\ i < k
  OBVIOUS
<1>2. a \in Nat /\ b \in Nat /\ c \in Nat \ {0} /\ d \in Nat \ {0}
  BY <1>1, LoopAccumulates
<1>3. a + c <= n
  BY <1>1, LoopAccumulates, SlicesInOrder
<1>4. i < j => a + c <= b
  BY <1>1, SlicesInOrder
<1>5. j < i => b + d <= a
  BY <1>1, SlicesInOrder
<1>6. RowIds(n, k, i) = a .. (a + c - 1) /\ RowIds(n, k, j) = b .. (b + d - 1)
  BY DEF RowIds
<1> HIDE DEF a, b, c, d
<1>7. RowIds(n, k, i) \subseteq 0 .. (n - 1)
  BY <1>2, <1>3, <1>6
<1>8. a \in RowIds(n, k, i)
  BY <1>2, <1>6
<1>9. i < j \/ j < i \/ i = j
  BY <1>1
<1>10. i # j => RowIds(n, k, i) \cap RowIds(n, k, j) = {}
  BY <1>2, <1>4, <1>5, <1>6, <1>9
<1> QED BY <1>7, <1>8, <1>10
-----------------------------------------------------------------------------
\* What can be said of every outcome `o` of an operation: an OK is a healthy
\* instance that wrote its outputs, an exception fails the row, and only a
\* failed row can be without a controller.
Plausible(o) ==
  /\ o \in Outcome
  /\ o.status = "OK" => /\ o.inst = "running"
                        /\ o.wrote
                        /\ ~ o.threw
  /\ o.threw => o.status = "WORKER_FAILED"
  /\ o.status # "WORKER_FAILED" => o.inst # "fresh"

\* Every operation of ControllerInstance has only such outcomes.
LEMMA OutcomesPlausible ==
  ASSUME NEW before \in InstanceStates
  PROVE  /\ \A o \in InitializeOutcomes(before) : Plausible(o)
         /\ \A o \in ResetOutcomes(before) : Plausible(o)
         /\ \A o \in StepOutcomes(before) : Plausible(o)
<1>1. \A o \in Throws(before) \cup Throws("fresh") : Plausible(o)
  <2>1. ASSUME NEW i \in InstanceStates, NEW o \in Throws(i)
        PROVE  Plausible(o)
    <3>1. PICK wrote \in BOOLEAN :
            o = [inst |-> i, threw |-> TRUE, wrote |-> wrote, status |-> "WORKER_FAILED"]
      BY <2>1, Zenon DEF Throws
    <3> QED BY <2>1, <3>1 DEF Plausible, Outcome, RowStatuses
  <2>2. "fresh" \in InstanceStates
    BY DEF InstanceStates
  <2> QED BY <2>1, <2>2
<1>2. /\ Plausible(Returns("running", TRUE, "OK"))
      /\ Plausible(Returns("failed", FALSE, "QP_FAILED"))
      /\ Plausible(Returns("fresh", FALSE, "WORKER_FAILED"))
  BY DEF Returns, Plausible, Outcome, InstanceStates, RowStatuses
<1>3. \A o \in InitializeOutcomes(before) : Plausible(o)
  BY <1>1, <1>2 DEF InitializeOutcomes
<1>4. \A o \in ResetOutcomes(before) : Plausible(o)
  BY <1>1, <1>2, <1>3 DEF ResetOutcomes
<1>5. \A o \in StepOutcomes(before) : Plausible(o)
  BY <1>1, <1>2 DEF StepOutcomes, InstanceStates
<1> QED BY <1>3, <1>4, <1>5

\* The same holds of a Step that performs a reset first.
LEMMA RequestedStepPlausible ==
  ASSUME NEW before \in InstanceStates, NEW flag \in BOOLEAN,
         NEW o \in RequestedStepOutcomes(before, flag)
  PROVE  Plausible(o)
<1>1. CASE ~ flag
  BY <1>1, OutcomesPlausible DEF RequestedStepOutcomes
<1>2. CASE flag
  <2>1. CASE o \in {r \in ResetOutcomes(before) : r.threw}
    BY <2>1, OutcomesPlausible
  <2>2. CASE \E r \in {q \in ResetOutcomes(before) : ~ q.threw} :
               \E s \in StepOutcomes(r.inst) : o = [s EXCEPT !.wrote = TRUE]
    <3>1. PICK r \in ResetOutcomes(before) :
            \E s \in StepOutcomes(r.inst) : o = [s EXCEPT !.wrote = TRUE]
      BY <2>2
    <3>2. r.inst \in InstanceStates
      BY OutcomesPlausible DEF Plausible, Outcome
    <3>3. PICK s \in StepOutcomes(r.inst) : o = [s EXCEPT !.wrote = TRUE]
      BY <3>1
    <3>4. Plausible(s)
      BY <3>2, OutcomesPlausible
    <3> QED BY <3>3, <3>4 DEF Plausible, Outcome
  <2> QED BY <1>2, <2>1, <2>2 DEF RequestedStepOutcomes
<1> QED BY <1>1, <1>2

\* Without a reset, nothing brings a failed controller back to life.
LEMMA FailedStaysFailed ==
  /\ \A o \in InitializeOutcomes("failed") : o.inst = "failed"
  /\ \A o \in StepOutcomes("failed") : o.inst = "failed"
BY DEF InitializeOutcomes, StepOutcomes, Throws, Returns

\* An initialization leaves WORKER_FAILED exactly where it threw.
LEMMA InitializeStatus ==
  ASSUME NEW before, NEW o \in InitializeOutcomes(before)
  PROVE  o.threw <=> o.status = "WORKER_FAILED"
BY DEF InitializeOutcomes, Throws, Returns
=============================================================================
