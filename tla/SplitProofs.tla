----------------------------- MODULE SplitProofs -----------------------------
(***************************************************************************)
(* Splits in order: the walk over the splits of one partition, and the     *)
(* iterator over those of all partitions.                                  *)
(*                                                                         *)
(* The walk, for every row count that fits an int and every number of rows *)
(* per split: the invariant is Contiguous itself with the position of the  *)
(* walk.  After k splits the first k * rps rows, or all of them, have been *)
(* read.                                                                   *)
(*                                                                         *)
(* The iterator enumerates all splits but one and stays consumed: while it *)
(* runs it has returned all splits of the partitions behind the index and, *)
(* of the partition under it, those before the split number; nextElem has  *)
(* no memory of the end but the partition index it leaves behind, which is *)
(* past the last partition.                                                *)
(***************************************************************************)
EXTENDS SplitWalk, SdfIterator, SequenceTheorems, WellFoundedInduction, TLAPS

-----------------------------------------------------------------------------
(* The walk: integer arithmetic of the geometry.                            *)

LEMMA Division ==
  ASSUME NEW a \in Nat, NEW d \in Nat \ {0}
  PROVE  /\ a \div d \in Nat
         /\ d * (a \div d) =< a
         /\ a < d * (a \div d) + d
         /\ d * (a \div d) \in Nat
OBVIOUS

\* A count that fits is not changed by the conversion.
LEMMA ToIntFits ==
  ASSUME NEW x \in Int, -IntMax =< x, x =< IntMax
  PROVE  ToInt(x) = x
  <1>1. IntMax \in Nat \ {0}
    BY IntMaxAssumption
  <1>2. x + IntMax + 1 \in 0..(2 * (IntMax + 1) - 1)
    BY <1>1
  <1>3. \A m \in Nat, y \in Nat : y < m => y % m = y
    OBVIOUS
  <1>4. (x + IntMax + 1) % (2 * (IntMax + 1)) = x + IntMax + 1
    BY <1>1, <1>2, <1>3
  <1>5. QED
    BY <1>1, <1>4 DEF ToInt

\* Split numbers on either side of a row count.
LEMMA Multiples ==
  ASSUME NEW d \in Nat \ {0}, NEW s \in Nat, NEW t \in Nat
  PROVE  /\ s < t => d * s + d =< d * t
         /\ s =< t => d * s =< d * t
         /\ d * (s + 1) = d * s + d
         /\ d * s \in Nat
         /\ s * d = d * s
OBVIOUS

LEMMA ToIntIsInt ==
  ASSUME NEW x \in Int
  PROVE  ToInt(x) \in Int
BY IntMaxAssumption DEF ToInt

LEMMA QuotIsInt ==
  ASSUME NEW a \in Int, NEW d \in Nat \ {0}
  PROVE  Quot(a, d) \in Int /\ d * Quot(a, d) \in Int /\ Rem(a, d) \in Int
  <1>1. Quot(a, d) \in Int
    <2>1. CASE a >= 0
      BY <2>1, Division DEF Quot
    <2>2. CASE ~(a >= 0)
      <3>1. -a \in Nat
        BY <2>2
      <3>2. (-a) \div d \in Nat
        BY <3>1, Division
      <3>3. QED
        BY <2>2, <3>2 DEF Quot
    <2>3. QED
      BY <2>1, <2>2
  <1>2. \A x \in Int : d * x \in Int
    OBVIOUS
  <1>3. QED
    BY <1>1, <1>2 DEF Rem

-----------------------------------------------------------------------------
(* rowsInSplit gives the rows of the file, for every split of a partition   *)
(* that fits, also for splits beyond its end.                               *)

LEMMA RowsInSplitIsFile ==
  ASSUME NEW m \in Nat, m =< IntMax, NEW d \in Nat \ {0}, NEW s \in Nat
  PROVE  RowsInSplit(m, d, s) = FileRows(m, d, s)
  <1> DEFINE q == m \div d
  <1>1. /\ q \in Nat /\ d * q =< m /\ m < d * q + d /\ d * q \in Nat
    BY Division
  <1>2. ToInt(m) = m
    BY ToIntFits, IntMaxAssumption
  <1>3. Quot(m, d) = q /\ Rem(m, d) = m - d * q
    BY DEF Quot, Rem
  <1>4. RowsInSplit(m, d, s) = IF s > q THEN 0 ELSE IF s = q THEN m - d * q ELSE d
    BY <1>2, <1>3 DEF RowsInSplit
  <1> HIDE DEF q
  <1>5. s * d = d * s /\ (s + 1) * d = d * s + d /\ d * s \in Nat
    BY Multiples
  <1>6. FileRows(m, d, s) = IF m =< d * s THEN 0
                            ELSE IF m >= d * s + d THEN d ELSE m - d * s
    BY <1>5 DEF FileRows
  <1>7. CASE s > q
    <2>1. d * q + d =< d * s
      BY <1>1, <1>7, Multiples
    <2>2. m =< d * s
      BY <1>1, <1>5, <2>1
    <2>3. QED
      BY <1>4, <1>6, <1>7, <2>2
  <1>8. CASE s = q
    BY <1>1, <1>4, <1>6, <1>8
  <1>9. CASE s < q
    <2>1. d * s + d =< d * q
      BY <1>1, <1>9, Multiples
    <2>2. m >= d * s + d /\ ~(m =< d * s)
      BY <1>1, <1>5, <2>1
    <2>3. QED
      BY <1>1, <1>4, <1>6, <1>9, <2>2
  <1>10. QED
    BY <1>1, <1>7, <1>8, <1>9

\* partitions_list gives enough splits, and the last of them is not empty.
LEMMA SplitsCover ==
  ASSUME NEW m \in Nat \ {0}, m =< IntMax, NEW d \in Nat \ {0}
  PROVE  /\ PartitionInfo(m, d).splits \in Nat \ {0}
         /\ m =< d * PartitionInfo(m, d).splits
         /\ d * (PartitionInfo(m, d).splits - 1) < m
         /\ PartitionInfo(m, d).splits =< m
  <1> DEFINE q == (m - 1) \div d
  <1>1. m - 1 \in Nat
    OBVIOUS
  <1>2. /\ q \in Nat /\ d * q =< m - 1 /\ m - 1 < d * q + d /\ d * q \in Nat
    BY <1>1, Division
  <1>3. ToInt(m) = m /\ ToInt(m - 1) = m - 1
    BY <1>1, ToIntFits, IntMaxAssumption
  <1>4. PartitionInfo(m, d).splits = q + 1
    BY <1>1, <1>3 DEF PartitionInfo, PartitionRows, Quot
  <1> HIDE DEF q
  <1>5. d * (q + 1) = d * q + d
    BY <1>2, Multiples
  <1>6. q =< d * q
    BY <1>2
  <1>7. QED
    BY <1>2, <1>4, <1>5, <1>6

-----------------------------------------------------------------------------
(* The walk: the inductive invariant.                                       *)

Progress ==
  Fits =>
    /\ total = 0 => read = 0
    /\ pc = "list" => k = 0 /\ read = 0
    /\ pc \in {"read", "done", "error"} => splits = PartitionInfo(total, rps).splits
    /\ pc = "done" => k >= Len(Colon(1, splits))
    /\ total > 0 /\ pc # "list" => k =< splits
    /\ total > 0 => last.split = k

WalkIInv == WalkTypeOK /\ Progress /\ SplitIsItsFile /\ Contiguous

\* The split a Read step reads.
LEMMA ReadFits ==
  ASSUME WalkTypeOK, Fits, NEW s \in Int
  PROVE  Mapped(s) = IF s >= 1 THEN FileRows(total, rps, s - 1) ELSE 0
  <1>1. CASE s >= 1
    <2>1. s - 1 \in Nat
      BY <1>1
    <2>2. total \in Nat /\ rps \in Nat \ {0} /\ total =< IntMax
      BY DEF WalkTypeOK, Fits
    <2>3. RowsInSplit(total, rps, s - 1) = FileRows(total, rps, s - 1)
      BY <2>1, <2>2, RowsInSplitIsFile
    <2>4. FileRows(total, rps, s - 1) \in Nat
      <3>1. (s - 1) * rps \in Nat /\ s * rps = (s - 1) * rps + rps
        BY <2>1, <2>2, Multiples
      <3>2. (s - 1) + 1 = s
        BY <2>1
      <3>3. QED
        BY <2>2, <3>1, <3>2 DEF FileRows
    <2>5. QED
      BY <1>1, <2>1, <2>3, <2>4, WalkAssumption DEF Mapped
  <1>2. CASE ~(s >= 1)
    BY <1>2 DEF Mapped
  <1>3. QED
    BY <1>1, <1>2

LEMMA MappedIsInt ==
  ASSUME WalkTypeOK, NEW s \in Int
  PROVE  Mapped(s) \in Int
  <1>1. total \in Int /\ rps \in Nat \ {0}
    BY DEF WalkTypeOK
  <1>2. ToInt(total) \in Int /\ Rem(ToInt(total), rps) \in Int
    BY <1>1, ToIntIsInt, QuotIsInt
  <1>3. RowsInSplit(total, rps, s - 1) \in Int
    BY <1>1, <1>2 DEF RowsInSplit
  <1>4. QED
    BY <1>3 DEF Mapped

LEMMA ColonFacts ==
  ASSUME NEW b \in Int
  PROVE  /\ Len(Colon(1, b)) \in Nat
         /\ \A j \in 1..Len(Colon(1, b)) : Colon(1, b)[j] \in Int
         /\ b >= 1 => /\ Len(Colon(1, b)) = b
                      /\ \A j \in 1..b : Colon(1, b)[j] = j
  <1>1. CASE b >= 1
    <2>1. Colon(1, b) = [j \in 1..b |-> j]
      <3>1. Colon(1, b) = [j \in 1..(b - 1 + 1) |-> 1 + j - 1]
        BY <1>1 DEF Colon
      <3>2. QED
        BY <3>1
    <2>2. Len(Colon(1, b)) = b
      BY <1>1, <2>1
    <2>3. QED
      BY <1>1, <2>1, <2>2
  <1>2. CASE ~(b >= 1)
    <2>1. Colon(1, b) = [j \in 1..(1 - b + 1) |-> 1 - j + 1] /\ 1 - b + 1 \in Nat
      BY <1>2 DEF Colon
    <2>2. Len(Colon(1, b)) = 1 - b + 1
      BY <2>1
    <2>3. QED
      BY <1>2, <2>1, <2>2
  <1>3. QED
    BY <1>1, <1>2

LEMMA WalkInitInv == WalkInit => WalkIInv
  <1> SUFFICES ASSUME WalkInit PROVE WalkIInv
    OBVIOUS
  <1>1. total \in Nat /\ rps \in Nat \ {0}
    BY WalkAssumption DEF WalkInit
  <1>2. WalkTypeOK
    BY <1>1 DEF WalkInit, WalkTypeOK, None
  <1>3. Progress /\ SplitIsItsFile
    BY DEF WalkInit, Progress, SplitIsItsFile, None
  <1>4. Contiguous
    BY <1>1 DEF WalkInit, Contiguous
  <1>5. QED
    BY <1>2, <1>3, <1>4 DEF WalkIInv

LEMMA ListInv ==
  ASSUME WalkIInv, List
  PROVE  WalkIInv'
  <1>1. PartitionInfo(total, rps).splits \in Int
    <2>1. total \in Int /\ rps \in Nat \ {0}
      BY DEF WalkIInv, WalkTypeOK
    <2>2. ToInt(PartitionRows(total) - 1) \in Int
      BY <2>1, ToIntIsInt DEF PartitionRows
    <2>3. QED
      BY <2>1, <2>2, QuotIsInt DEF PartitionInfo
  <1>2. WalkTypeOK'
    BY <1>1 DEF List, WalkIInv, WalkTypeOK
  <1>3. Progress'
    <2>1. ASSUME Fits, total > 0 PROVE 0 =< splits'
      <3>1. total \in Nat \ {0} /\ rps \in Nat \ {0} /\ total =< IntMax
        BY <2>1 DEF WalkIInv, WalkTypeOK, Fits
      <3>2. PartitionInfo(total, rps).splits \in Nat
        BY <3>1, SplitsCover
      <3> QED BY <3>2 DEF List
    <2> QED BY <2>1 DEF List, WalkIInv, Progress, Fits
  <1>4. SplitIsItsFile' /\ Contiguous'
    BY DEF List, WalkIInv, SplitIsItsFile, Contiguous, Fits
  <1>5. QED
    BY <1>2, <1>3, <1>4 DEF WalkIInv

LEMMA ReadInv ==
  ASSUME WalkIInv, Read
  PROVE  WalkIInv'
  <1> DEFINE s == Colon(1, splits)[k + 1]
  <1>1. /\ pc = "read" /\ k < Len(Colon(1, splits)) /\ Mapped(s) >= 0
        /\ last' = [split |-> s, rows |-> Mapped(s)]
        /\ read' = read + Mapped(s) /\ k' = k + 1
        /\ UNCHANGED <<total, rps, pc, splits>>
    BY DEF Read, CanHold
  <1>2. s \in Int
    BY <1>1, ColonFacts DEF WalkIInv, WalkTypeOK
  <1> HIDE DEF s
  <1>3. Mapped(s) \in Nat
    BY <1>1, <1>2, MappedIsInt DEF WalkIInv
  <1>4. WalkTypeOK'
    BY <1>1, <1>2, <1>3 DEF WalkIInv, WalkTypeOK
  <1>5. SplitIsItsFile'
    BY <1>1, <1>2, ReadFits DEF WalkIInv, SplitIsItsFile, Fits
  <1>6. ASSUME Fits, total = 0 PROVE Mapped(s) = 0
    <2>1. CASE s >= 1
      <3>1. s - 1 \in Nat /\ rps \in Nat \ {0} /\ (s - 1) * rps \in Nat
        BY <1>2, <2>1, Multiples DEF WalkIInv, WalkTypeOK
      <3>2. FileRows(0, rps, s - 1) = 0
        BY <3>1 DEF FileRows
      <3>3. QED
        BY <1>2, <1>6, <2>1, <3>2, ReadFits DEF WalkIInv
    <2>2. CASE ~(s >= 1)
      BY <1>2, <1>6, <2>2, ReadFits DEF WalkIInv
    <2>3. QED
      BY <2>1, <2>2
  <1>7. ASSUME Fits, total > 0
        PROVE  splits \in Nat \ {0} /\ s = k + 1 /\ k \in Nat /\ k + 1 =< splits
    <2>1. splits \in Nat \ {0}
      BY <1>1, <1>7, SplitsCover DEF WalkIInv, WalkTypeOK, Progress, Fits
    <2>2. /\ Len(Colon(1, splits)) = splits
          /\ \A j \in 1..splits : Colon(1, splits)[j] = j
      BY <2>1, ColonFacts
    <2>3. k \in Nat /\ k + 1 \in 1..splits
      BY <1>1, <2>1, <2>2 DEF WalkIInv, WalkTypeOK
    <2> QED BY <2>1, <2>2, <2>3 DEF s
  <1>10. Progress'
    BY <1>1, <1>6, <1>7 DEF WalkIInv, Progress, Fits
  <1>8. Contiguous'
    <2> SUFFICES ASSUME Fits, total > 0
                 PROVE  read + Mapped(s) = IF (k + 1) * rps =< total THEN (k + 1) * rps ELSE total
      BY <1>1 DEF Contiguous, Fits
    <2>2. s = k + 1 /\ k \in Nat
      BY <1>7
    <2>3. Mapped(s) = FileRows(total, rps, k)
      BY <1>2, <2>2, ReadFits DEF WalkIInv
    <2>4. total \in Nat /\ rps \in Nat \ {0} /\ k * rps \in Nat /\ (k + 1) * rps = k * rps + rps
      BY <2>2, Multiples DEF WalkIInv, WalkTypeOK
    <2>5. read = IF k * rps =< total THEN k * rps ELSE total
      BY DEF WalkIInv, Contiguous
    <2>6. QED
      BY <2>3, <2>4, <2>5 DEF FileRows
  <1>9. QED
    BY <1>4, <1>5, <1>8, <1>10 DEF WalkIInv

LEMMA WalkNextInv == WalkIInv /\ [WalkNext]_walkVars => WalkIInv'
  <1> SUFFICES ASSUME WalkIInv, [WalkNext]_walkVars PROVE WalkIInv'
    OBVIOUS
  <1>1. CASE List
    BY <1>1, ListInv
  <1>2. CASE Read
    BY <1>2, ReadInv
  <1>3. CASE ReadError
    BY <1>3 DEF ReadError, WalkIInv, WalkTypeOK, Progress, SplitIsItsFile, Contiguous, Fits
  <1>4. CASE Finish
    BY <1>4 DEF Finish, WalkIInv, WalkTypeOK, Progress, SplitIsItsFile, Contiguous, Fits
  <1>5. CASE UNCHANGED walkVars
    BY <1>5 DEF walkVars, WalkIInv, WalkTypeOK, Progress, SplitIsItsFile, Contiguous, Fits
  <1>6. QED
    BY <1>1, <1>2, <1>3, <1>4, <1>5 DEF WalkNext

LEMMA WalkInvariance == WalkSpec => []WalkIInv
  BY WalkInitInv, WalkNextInv, PTL DEF WalkSpec

-----------------------------------------------------------------------------
(* The walk: the properties.                                                *)

\* The variables of a walk keep their types, also for row counts that do not
\* fit an int.
THEOREM WalkTypeCorrect == WalkSpec => []WalkTypeOK
  BY WalkInvariance, PTL DEF WalkIInv

\* Every split of a partition that fits is mapped over exactly the rows of
\* its file.
THEOREM SplitsAreTheirFiles == WalkSpec => []SplitIsItsFile
  BY WalkInvariance, PTL DEF WalkIInv

\* After k splits the first k * rps rows, or all of them, have been read.
THEOREM WalkIsContiguous == WalkSpec => []Contiguous
  BY WalkInvariance, PTL DEF WalkIInv

\* A finished walk has read the whole partition, once.
THEOREM WalkReadsPartition == WalkSpec => []WholePartition
  <1>1. WalkIInv => WholePartition
    <2>0. SUFFICES ASSUME WalkIInv, pc = "done", Fits PROVE read = total
      BY DEF WholePartition
    <2>1. CASE total = 0
      BY <2>0, <2>1 DEF WalkIInv, Progress
    <2>2. CASE total # 0
      <3>1. /\ total \in Nat \ {0} /\ total =< IntMax /\ rps \in Nat \ {0} /\ k \in Nat
            /\ splits = PartitionInfo(total, rps).splits
        BY <2>0, <2>2 DEF WalkIInv, WalkTypeOK, Progress, Fits
      <3>2. splits \in Nat \ {0} /\ total =< rps * splits
        BY <3>1, SplitsCover
      <3>3. k >= splits
        <4>1. Len(Colon(1, splits)) = splits
          BY <3>2, ColonFacts
        <4>2. QED
          BY <2>0, <4>1 DEF WalkIInv, Progress
      <3>4. rps * splits =< rps * k /\ k * rps = rps * k /\ rps * k \in Nat /\ rps * splits \in Nat
        BY <3>1, <3>2, <3>3, Multiples
      <3>5. total =< k * rps
        BY <3>1, <3>2, <3>4
      <3>6. read = IF k * rps =< total THEN k * rps ELSE total
        BY <2>0, <3>1 DEF WalkIInv, Contiguous
      <3>7. QED
        BY <3>1, <3>4, <3>5, <3>6
    <2>3. QED
      BY <2>1, <2>2
  <1>2. QED
    BY <1>1, WalkInvariance, PTL

\* Where the last split of a partition begins, and what is in it.
LEMMA LastSplit ==
  ASSUME NEW m \in Nat \ {0}, m =< IntMax, NEW d \in Nat \ {0},
         NEW t, t = PartitionInfo(m, d).splits
  PROVE  /\ PartitionSplits(m, d) = t
         /\ PartitionInfo(m, d).remainder = FileRows(m, d, t - 1) % d
  <1> DEFINE q == (m - 1) \div d
             r == m - d * q
  <1>1. m - 1 \in Nat
    OBVIOUS
  <1>2. q \in Nat /\ d * q =< m - 1 /\ m - 1 < d * q + d /\ d * q \in Nat
    BY <1>1, Division
  <1>3. ToInt(m) = m /\ ToInt(m - 1) = m - 1
    BY <1>1, ToIntFits, IntMaxAssumption
  <1>4. t = q + 1 /\ t =< m
    <2>1. t = q + 1
      BY <1>1, <1>3 DEF PartitionInfo, PartitionRows, Quot
    <2> QED BY <2>1, SplitsCover
  <1>5. PartitionSplits(m, d) = t
    <2>1. Quot(m - 1, d) + 1 = t
      BY <1>1, <1>4 DEF Quot
    <2>2. t \in Int /\ -IntMax =< t /\ t =< IntMax
      BY <1>2, <1>4, IntMaxAssumption
    <2> QED BY <2>1, <2>2, ToIntFits DEF PartitionSplits
  <1>6. FileRows(m, d, t - 1) = r /\ r \in 1..d
    <2> HIDE DEF q
    <2>1. t - 1 = q /\ q * d = d * q /\ (q + 1) * d = d * q + d
      BY <1>2, <1>4, Multiples
    <2> QED BY <1>2, <2>1 DEF FileRows
  <1>7. PartitionInfo(m, d).remainder = m - d * (m \div d)
    BY <1>3 DEF PartitionInfo, PartitionRows, Rem, Quot
  <1>8. m = d * q + r /\ m \div d \in Nat /\ d * (m \div d) =< m /\ m < d * (m \div d) + d
    <2>1. m \div d \in Nat /\ d * (m \div d) =< m /\ m < d * (m \div d) + d
      BY Division
    <2> QED BY <1>2, <2>1
  <1>9. CASE r = d
    <2>1. m = d * (q + 1)
      <3> HIDE DEF q
      <3> QED BY <1>2, <1>9, Multiples
    <2>2. m \div d = q + 1
      <3> DEFINE u == m \div d
      <3>1. u \in Nat /\ d * u =< m /\ m < d * u + d
        BY <1>8
      <3> HIDE DEF q, u
      <3>2. ~(u < q + 1)
        BY <1>2, <2>1, <3>1, Multiples
      <3>3. ~(q + 1 < u)
        BY <1>2, <2>1, <3>1, Multiples
      <3> QED BY <1>2, <3>1, <3>2, <3>3 DEF u
    <2>3. d % d = 0
      OBVIOUS
    <2>4. PartitionInfo(m, d).remainder = 0
      BY <1>7, <2>1, <2>2
    <2>5. FileRows(m, d, t - 1) % d = 0
      BY <1>6, <1>9, <2>3
    <2> QED BY <1>5, <2>4, <2>5
  <1>10. CASE r # d
    <2>1. r \in Nat /\ r < d
      BY <1>6, <1>10
    <2>2. m \div d = q
      <3> DEFINE u == m \div d
      <3>1. u \in Nat /\ d * u =< m /\ m < d * u + d /\ m < d * q + d
        BY <1>8, <2>1
      <3>0. d * q =< m
        BY <1>2
      <3> HIDE DEF q, u, r
      <3>2. ~(u < q)
        BY <1>2, <3>0, <3>1, Multiples
      <3>3. ~(q < u)
        BY <1>2, <3>1, Multiples
      <3> QED BY <1>2, <3>1, <3>2, <3>3 DEF u
    <2>3. r % d = r
      BY <2>1
    <2>4. PartitionInfo(m, d).remainder = r
      BY <1>7, <2>2
    <2>5. FileRows(m, d, t - 1) % d = r
      BY <1>6, <2>3
    <2> QED BY <1>5, <2>4, <2>5
  <1> QED BY <1>9, <1>10

\* partition_splits and partitions_list count the same splits, the walk ends
\* with the last of them, and the remainder column is what is in it (0 when it
\* is full), for every partition whose row count is an int and every split
\* size (partitionSplits and partitions_list, SDataframe).
THEOREM InfoIsConsistent == WalkSpec => []InfoConsistent
  <1>1. WalkIInv => InfoConsistent
    <2> SUFFICES ASSUME WalkIInv, Fits, pc = "done", total > 0
                 PROVE  /\ PartitionSplits(total, rps) = splits
                        /\ last.split = splits
                        /\ PartitionInfo(total, rps).remainder = last.rows % rps
      BY DEF InfoConsistent
    <2>1. /\ total \in Nat \ {0} /\ total =< IntMax /\ rps \in Nat \ {0} /\ k \in Nat
          /\ splits = PartitionInfo(total, rps).splits
          /\ k >= Len(Colon(1, splits)) /\ k =< splits /\ last.split = k
      BY DEF WalkIInv, WalkTypeOK, Progress, Fits
    <2>2. splits \in Nat \ {0}
      BY <2>1, SplitsCover
    <2>3. k = splits
      <3>1. Len(Colon(1, splits)) = splits
        BY <2>2, ColonFacts
      <3> QED BY <2>1, <2>2, <3>1
    <2>4. last # None
      BY <2>1, <2>2, <2>3 DEF None
    <2>5. last.rows = FileRows(total, rps, splits - 1)
      BY <2>1, <2>2, <2>3, <2>4 DEF WalkIInv, SplitIsItsFile
    <2> QED BY <2>1, <2>3, <2>5, LastSplit
  <1> QED BY <1>1, WalkInvariance, PTL

-----------------------------------------------------------------------------
(* The iterator: sequences.                                                 *)

\* Induction over the natural numbers, for a set of them.
LEMMA NatSetInduction ==
  ASSUME NEW S, 0 \in S, \A n \in Nat : n \in S => n + 1 \in S
  PROVE  Nat \subseteq S
  <1> SUFFICES ASSUME ~(Nat \subseteq S) PROVE FALSE
    OBVIOUS
  <1> DEFINE R == OpToRel(<, Nat)
             T == Nat \ S
  <1>1. PICK m \in T : \A j \in T : ~ (<<j, m>> \in R)
    <2>1. T \subseteq Nat /\ T # {}
      OBVIOUS
    <2> HIDE DEF R, T
    <2> QED BY <2>1, WFMin, NatLessThanWellFounded DEF R
  <1>2. m \in Nat \ {0} /\ m - 1 \in Nat /\ (m - 1) + 1 = m
    OBVIOUS
  <1>3. \A j \in T : ~ (j < m)
    BY <1>1 DEF OpToRel
  <1> QED BY <1>2, <1>3

\* FlattenSeq puts one sequence after the other.
LEMMA Flattened ==
  ASSUME NEW S, NEW seqs \in Seq(Seq(S))
  PROVE  \E f \in [0..Len(seqs) -> Seq(S)] :
           /\ f[0] = <<>>
           /\ \A i \in 1..Len(seqs) : f[i] = f[i - 1] \o seqs[i]
           /\ FlattenSeq(seqs) = f[Len(seqs)]
  <1> DEFINE Flat(f, n) == f = [i \in 1..n |-> IF i = 1 THEN seqs[i] ELSE f[i - 1] \o seqs[i]]
             len  == Len(seqs)
             flat == CHOOSE f : Flat(f, len)
             g    == [i \in 0..len |-> IF i = 0 THEN <<>> ELSE flat[i]]
  <1>1. len \in Nat /\ \A i \in 1..len : seqs[i] \in Seq(S)
    BY LenProperties, ElementOfSeq
  <1>2. Flat(flat, len)
    <2> DEFINE T == {n \in Nat : \E f : Flat(f, n)}
    <2>1. 0 \in T
      <3>1. Flat(<<>>, 0)
        OBVIOUS
      <3> QED BY <3>1
    <2>2. ASSUME NEW n \in Nat, n \in T PROVE n + 1 \in T
      <3>1. PICK f : Flat(f, n)
        BY <2>2
      <3> DEFINE h == [i \in 1..n + 1 |->
                         IF i = 1 THEN seqs[i] ELSE f[i - 1] \o seqs[i]]
      <3>0. \A i \in 1..n : f[i] = IF i = 1 THEN seqs[i] ELSE f[i - 1] \o seqs[i]
        BY <3>1
      <3>2. \A i \in 1..n : h[i] = f[i]
        BY <3>0
      <3>3. Flat(h, n + 1)
        <4>1. \A i \in 1..n + 1 : i # 1 => i - 1 \in 1..n
          OBVIOUS
        <4>2. \A i \in 1..n + 1 : (IF i = 1 THEN seqs[i] ELSE f[i - 1] \o seqs[i])
                                  = (IF i = 1 THEN seqs[i] ELSE h[i - 1] \o seqs[i])
          <5> HIDE DEF h
          <5> QED BY <3>2, <4>1
        <4> QED BY <4>2
      <3> HIDE DEF h, Flat
      <3> QED BY <3>3
    <2> HIDE DEF T
    <2>3. Nat \subseteq T
      BY <2>1, <2>2, NatSetInduction
    <2>4. \E f : Flat(f, len)
      BY <1>1, <2>3 DEF T
    <2> QED BY <2>4
  <1> HIDE DEF flat
  <1>3. \A i \in 1..len : flat[i] = IF i = 1 THEN seqs[i] ELSE flat[i - 1] \o seqs[i]
    BY <1>2
  <1>4. \A i \in 1..len : g[i] = g[i - 1] \o seqs[i]
    <2> SUFFICES ASSUME NEW i \in 1..len PROVE g[i] = g[i - 1] \o seqs[i]
      OBVIOUS
    <2>0. i - 1 \in 0..len /\ i \in 0..len /\ (i - 1 = 0 <=> i = 1) /\ i # 0
      BY <1>1
    <2>1. CASE i = 1
      <3>1. <<>> \o seqs[1] = seqs[1]
        BY <1>1, <2>1, ConcatEmptySeq
      <3>2. g[1] = flat[1] /\ g[0] = <<>> /\ flat[1] = seqs[1]
        BY <1>1, <1>3, <2>0, <2>1
      <3> QED BY <2>1, <3>1, <3>2
    <2>2. CASE i # 1
      <3>1. g[i] = flat[i] /\ g[i - 1] = flat[i - 1]
        BY <2>0, <2>2
      <3> QED BY <1>3, <2>2, <3>1
    <2> QED BY <2>1, <2>2
  <1>5. g \in [0..len -> Seq(S)]
    <2> DEFINE T == {n \in Nat : n =< len => g[n] \in Seq(S)}
    <2>1. 0 \in T
      BY <1>1
    <2>2. ASSUME NEW n \in Nat, n \in T PROVE n + 1 \in T
      <3> SUFFICES ASSUME n + 1 =< len PROVE g[n + 1] \in Seq(S)
        OBVIOUS
      <3>1. n + 1 \in 1..len /\ (n + 1) - 1 = n /\ g[n] \in Seq(S)
        BY <1>1, <2>2
      <3>2. g[n + 1] = g[n] \o seqs[n + 1]
        BY <1>4, <3>1
      <3> HIDE DEF g
      <3> QED BY <1>1, <3>1, <3>2, ConcatProperties
    <2>3. Nat \subseteq T
      <3> HIDE DEF T
      <3> QED BY <2>1, <2>2, NatSetInduction
    <2>4. \A n \in 0..len : g[n] \in Seq(S)
      <3> HIDE DEF g
      <3> QED BY <1>1, <2>3
    <2>5. g = [n \in 0..len |-> g[n]]
      OBVIOUS
    <2> HIDE DEF g
    <2> QED BY <2>4, <2>5
  <1>6. FlattenSeq(seqs) = g[len]
    <2>1. CASE len = 0
      <3>1. seqs = <<>>
        BY <2>1, EmptySeq
      <3> QED BY <2>1, <3>1 DEF FlattenSeq
    <2>2. CASE len # 0
      <3>1. FlattenSeq(seqs) = flat[len]
        BY <2>2 DEF FlattenSeq, flat
      <3> QED BY <1>1, <2>2, <3>1
    <2> QED BY <2>1, <2>2
  <1> HIDE DEF g
  <1>7. g[0] = <<>>
    BY <1>1 DEF g
  <1> QED BY <1>4, <1>5, <1>6, <1>7

\* What is put in front of a sequence is a prefix of the whole.
LEMMA PrefixOfConcat ==
  ASSUME NEW S, NEW s \in Seq(S), NEW u \in Seq(S)
  PROVE  IsPrefix(s, s \o u)
  <1>1. /\ s \o u \in Seq(S) /\ Len(s \o u) = Len(s) + Len(u)
        /\ Len(s) \in Nat /\ Len(u) \in Nat
    BY ConcatProperties, LenProperties
  <1>2. SubSeq(s, 1, Len(s)) = SubSeq(s \o u, 1, Len(s))
    <2>1. CASE Len(s) = 0
      BY <2>1, SubSeqEmpty
    <2>2. CASE Len(s) # 0
      BY <1>1, <2>2, SubSeqOfConcat1
    <2> QED BY <2>1, <2>2
  <1> QED BY <1>1, <1>2 DEF IsPrefix

\* Front takes off the element that was put last.
LEMMA FrontOfConcat ==
  ASSUME NEW S, NEW s \in Seq(S), NEW e \in S
  PROVE  Front(s \o <<e>>) = s
  <1>1. <<e>> \in Seq(S) /\ Len(<<e>>) = 1
    OBVIOUS
  <1>2. Len(s \o <<e>>) - 1 = Len(s) /\ Len(s) \in Nat
    BY <1>1, ConcatProperties, LenProperties
  <1>3. IsPrefix(s, s \o <<e>>)
    BY <1>1, PrefixOfConcat
  <1>4. SubSeq(s, 1, Len(s)) = s
    BY SubSeqFull
  <1> QED BY <1>2, <1>3, <1>4 DEF Front, IsPrefix

-----------------------------------------------------------------------------
(* The iterator: the enumeration of the splits.                             *)

Pairs == Nat \X Nat

\* The first m splits of partition p.
Some(p, m) == [s \in 1..m |-> <<p, s>>]

\* f[p] are the splits of the first p partitions.
Chain(f) ==
  /\ f \in [0..Len(parts) -> Seq(Pairs)]
  /\ f[0] = <<>>
  /\ \A p \in 1..Len(parts) : f[p] = f[p - 1] \o Some(p, Splits(p))
  /\ AllSplits = f[Len(parts)]

UpTo == CHOOSE f : Chain(f)

\* A number of splits is a number.
LEMMA SplitsAreNat ==
  ASSUME parts \in Seq(Nat), NonEmpty, NEW p \in 1..Len(parts)
  PROVE  Splits(p) \in Nat \ {0}
  <1>1. DOMAIN parts = 1..Len(parts) /\ parts[p] \in Nat
    BY LenProperties, ElementOfSeq
  <1>2. Quot(parts[p] - 1, Rps) \in Int
    <2> DEFINE a == parts[p] - 1
    <2>1. a \in Int /\ -a \in Int
      BY <1>1
    <2> HIDE DEF a
    <2>2. \A x \in Int : x \div Rps \in Int
      BY IteratorAssumption
    <2>3. Quot(a, Rps) \in Int
      BY <2>1, <2>2 DEF Quot
    <2> QED BY <2>3 DEF a
  <1>3. \A x \in Int : ToInt(x) \in Int
    BY IntMaxAssumption DEF ToInt
  <1>4. Splits(p) \in Int
    BY <1>2, <1>3 DEF Splits, PartitionSplits
  <1> QED BY <1>1, <1>4 DEF NonEmpty

\* Splits of one partition, one after the other.
LEMMA SomeIsSeq ==
  ASSUME NEW p \in Nat, NEW m \in Nat
  PROVE  /\ Some(p, m) \in Seq(Pairs)
         /\ Some(p, m + 1) = Some(p, m) \o << <<p, m + 1>> >>
         /\ Some(p, 0) = <<>>
  <1>1. ASSUME NEW n \in Nat PROVE Some(p, n) \in Seq(Pairs) /\ Len(Some(p, n)) = n
    BY DEF Some, Pairs
  <1>2. << <<p, m + 1>> >> \in Seq(Pairs) /\ Len(<< <<p, m + 1>> >>) = 1
    BY DEF Pairs
  <1>3. Some(p, m + 1) = Some(p, m) \o << <<p, m + 1>> >>
    <2> DEFINE c == Some(p, m) \o << <<p, m + 1>> >>
    <2>1. /\ c \in Seq(Pairs) /\ Len(c) = m + 1
          /\ \A i \in 1..m + 1 : c[i] = IF i =< m THEN Some(p, m)[i] ELSE << <<p, m + 1>> >>[i - m]
      BY <1>1, <1>2, ConcatProperties
    <2>2. \A i \in 1..m + 1 : c[i] = Some(p, m + 1)[i]
      <3> HIDE DEF c
      <3> QED BY <2>1 DEF Some
    <2>3. Some(p, m + 1) \in Seq(Pairs) /\ Len(Some(p, m + 1)) = m + 1
      BY <1>1
    <2> HIDE DEF c
    <2> QED BY <2>1, <2>2, <2>3, SeqEqual DEF c
  <1>4. Some(p, 0) = <<>>
    BY <1>1, EmptySeq
  <1> QED BY <1>1, <1>3, <1>4

\* The first splits of a partition are followed by the others.
LEMMA SomeIsPrefix ==
  ASSUME NEW p \in Nat, NEW n \in Nat, NEW m \in 0..n
  PROVE  \E r \in Seq(Pairs) : Some(p, n) = Some(p, m) \o r
  <1> DEFINE r == [s \in 1..n - m |-> <<p, m + s>>]
             c == Some(p, m) \o r
  <1>1. r \in Seq(Pairs) /\ Len(r) = n - m
    BY DEF Pairs
  <1>2. Some(p, n) \in Seq(Pairs) /\ Len(Some(p, n)) = n
    BY DEF Some, Pairs
  <1>3. Some(p, m) \in Seq(Pairs) /\ Len(Some(p, m)) = m
    BY DEF Some, Pairs
  <1>4. /\ c \in Seq(Pairs) /\ Len(c) = n
        /\ \A i \in 1..n : c[i] = IF i =< m THEN Some(p, m)[i] ELSE r[i - m]
    <2> DEFINE a == Some(p, m)
    <2> HIDE DEF r, a
    <2>1. /\ a \o r \in Seq(Pairs) /\ Len(a \o r) = Len(a) + Len(r)
          /\ \A i \in 1..Len(a) + Len(r) : (a \o r)[i] = IF i =< Len(a) THEN a[i] ELSE r[i - Len(a)]
      BY <1>1, <1>3, ConcatProperties DEF a
    <2>2. Len(a) = m /\ Len(a) + Len(r) = n
      BY <1>1, <1>3 DEF a
    <2> QED BY <2>1, <2>2 DEF a
  <1>5. \A i \in 1..n : c[i] = Some(p, n)[i]
    <2> HIDE DEF c
    <2> SUFFICES ASSUME NEW i \in 1..n PROVE c[i] = Some(p, n)[i]
      OBVIOUS
    <2>1. Some(p, n)[i] = <<p, i>>
      BY DEF Some
    <2>2. i =< m => Some(p, m)[i] = <<p, i>>
      BY DEF Some
    <2>3. ~(i =< m) => i - m \in 1..n - m /\ r[i - m] = <<p, i>>
      OBVIOUS
    <2> HIDE DEF r
    <2> QED BY <1>4, <2>1, <2>2, <2>3
  <1>6. Some(p, n) = c
    <2> HIDE DEF c
    <2> QED BY <1>2, <1>4, <1>5, SeqEqual
  <1> QED BY <1>1, <1>6

\* The enumeration is put together partition by partition.
LEMMA UpToIsChain ==
  ASSUME parts \in Seq(Nat), NonEmpty
  PROVE  Chain(UpTo)
  <1> DEFINE blocks == [p \in DOMAIN parts |-> [s \in 1..Splits(p) |-> <<p, s>>]]
  <1>1. DOMAIN parts = 1..Len(parts) /\ Len(parts) \in Nat
    BY LenProperties
  <1>2. \A p \in 1..Len(parts) : blocks[p] = Some(p, Splits(p)) /\ blocks[p] \in Seq(Pairs)
    <2> SUFFICES ASSUME NEW p \in 1..Len(parts)
                 PROVE  blocks[p] = Some(p, Splits(p)) /\ blocks[p] \in Seq(Pairs)
      OBVIOUS
    <2>1. Splits(p) \in Nat
      BY SplitsAreNat
    <2>2. blocks[p] = Some(p, Splits(p))
      BY <1>1 DEF Some
    <2>3. p \in Nat
      BY <1>1
    <2>4. Some(p, Splits(p)) \in Seq(Pairs)
      BY <2>1, <2>3, SomeIsSeq
    <2> HIDE DEF blocks
    <2> QED BY <2>2, <2>4
  <1>3. blocks \in Seq(Seq(Pairs)) /\ Len(blocks) = Len(parts)
    <2>1. blocks = [p \in 1..Len(parts) |-> blocks[p]]
      BY <1>1
    <2> HIDE DEF blocks
    <2> QED BY <1>1, <1>2, <2>1
  <1>4. AllSplits = FlattenSeq(blocks)
    BY DEF AllSplits
  <1> HIDE DEF blocks
  <1>5. \E f : Chain(f)
    <2>1. PICK f \in [0..Len(blocks) -> Seq(Pairs)] :
            /\ f[0] = <<>>
            /\ \A i \in 1..Len(blocks) : f[i] = f[i - 1] \o blocks[i]
            /\ FlattenSeq(blocks) = f[Len(blocks)]
      BY <1>3, Flattened
    <2>2. Chain(f)
      BY <1>2, <1>3, <1>4, <2>1 DEF Chain
    <2> QED BY <2>2
  <1> QED BY <1>5 DEF UpTo

\* Concatenation is associative.
LEMMA PairsAssociate ==
  \A a, b, c \in Seq(Pairs) : (a \o b) \o c = a \o (b \o c)
  <1> SUFFICES ASSUME NEW a \in Seq(Pairs), NEW b \in Seq(Pairs), NEW c \in Seq(Pairs)
               PROVE  (a \o b) \o c = a \o (b \o c)
    OBVIOUS
  <1> QED BY ConcatAssociative

\* What a few partitions have is the beginning of what all have.
LEMMA UpToIsPrefix ==
  ASSUME parts \in Seq(Nat), NonEmpty, Chain(UpTo), NEW p \in 0..Len(parts)
  PROVE  \E u \in Seq(Pairs) : AllSplits = UpTo[p] \o u
  <1> DEFINE len == Len(parts)
             Ahead(e) == \E u \in Seq(Pairs) : AllSplits = UpTo[len - e] \o u
             T == {e \in Nat : e =< len => Ahead(e)}
  <1>1. len \in Nat
    BY LenProperties
  <1>2. 0 \in T
    <2>1. AllSplits = UpTo[len] /\ UpTo[len] \in Seq(Pairs) /\ len - 0 = len
      BY <1>1 DEF Chain
    <2>2. UpTo[len] = UpTo[len] \o <<>> /\ <<>> \in Seq(Pairs)
      BY <2>1, ConcatEmptySeq
    <2> QED BY <2>1, <2>2
  <1>3. ASSUME NEW d \in Nat, d \in T PROVE d + 1 \in T
    <2> HIDE DEF Ahead
    <2> SUFFICES ASSUME d + 1 =< len PROVE Ahead(d + 1)
      OBVIOUS
    <2> USE DEF Ahead
    <2>1. PICK u \in Seq(Pairs) : AllSplits = UpTo[len - d] \o u
      <3>1. d =< len
        BY <1>1
      <3> QED BY <1>3, <3>1
    <2> DEFINE q == len - d
               b == Some(q, Splits(q))
    <2>2. q \in 1..len /\ q - 1 \in 0..len /\ len - (d + 1) = q - 1
      BY <1>1
    <2>3. UpTo[q] = UpTo[q - 1] \o b /\ UpTo[q - 1] \in Seq(Pairs)
      BY <2>2 DEF Chain
    <2>4. b \in Seq(Pairs)
      <3>1. q \in Nat /\ Splits(q) \in Nat
        BY <1>1, <2>2, SplitsAreNat
      <3> QED BY <3>1, SomeIsSeq
    <2> HIDE DEF b, q
    <2>5. AllSplits = UpTo[q - 1] \o (b \o u) /\ b \o u \in Seq(Pairs)
      <3>1. AllSplits = (UpTo[q - 1] \o b) \o u
        BY <2>1, <2>3 DEF q
      <3>2. u \in Seq(Pairs)
        BY <2>1
      <3>3. b \o u \in Seq(Pairs)
        BY <2>4, <3>2, ConcatProperties
      <3>4. UpTo[q - 1] \in Seq(Pairs)
        BY <2>3
      <3>5. (UpTo[q - 1] \o b) \o u = UpTo[q - 1] \o (b \o u)
        BY <2>4, <3>2, <3>4, PairsAssociate, Zenon
      <3> QED BY <3>1, <3>3, <3>5
    <2> QED BY <2>2, <2>5
  <1>4. Nat \subseteq T
    <2> HIDE DEF T
    <2> QED BY <1>2, <1>3, NatSetInduction
  <1>5. len - p \in Nat /\ len - p =< len /\ len - (len - p) = p
    BY <1>1
  <1> QED BY <1>4, <1>5

-----------------------------------------------------------------------------
(* The iterator: the inductive invariant.                                   *)

\* After the end the pointer is past the last partition.
PastTheEnd == status # "ok" => pidx > Len(parts)

\* Between calls: everything before the pointer has been returned; at the end
\* everything but the last split.
Returned ==
  NonEmpty =>
    /\ parts = <<>> => yielded = <<>>
    /\ status = "ok" /\ parts # <<>> =>
         /\ pidx =< Len(parts)
         /\ split \in 1..Splits(pidx)
         /\ yielded = UpTo[pidx - 1] \o Some(pidx, split - 1)
    /\ status # "ok" /\ parts # <<>> =>
         yielded = UpTo[Len(parts) - 1] \o Some(Len(parts), Splits(Len(parts)) - 1)

IInv == TypeOK /\ PastTheEnd /\ Returned

\* A fresh iterator has not ended.
LEMMA InitIInv == Init => IInv
  <1> SUFFICES ASSUME Init PROVE IInv
    OBVIOUS
  <1>1. parts \in Seq(Nat) /\ Len(parts) \in Nat
    BY IteratorAssumption DEF Init
  <1>2. TypeOK /\ PastTheEnd
    BY <1>1 DEF Init, TypeOK, PastTheEnd
  <1>3. Returned
    <2> SUFFICES ASSUME NonEmpty, parts # <<>>
                 PROVE  /\ 1 =< Len(parts) /\ 1 \in 1..Splits(1)
                        /\ <<>> = UpTo[0] \o Some(1, 0)
      BY DEF Init, Returned
    <2>1. 1 \in 1..Len(parts)
      BY <1>1, EmptySeq
    <2>2. 1 \in 1..Splits(1)
      BY <1>1, <2>1, SplitsAreNat
    <2>3. UpTo[0] = <<>> /\ Some(1, 0) = <<>>
      BY <1>1, UpToIsChain, SomeIsSeq DEF Chain
    <2> QED BY <2>1, <2>2, <2>3
  <1> QED BY <1>2, <1>3 DEF IInv

\* Every call leaves the variables with their types, and the pointer past the
\* end when it is one.
LEMMA NextType == IInv /\ [Next]_vars => TypeOK' /\ PastTheEnd'
  <1> SUFFICES ASSUME IInv, [Next]_vars PROVE TypeOK' /\ PastTheEnd'
    OBVIOUS
  <1>1. /\ parts \in Datasets /\ Len(parts) \in Nat
        /\ pidx \in 1..Len(parts) + 1 /\ split \in Nat \ {0}
        /\ yielded \in Seq(Nat \X Nat) /\ status \in {"ok", "stop", "error"}
    BY IteratorAssumption DEF IInv, TypeOK
  <1>2. Append(yielded, Current) \in Seq(Nat \X Nat)
    BY <1>1 DEF Current
  <1>3. CASE NextSplit
    BY <1>1, <1>2, <1>3 DEF NextSplit, IInv, TypeOK, PastTheEnd
  <1>4. CASE NextPartition
    BY <1>1, <1>2, <1>4 DEF NextPartition, HasPartition, First, IInv, TypeOK, PastTheEnd
  <1>5. CASE Stop
    BY <1>1, <1>5 DEF Stop, HasPartition, First, IInv, TypeOK, PastTheEnd
  <1>6. CASE NoPartition
    BY <1>1, <1>6 DEF NoPartition, Failure, IInv, TypeOK, PastTheEnd
  <1>7. CASE UNCHANGED vars
    BY <1>7 DEF vars, IInv, TypeOK, PastTheEnd
  <1> QED BY <1>3, <1>4, <1>5, <1>6, <1>7 DEF Next

\* Returning the remembered pair adds the split under the pointer.
LEMMA NextReturned == IInv /\ [Next]_vars => Returned'
  <1> SUFFICES ASSUME IInv, [Next]_vars PROVE Returned'
    OBVIOUS
  <1>p. parts' = parts
    BY DEF Next, NextSplit, NextPartition, Stop, NoPartition, vars
  <1> SUFFICES ASSUME NonEmpty PROVE Returned'
    <2>1. NonEmpty' => NonEmpty
      BY <1>p DEF NonEmpty, Splits
    <2> QED BY <2>1 DEF Returned
  <1>0. parts \in Seq(Nat) /\ Len(parts) \in Nat /\ pidx \in Nat \ {0} /\ split \in Nat \ {0}
    BY IteratorAssumption DEF IInv, TypeOK
  <1>1. CASE parts = <<>>
    <2>1. parts' = <<>> /\ yielded' = yielded
      BY <1>0, <1>1 DEF Next, NextSplit, NextPartition, Stop, NoPartition, vars
    <2> QED BY <1>1, <2>1 DEF IInv, Returned
  <1>2. CASE parts # <<>> /\ status # "ok"
    <2>1. parts' = parts /\ yielded' = yielded /\ status' # "ok"
      BY <1>2 DEF Next, NextSplit, NextPartition, Stop, NoPartition, Failure, vars
    <2>2. \A p : Splits(p)' = Splits(p)
      BY <2>1 DEF Splits
    <2>3. UpTo' = UpTo
      BY <2>1, <2>2 DEF UpTo, Chain, AllSplits, Splits
    <2> QED BY <1>2, <2>1, <2>2, <2>3 DEF IInv, Returned
  <1>3. CASE parts # <<>> /\ status = "ok"
    <2> DEFINE n == Splits(pidx)
    <2>1. /\ pidx \in 1..Len(parts) /\ n \in Nat \ {0} /\ split \in 1..n
          /\ yielded = UpTo[pidx - 1] \o Some(pidx, split - 1)
      <3>1. /\ pidx \in 1..Len(parts) /\ split \in 1..n
            /\ yielded = UpTo[pidx - 1] \o Some(pidx, split - 1)
        <4>1. /\ pidx =< Len(parts) /\ split \in 1..Splits(pidx)
              /\ yielded = UpTo[pidx - 1] \o Some(pidx, split - 1)
          BY <1>3 DEF IInv, Returned
        <4> QED BY <1>0, <4>1
      <3>2. n \in Nat \ {0}
        BY <1>0, <3>1, SplitsAreNat
      <3> QED BY <3>1, <3>2
    <2>2. Chain(UpTo)
      BY <1>0, UpToIsChain
    <2>3. Append(yielded, Current) = UpTo[pidx - 1] \o Some(pidx, split)
      <3> DEFINE u == UpTo[pidx - 1]
                 b == Some(pidx, split - 1)
                 c == << <<pidx, split>> >>
      <3>1. u \in Seq(Pairs)
        <4>1. pidx - 1 \in 0..Len(parts)
          BY <1>0, <2>1
        <4> QED BY <2>2, <4>1 DEF Chain
      <3>2. b \in Seq(Pairs) /\ Some(pidx, split) = b \o c /\ c \in Seq(Pairs)
        <4>1. split - 1 \in Nat /\ (split - 1) + 1 = split
          BY <1>0
        <4> HIDE DEF b, c
        <4>2. b \in Seq(Pairs) /\ Some(pidx, split) = b \o c
          BY <1>0, <4>1, SomeIsSeq DEF b, c
        <4>3. c \in Seq(Pairs)
          BY <1>0 DEF c, Pairs
        <4> QED BY <4>2, <4>3
      <3>3. u \o b \in Seq(Pairs) /\ Current \in Pairs /\ c = <<Current>>
        <4>1. Current \in Pairs /\ c = <<Current>>
          BY <1>0 DEF Current, Pairs
        <4> HIDE DEF u, b, c
        <4> QED BY <3>1, <3>2, <4>1, ConcatProperties
      <3> HIDE DEF u, b, c
      <3>4. Append(u \o b, Current) = (u \o b) \o c
        BY <3>3, AppendIsConcat
      <3>5. (u \o b) \o c = u \o (b \o c)
        BY <3>1, <3>2, ConcatAssociative
      <3> QED BY <2>1, <3>2, <3>4, <3>5 DEF u, b
    <2>4. parts' = parts /\ (\A p : Splits(p)' = Splits(p)) /\ UpTo' = UpTo
      <3> QED BY <1>p DEF Splits, UpTo, Chain, AllSplits
    <2>5. CASE NextSplit
      BY <1>0, <1>3, <2>1, <2>3, <2>4, <2>5 DEF NextSplit, HasSplit, Returned
    <2>6. CASE NextPartition
      <3>1. split = n /\ pidx + 1 \in 1..Len(parts) /\ (pidx + 1) - 1 = pidx
        BY <1>0, <2>1, <2>6 DEF NextPartition, HasSplit, HasPartition
      <3>2. UpTo[pidx - 1] \o Some(pidx, n) = UpTo[pidx]
        BY <2>1, <2>2 DEF Chain
      <3>3. UpTo[pidx] = UpTo[pidx] \o Some(pidx + 1, 0)
        <4>1. UpTo[pidx] \in Seq(Pairs)
          <5>1. pidx \in 0..Len(parts)
            BY <1>0, <2>1
          <5> QED BY <2>2, <5>1 DEF Chain
        <4>2. Some(pidx + 1, 0) = <<>>
          <5>1. pidx + 1 \in Nat /\ 0 \in Nat
            BY <1>0
          <5> QED BY <5>1, SomeIsSeq
        <4> QED BY <4>1, <4>2, ConcatEmptySeq
      <3>4. 1 \in 1..Splits(pidx + 1)
        BY <1>0, <3>1, SplitsAreNat
      <3>5. pidx' = pidx + 1 /\ split' = 1 /\ yielded' = UpTo[pidx] \o Some(pidx + 1, 0)
        BY <2>3, <2>6, <3>1, <3>2, <3>3 DEF NextPartition, First
      <3>6. status' = status /\ pidx' =< Len(parts) /\ pidx' - 1 = pidx /\ split' - 1 = 0
        BY <1>0, <2>6, <3>1, <3>5 DEF NextPartition
      <3> QED BY <1>3, <2>4, <3>4, <3>5, <3>6 DEF Returned
    <2>7. CASE Stop
      <3>1. split = n /\ pidx = Len(parts)
        BY <1>0, <2>1, <2>7 DEF Stop, HasSplit, HasPartition
      <3>2. yielded' = UpTo[Len(parts) - 1] \o Some(Len(parts), Splits(Len(parts)) - 1)
        BY <2>1, <2>7, <3>1 DEF Stop
      <3>3. status' # "ok"
        BY <2>7 DEF Stop
      <3> QED BY <1>3, <2>4, <3>2, <3>3 DEF Returned
    <2>8. CASE NoPartition
      BY <1>0, <2>1, <2>8 DEF NoPartition
    <2>9. CASE UNCHANGED vars
      BY <1>3, <2>1, <2>4, <2>9 DEF vars, Returned
    <2> QED BY <2>5, <2>6, <2>7, <2>8, <2>9 DEF Next
  <1> QED BY <1>1, <1>2, <1>3

LEMMA Invariance == Spec => []IInv
  <1>1. IInv /\ [Next]_vars => IInv'
    BY NextType, NextReturned DEF IInv
  <1> QED BY <1>1, InitIInv, PTL DEF Spec

-----------------------------------------------------------------------------
(* The iterator: the properties.                                            *)

\* The pointer is inside the dataset or just past it, the split is one-based,
\* and what is returned are pairs (sdf_iterator).
THEOREM TypeCorrect == Spec => []TypeOK
  BY Invariance, PTL DEF IInv

\* For datasets of any shape, empty ones and empty partitions among them, a
\* call after the end returns nothing and does not start over (nextElem,
\* sdataframe.R).
THEOREM ConsumedStaysConsumed == Spec => StaysStopped
  <1>1. IInv /\ [Next]_vars => [status # "ok" => yielded' = yielded /\ status' # "ok"]_vars
    BY DEF IInv, PastTheEnd, TypeOK, Next, NextSplit, NextPartition, Stop, NoPartition,
           Failure, vars
  <1> QED BY <1>1, Invariance, PTL DEF Spec, StaysStopped

\* At the end exactly the last split of the last partition is missing, for
\* datasets of any number of partitions of any size: nextElem moves its
\* pointer first and signals the end instead of returning what it remembered.
THEOREM OnlyTheLastIsMissed == Spec => []MissesOnlyTheLast
  <1>1. IInv => MissesOnlyTheLast
    <2> SUFFICES ASSUME IInv, NonEmpty, parts # <<>>, status = "stop"
                 PROVE  yielded = Front(AllSplits)
      BY DEF MissesOnlyTheLast
    <2> DEFINE len  == Len(parts)
               n    == Splits(len)
               most == Some(len, n - 1)
               u    == UpTo[len - 1]
    <2>1. parts \in Seq(Nat) /\ len \in 1..len /\ len \in Nat \ {0}
      BY IteratorAssumption, EmptySeq DEF IInv, TypeOK
    <2>2. n \in Nat \ {0} /\ Chain(UpTo)
      BY <2>1, SplitsAreNat, UpToIsChain
    <2>3. u \in Seq(Pairs) /\ AllSplits = u \o Some(len, n)
      <3>1. len - 1 \in 0..len
        BY <2>1
      <3> QED BY <2>1, <2>2, <3>1 DEF Chain
    <2>4. /\ most \in Seq(Pairs) /\ Some(len, n) = most \o << <<len, n>> >>
          /\ <<len, n>> \in Pairs /\ << <<len, n>> >> \in Seq(Pairs)
      <3> HIDE DEF n, len
      <3>1. n - 1 \in Nat /\ (n - 1) + 1 = n
        BY <2>2
      <3>2. most \in Seq(Pairs) /\ Some(len, n) = most \o << <<len, n>> >>
        BY <2>1, <3>1, SomeIsSeq
      <3> QED BY <2>1, <2>2, <3>2 DEF Pairs
    <2>5. yielded = u \o most
      BY DEF IInv, Returned
    <2> HIDE DEF n, len, u, most
    <2>6. AllSplits = (u \o most) \o << <<len, n>> >> /\ u \o most \in Seq(Pairs)
      BY <2>3, <2>4, ConcatAssociative, ConcatProperties
    <2> QED BY <2>4, <2>5, <2>6, FrontOfConcat
  <1> QED BY <1>1, Invariance, PTL

\* What has been returned is at every moment the beginning of the enumeration:
\* nothing skipped, repeated or out of order across partition boundaries.
THEOREM YieldsTheEnumeration == Spec => []YieldsInOrder
  <1>1. IInv => YieldsInOrder
    <2> SUFFICES ASSUME IInv, NonEmpty PROVE IsPrefix(yielded, AllSplits)
      BY DEF YieldsInOrder
    <2>1. parts \in Seq(Nat) /\ Len(parts) \in Nat /\ Chain(UpTo)
      BY IteratorAssumption, UpToIsChain DEF IInv, TypeOK
    <2>2. ASSUME NEW p \in 1..Len(parts), NEW m \in 0..Splits(p),
                 yielded = UpTo[p - 1] \o Some(p, m)
          PROVE  IsPrefix(yielded, AllSplits)
      <3>1. p \in 0..Len(parts) /\ p - 1 \in 0..Len(parts) /\ p \in Nat
        BY <2>1
      <3>2. PICK u \in Seq(Pairs) : AllSplits = UpTo[p] \o u
        BY <2>1, <3>1, UpToIsPrefix
      <3>3. UpTo[p] = UpTo[p - 1] \o Some(p, Splits(p)) /\ UpTo[p - 1] \in Seq(Pairs)
        BY <2>1, <3>1 DEF Chain
      <3>0. Splits(p) \in Nat /\ m \in Nat
        <4>1. Splits(p) \in Nat
          BY <2>1, SplitsAreNat
        <4> QED BY <4>1
      <3>4. PICK r \in Seq(Pairs) : Some(p, Splits(p)) = Some(p, m) \o r
        BY <3>0, <3>1, SomeIsPrefix
      <3>5. Some(p, m) \in Seq(Pairs) /\ u \in Seq(Pairs) /\ r \in Seq(Pairs)
        <4>1. Some(p, m) \in Seq(Pairs)
          BY <3>0, <3>1, SomeIsSeq
        <4> QED BY <3>2, <3>4, <4>1
      <3> DEFINE x == UpTo[p - 1]
                 y == Some(p, m)
      <3> HIDE DEF x, y
      <3>6. x \o y \in Seq(Pairs) /\ r \o u \in Seq(Pairs) /\ y \o r \in Seq(Pairs)
        BY <3>3, <3>5, ConcatProperties DEF x, y
      <3>7. AllSplits = (x \o (y \o r)) \o u
        BY <3>2, <3>3, <3>4 DEF x, y
      <3>11. x \in Seq(Pairs) /\ y \in Seq(Pairs) /\ r \in Seq(Pairs)
        BY <3>3, <3>5 DEF x, y
      <3>8. x \o (y \o r) = (x \o y) \o r
        BY <3>11, PairsAssociate, Zenon
      <3>9. ((x \o y) \o r) \o u = (x \o y) \o (r \o u)
        <4>1. \A a \in Seq(Pairs) : (a \o r) \o u = a \o (r \o u)
          BY <3>5, PairsAssociate, Zenon
        <4>2. x \o y \in Seq(Pairs)
          BY <3>6
        <4> QED BY <4>1, <4>2, Zenon
      <3>10. IsPrefix(x \o y, (x \o y) \o (r \o u))
        BY <3>6, PrefixOfConcat
      <3>12. yielded = x \o y
        BY <2>2 DEF x, y
      <3>13. AllSplits = (x \o y) \o (r \o u)
        BY <3>7, <3>8, <3>9
      <3> HIDE DEF IsPrefix
      <3> QED BY <3>10, <3>12, <3>13, Zenon
    <2>3. CASE parts = <<>>
      <3>1. yielded = <<>> /\ AllSplits \in Seq(Pairs)
        BY <2>1, <2>3 DEF IInv, Returned, Chain
      <3>2. <<>> \in Seq(Pairs) /\ <<>> \o AllSplits = AllSplits
        BY <3>1, ConcatEmptySeq, EmptySeq
      <3> HIDE DEF AllSplits, IsPrefix
      <3>3. IsPrefix(<<>>, <<>> \o AllSplits)
        BY <3>1, <3>2, PrefixOfConcat
      <3> QED BY <3>1, <3>2, <3>3
    <2>4. CASE parts # <<>> /\ status = "ok"
      <3>1. pidx \in 1..Len(parts) /\ split - 1 \in 0..Splits(pidx)
        BY <2>1, <2>4, SplitsAreNat DEF IInv, TypeOK, Returned
      <3> QED BY <2>2, <2>4, <3>1 DEF IInv, Returned
    <2>5. CASE parts # <<>> /\ status # "ok"
      <3>1. Len(parts) \in 1..Len(parts)
        BY <2>1, <2>5, EmptySeq
      <3>2. Splits(Len(parts)) - 1 \in 0..Splits(Len(parts))
        BY <2>1, <3>1, SplitsAreNat
      <3> QED BY <2>2, <2>5, <3>1, <3>2 DEF IInv, Returned
    <2> QED BY <2>3, <2>4, <2>5
  <1> QED BY <1>1, Invariance, PTL

=============================================================================
