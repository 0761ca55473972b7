---------------------------- MODULE SplitGeometry ----------------------------
(***************************************************************************)
(* How a partition of n rows is cut into splits of rows-per-split rows.    *)
(* The row count comes from db.mp as a 64-bit integer; rowsInSplit takes   *)
(* and partitionRows returns a 32-bit int, and R sees only 32-bit ints.    *)
(* Split numbers are one-based in R and zero-based in C++.                 *)
(***************************************************************************)
EXTENDS Integers, Sequences

CONSTANT IntMax    \* largest int: 2^31 - 1

ASSUME IntMaxAssumption == IntMax \in Nat \ {0}

\* Conversion of a 64-bit integer to int: reduction modulo 2^32.
ToInt(x) == ((x + IntMax + 1) % (2 * (IntMax + 1))) - (IntMax + 1)

\* C++ division and remainder truncate towards zero (d is positive).
Quot(a, d) == IF a >= 0 THEN a \div d ELSE -((-a) \div d)
Rem(a, d)  == a - d * Quot(a, d)

\* partition_rows(pkey)
PartitionRows(n) == ToInt(n)

\* Mutant: a full last split is followed by an empty one.
PartitionSplitsExtra(n, rps) == ToInt(Quot(n, rps) + 1)

\* partition_splits(pkey): the division is done on 64 bits
PartitionSplits(n, rps) == ToInt(Quot(n - 1, rps) + 1)

\* Mutant: the last split is not shorter.
RowsInSplitFull(n, rps, split) ==
  IF split > Quot(ToInt(n), rps) THEN 0 ELSE rps

\* rowsInSplit(nrow_, split), split zero-based: nrow_ is narrowed on the way in
RowsInSplit(n, rps, split) ==
  LET total  == ToInt(n)
      splits == Quot(total, rps)
  IN  IF split > splits THEN 0
      ELSE IF split = splits THEN Rem(total, rps)
      ELSE rps

\* Mutant: rows / rps splits.
PartitionInfoRoundedDown(n, rps) ==
  [rows      |-> PartitionRows(n),
   splits    |-> Quot(ToInt(PartitionRows(n)), rps),
   remainder |-> Rem(PartitionRows(n), rps)]

\* The row of partition n in the data frame that partitions_list returns; it
\* divides the row count that is an int already.
PartitionInfo(n, rps) ==
  [rows      |-> PartitionRows(n),
   splits    |-> Quot(ToInt(PartitionRows(n) - 1), rps) + 1,
   remainder |-> Rem(PartitionRows(n), rps)]

\* The vector a:b of R: it counts down when b is below a.
Colon(a, b) == IF a =< b THEN [k \in 1..(b - a + 1) |-> a + k - 1]
                         ELSE [k \in 1..(a - b + 1) |-> a - k + 1]

\* The rows sdscreate has put in the file of a (zero-based) split: full
\* splits and then what is left.
FileRows(n, rps, split) ==
  IF n =< split * rps THEN 0
  ELSE IF n >= (split + 1) * rps THEN rps
  ELSE n - split * rps

=============================================================================
