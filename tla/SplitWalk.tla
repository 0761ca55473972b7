------------------------------ MODULE SplitWalk ------------------------------
(***************************************************************************)
(* Reading a whole column of a partition, as filter and collect do: take   *)
(* the number of splits from partitions_list, then splitn(p, s, column)    *)
(* for every s in 1:splits.  What is at stake is that the pieces are the   *)
(* partition: no row missing, none twice, and no split mapped longer than  *)
(* its file, which would fault on the first access past its end.           *)
(***************************************************************************)
EXTENDS SplitGeometry

CONSTANTS Rows,         \* row counts a partition may have
          RpsChoices,   \* rows per split a schema may have
          HeaderRows    \* rows whose cells take the room of the vector header

ASSUME WalkAssumption ==
  Rows \subseteq Nat /\ RpsChoices \subseteq Nat \ {0} /\ HeaderRows \in Nat \ {0}

VARIABLES
  total,   \* rows of the partition, on 64 bits
  rps,     \* rows per split
  pc,      \* "list", "read", "done" or "error"
  splits,  \* the splits entry of partitions_list
  k,       \* position in 1:splits
  last,    \* the split read last: its number and the rows mapped
  read     \* rows read so far

walkVars == <<total, rps, pc, splits, k, last, read>>

None == [split |-> 0, rows |-> 0]

WalkInit ==
  /\ total \in Rows
  /\ rps \in RpsChoices
  /\ pc = "list"
  /\ splits = 0 /\ k = 0 /\ read = 0
  /\ last = None

List ==
  /\ pc = "list"
  /\ splits' = PartitionInfo(total, rps).splits
  /\ pc' = "read"
  /\ UNCHANGED <<total, rps, k, last, read>>

\* The rows splitn(p, s, c) asks for, with the split made zero-based.  Below
\* zero it is NULL; and so it is when the cells and the header of so many rows
\* add up to no length mmap takes, zero or one that has wrapped around.
Mapped(s) ==
  LET rows == RowsInSplit(total, rps, s - 1)
  IN  IF s - 1 >= 0 /\ rows > -HeaderRows THEN rows ELSE 0

\* Mutant: any length is taken.
CanHoldAny(rows) == TRUE

\* A vector has no negative length.
CanHold(rows) == rows >= 0

Read ==
  /\ pc = "read"
  /\ k < Len(Colon(1, splits))
  /\ LET s == Colon(1, splits)[k + 1]
     IN  /\ CanHold(Mapped(s))
         /\ last' = [split |-> s, rows |-> Mapped(s)]
         /\ read' = read + Mapped(s)
  /\ k' = k + 1
  /\ UNCHANGED <<total, rps, pc, splits>>

\* The header makes up for the rows that are missing, the file is mapped, and
\* Rf_allocVector3 is an R error.
ReadError ==
  /\ pc = "read"
  /\ k < Len(Colon(1, splits))
  /\ ~CanHold(Mapped(Colon(1, splits)[k + 1]))
  /\ pc' = "error"
  /\ UNCHANGED <<total, rps, splits, k, last, read>>

Finish ==
  /\ pc = "read"
  /\ k >= Len(Colon(1, splits))
  /\ pc' = "done"
  /\ UNCHANGED <<total, rps, splits, k, last, read>>

WalkNext == List \/ Read \/ ReadError \/ Finish

WalkSpec == WalkInit /\ [][WalkNext]_walkVars

-----------------------------------------------------------------------------
(* Properties *)

WalkTypeOK ==
  /\ total \in Nat /\ rps \in Nat \ {0}
  /\ pc \in {"list", "read", "done", "error"}
  /\ splits \in Int /\ k \in Nat /\ read \in Nat
  /\ last \in [split: Int, rows: Nat]

\* A partition whose row count is an int.
Fits == total =< IntMax

\* The splits add up to the partition: a finished walk has read every row
\* once, for every row count that fits an int, also when the rows divide
\* evenly into splits and when there are none.
WholePartition == pc = "done" /\ Fits => read = total

\* Each split is mapped over exactly the rows its file has.
SplitIsItsFile ==
  Fits /\ last # None =>
    last.rows = IF last.split >= 1 THEN FileRows(total, rps, last.split - 1) ELSE 0

\* The walk has no gap: after k splits it has read the first k * rps rows, or
\* all there are.
Contiguous ==
  Fits /\ total > 0 =>
    read = IF k * rps =< total THEN k * rps ELSE total

\* The two places that compute a number of splits agree, and nothing but a
\* short last split exists: the remainder column of partitions_list is the
\* size of the last split, or 0 when it is full.
InfoConsistent ==
  Fits /\ pc = "done" /\ total > 0 =>
    /\ PartitionSplits(total, rps) = splits
    /\ last.split = splits
    /\ PartitionInfo(total, rps).remainder = last.rows % rps

=============================================================================
