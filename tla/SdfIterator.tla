----------------------------- MODULE SdfIterator -----------------------------
(***************************************************************************)
(* sdf_iterator and the foreach loop that drives it.  The iterator is a    *)
(* closure over the list of partitions, a partition index and a split      *)
(* number; nextElem remembers the current split, moves the pointer, and    *)
(* only then returns the remembered pair - or signals StopIteration        *)
(* instead of returning it.                                                *)
(***************************************************************************)
EXTENDS SplitGeometry, SequencesExt

CONSTANTS Datasets,    \* the datasets: a sequence of partition row counts each
          Rps          \* rows per split

ASSUME IteratorAssumption ==
  Datasets \subseteq Seq(Nat) /\ Rps \in Nat \ {0}

VARIABLES
  parts,     \* sdf$partitions(), as the row count of each
  pidx,      \* partition index
  split,     \* split number
  yielded,   \* what nextElem has returned: <<partition, split>> pairs
  status     \* the last call: "ok", "stop" (StopIteration) or "error"

vars == <<parts, pidx, split, yielded, status>>

Splits(p) == PartitionSplits(parts[p], Rps)

Init ==
  /\ parts \in Datasets
  /\ pidx = 1 /\ split = 1
  /\ yielded = <<>>
  /\ status = "ok"

Current == <<pidx, split>>

\* split <- split + 1, and then whether the partition has such a split
HasSplit == split + 1 =< Splits(pidx)

\* Mutant: the end of any partition is the end of the data.
HasPartitionNever == FALSE

HasPartition == pidx + 1 =< Len(parts)

\* Mutant: the number C++ counts from.
FirstZero == 0

\* Mutant: the split number is not reset.
FirstNext == split + 1

\* split <- 1
First == 1

\* The partition has a further split: return the remembered one.
NextSplit ==
  /\ status = "ok" /\ pidx =< Len(parts)
  /\ HasSplit
  /\ split' = split + 1
  /\ yielded' = Append(yielded, Current)
  /\ UNCHANGED <<parts, pidx, status>>

\* It has none, but there is a further partition.
NextPartition ==
  /\ status = "ok" /\ pidx =< Len(parts)
  /\ ~HasSplit /\ HasPartition
  /\ pidx' = pidx + 1
  /\ split' = First
  /\ yielded' = Append(yielded, Current)
  /\ UNCHANGED <<parts, status>>

\* There is none either: the call stops the iteration.
Stop ==
  /\ status = "ok" /\ pidx =< Len(parts)
  /\ ~HasSplit /\ ~HasPartition
  /\ pidx' = pidx + 1
  /\ split' = First
  /\ status' = "stop"
  /\ UNCHANGED <<parts, yielded>>

\* Mutant: the missing partition goes unnoticed.
NoPartitionIgnored ==
  /\ pidx > Len(parts)
  /\ status \in {"ok", "stop"}
  /\ UNCHANGED vars

\* Mutant: partition_splits of NA goes on with nothing.
FailureNone == "ok"

\* partition_splits cannot open NA: an R error.
Failure == "error"

\* With no partition under the pointer parts[pidx] is NA, and partition_splits
\* cannot open it: the first call on an empty dataset, any call after the end.
\* The split number has been advanced by then.
NoPartition ==
  /\ pidx > Len(parts)
  /\ status \in {"ok", "stop"}
  /\ split' = split + 1
  /\ status' = Failure
  /\ UNCHANGED <<parts, pidx, yielded>>

\* foreach takes elements until StopIteration or an error.
ForeachStep == NextSplit \/ NextPartition \/ Stop \/ (status = "ok" /\ NoPartition)

\* A caller of nextElem may go on after the end.
Next == NextSplit \/ NextPartition \/ Stop \/ NoPartition

Spec == Init /\ [][Next]_vars

\* foreach runs its loop to the end.
FairSpec == Spec /\ WF_vars(ForeachStep)

-----------------------------------------------------------------------------
(* Properties *)

\* Every partition and split of the dataset, in the order of the partitions.
AllSplits ==
  FlattenSeq([p \in DOMAIN parts |-> [s \in 1..Splits(p) |-> <<p, s>>]])

TypeOK ==
  /\ parts \in Datasets
  /\ pidx \in 1..Len(parts) + 1
  /\ split \in Nat \ {0}
  /\ yielded \in Seq(Nat \X Nat)
  /\ status \in {"ok", "stop", "error"}

\* Every partition has a split, as partition_splits counts them: an empty one
\* has, unless splits are of one row.
NonEmpty == \A p \in DOMAIN parts : Splits(p) > 0

\* What has been returned is the beginning of the enumeration: nothing is
\* skipped, repeated or out of order, across partition boundaries too.
YieldsInOrder == NonEmpty => IsPrefix(yielded, AllSplits)

\* At the end exactly one element is missing, the last split of the last
\* partition.
MissesOnlyTheLast ==
  NonEmpty /\ parts # <<>> /\ status = "stop" => yielded = Front(AllSplits)

\* A consumed iterator stays consumed: after the end no call returns an
\* element.
StaysStopped ==
  [][status # "ok" => yielded' = yielded /\ status' # "ok"]_vars

\* A foreach loop over the iterator ends.
ForeachEnds == <>(status \in {"stop", "error"})

\* "An iterator that will iterate over all partition and splits."
YieldsAll == NonEmpty /\ status = "stop" => yielded = AllSplits

=============================================================================
