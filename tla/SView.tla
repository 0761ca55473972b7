-------------------------------- MODULE SView --------------------------------
(***************************************************************************)
(* A view on a dataset: choose partitions, choose columns, filter, collect.*)
(* A view is an R list, copied by every operation: an operation that fails *)
(* leaves the caller's view as it was, but one that succeeds may leave     *)
(* parts of it that belong to an earlier operation - the bitmaps and       *)
(* counts of a filter stay when other partitions are chosen.               *)
(*                                                                         *)
(* filter and collect loop over 1:splits of every chosen partition; one    *)
(* iteration is one step here.  FilterParse has the conditions; that a     *)
(* column may take the place of a variable of filter is in FilterFrame.    *)
(***************************************************************************)
EXTENDS FilterParse

CONSTANTS
  Part,         \* partitions of the dataset, numbered in the order of their names
  Kind,         \* kind of each column
  Rps,          \* rows per split
  Datasets,     \* contents: the cells of each partition and column
  Lists,        \* partition lists a user may pass; they may name others
  Selections,   \* column lists a user may select
  Conditions    \* filter conditions a user may write

ASSUME ViewAssumption ==
  /\ Part \subseteq Nat /\ IsFiniteSet(Part)
  /\ Col # {}
  /\ Rps \in Nat \ {0}
  /\ Datasets \subseteq [Part -> [Col -> Seq(Cell)]]
  /\ Lists \subseteq Seq(Nat)
  /\ Selections \subseteq Seq(Col)
  /\ Conditions \subseteq Expr
  /\ Kind \in [Col -> {"int32", "double", "factor", "date", "intkey", "factorkey"}]

VARIABLES
  ds,         \* the dataset: cells of each partition and column
  v,          \* the user's view
  loop,       \* the filter or collect in progress
  outcome,    \* how the last operation ended, and what a collect returned
  filtered    \* history: the partitions of the filter v is from

vars == <<ds, v, loop, outcome, filtered>>

Idle   == [pc |-> "idle"]
Ok     == [status |-> "ok"]
Failed == [status |-> "error"]

NoColumns == <<>>    \* v$columns is NULL: all columns
Empty     == <<>>    \* an empty list, a NULL partitions table

\* sort: at place i the least name with at least i names up to it.
Sorted(list) ==
  [i \in DOMAIN list |->
     Min({p \in ToSet(list) : Cardinality({j \in DOMAIN list : list[j] =< p}) >= i})]

\* partitions_list: one row for each name, sorted by name.
Info(list) ==
  [i \in DOMAIN list |->
     LET p == Sorted(list)[i]
     IN  [partition |-> p,
          splits |-> PartitionInfo(Len(ds[p][CHOOSE c \in Col : TRUE]), Rps).splits]]

\* The (partition, split) pairs a loop over the chosen partitions visits.
Todo(partitions) ==
  FlattenSeq([i \in DOMAIN partitions |->
     LET splits == Colon(1, partitions[i].splits)
     IN  [s \in DOMAIN splits |-> <<partitions[i].partition, splits[s]>>]])

\* The writer makes no file for a split that has no rows.
HasFile(k, c) == FileRows(Len(ds[k[1]][c]), Rps, k[2] - 1) > 0

\* Whether ds$splitn(p, s, c) is a vector: there is no split below the first,
\* and of the partition keys, which have no files, only ints can be turned
\* into a column.
Readable(k, c) ==
  /\ k[2] >= 1
  /\ Kind[c] # "factorkey"
  /\ Kind[c] = "intkey" \/ HasFile(k, c)

\* ds$splitn(p, s, c), when it is one.
Splitn(k, c) ==
  LET cells == ds[k[1]][c]
      first == (k[2] - 1) * Rps
  IN  SubSeq(cells, first + 1, first + RowsInSplit(Len(cells), Rps, k[2] - 1))

-----------------------------------------------------------------------------
(* Evaluating a condition on one split.                                     *)

Class(c) == CASE Kind[c] \in {"int32", "intkey"} -> "integer"
              [] Kind[c] = "date" -> "Date"
              [] OTHER -> Kind[c]

\* The columns of a split, as the condition sees them.
Loaded(k) == [c \in Col |-> IF Readable(k, c) THEN Vec(Class(c), Splitn(k, c)) ELSE Null]

Set(bits)   == {j \in DOMAIN bits : bits[j]}
Count(bits) == Cardinality(Set(bits))

\* A vector on R's heap, of a partition key or a number, may or may not be
\* aligned for the kernels; a misaligned one gives NULL, which has no popcount.
MayBeRefused(cond) ==
  \E t \in Comparisons[Parse[cond]] :
    t.args[1].is = "const" \/ (t.args[1].is = "name" /\ Kind[t.args[1].name] = "intkey")

\* f[k] <- x for a named list
Put(f, k, x) == [i \in DOMAIN f \cup {k} |-> IF i = k THEN x ELSE f[i]]

-----------------------------------------------------------------------------
(* Choosing partitions and columns.                                         *)

Init ==
  /\ ds \in Datasets
  /\ v = [partitions |-> Empty, columns |-> NoColumns, bitmap |-> Empty,
          klen |-> Empty, rows |-> 0]
  /\ loop = Idle
  /\ outcome = Ok
  /\ filtered = Empty

Fail ==
  /\ outcome' = Failed
  /\ loop' = Idle
  /\ UNCHANGED <<ds, v, filtered>>

\* partitions(v, list): reading the row count of an unknown one is an error.
Partitions(list) ==
  /\ loop = Idle
  /\ \/ /\ ToSet(list) \subseteq Part
        /\ v' = [v EXCEPT !.partitions = Info(list)]
        /\ outcome' = Ok
        /\ UNCHANGED <<ds, loop, filtered>>
     \/ ~(ToSet(list) \subseteq Part) /\ Fail

\* partitions_range(v, start, end): both ends included.
PartitionsRange(start, end) ==
  /\ loop = Idle
  /\ v' = [v EXCEPT !.partitions =
             Info(SetToSeq({p \in Part : start =< p /\ p =< end}))]
  /\ outcome' = Ok
  /\ UNCHANGED <<ds, loop, filtered>>

\* partitions_regex(v, from, to) calls the method with an argument too many.
PartitionsRegex == loop = Idle /\ Fail

\* select(v, ...)
Select(columns) ==
  /\ loop = Idle
  /\ v' = [v EXCEPT !.columns = columns]
  /\ outcome' = Ok
  /\ UNCHANGED <<ds, loop, filtered>>

-----------------------------------------------------------------------------
(* filter(v, condition)                                                     *)

\* Mutant: rows is the index of the last row, one less than their number.
StartAtIndex == -1

\* rows <- 0
StartAt == 0

\* v$bitmap starts empty, v$klen does not.
Filter(cond) ==
  /\ loop = Idle
  /\ \/ /\ Parse[cond] # Error /\ v.partitions # Empty
        /\ loop' = [pc |-> "filter", cond |-> cond, todo |-> Todo(v.partitions),
                    i |-> 1, bitmap |-> Empty, klen |-> v.klen, rows |-> StartAt]
        /\ UNCHANGED <<ds, v, outcome, filtered>>
     \/ (Parse[cond] = Error \/ v.partitions = Empty) /\ Fail

\* Mutant: a count that is there already is kept.
RecordOnce(klen, k, n) == IF k \in DOMAIN klen THEN klen ELSE Put(klen, k, n)

\* .v$klen[[k]] <- sindex_popcount(b)
Record(klen, k, n) == Put(klen, k, n)

\* One split: load the columns, evaluate, keep bitmap and popcount.
FilterSplit ==
  /\ loop.pc = "filter"
  /\ loop.i =< Len(loop.todo)
  /\ LET k == loop.todo[loop.i]
         b == Eval(Loaded(k), Parse[loop.cond])
     IN  \/ /\ b.is = "bits"
            /\ loop' = [loop EXCEPT !.i = @ + 1,
                                    !.bitmap = Put(@, k, b.bits),
                                    !.klen = Record(@, k, Count(b.bits)),
                                    !.rows = @ + Count(b.bits)]
            /\ UNCHANGED <<ds, v, outcome, filtered>>
         \/ (MayBeRefused(loop.cond) \/ b.is # "bits") /\ Fail

FilterEnd ==
  /\ loop.pc = "filter"
  /\ loop.i > Len(loop.todo)
  /\ v' = [v EXCEPT !.bitmap = loop.bitmap, !.klen = loop.klen, !.rows = loop.rows]
  /\ filtered' = v.partitions
  /\ loop' = Idle
  /\ outcome' = Ok
  /\ UNCHANGED ds

-----------------------------------------------------------------------------
(* collect(v)                                                               *)

Columns == IF v.columns = NoColumns THEN Col ELSE ToSet(v.columns)

\* The result starts as v$rows zeros in every column.
Collect ==
  /\ loop = Idle
  /\ \/ /\ v.partitions # Empty
        /\ loop' = [pc |-> "collect", todo |-> Todo(v.partitions), i |-> 1, cursor |-> 1,
                    res |-> [c \in Columns |-> [j \in 1..v.rows |-> 0]]]
        /\ UNCHANGED <<ds, v, outcome, filtered>>
     \/ v.partitions = Empty /\ Fail

\* The types the second switch of collect copies: int32 and factor (its label
\* for doubles is "numeric", which is not the name of a type).
Copied(c) == Kind[c] \in {"int32", "intkey", "factor", "factorkey"}

\* The element of a set of numbers that has n of them up to it.
Nth(S, n) == CHOOSE j \in S : Cardinality({l \in S : l =< j}) = n

\* collapse: the cells whose bit is set, in their order.
Selected(cells, bits) == [n \in 1..Count(bits) |-> cells[Nth(Set(bits), n)]]

\* v$klen[[k]] is an error when k is missing, but NULL in a view never filtered.
Klen(k) == IF k \in DOMAIN v.klen THEN v.klen[k] ELSE 0

\* Mutant: the last row of the split, off by one.
NrowsPastEnd(k) == loop.cursor + Klen(k)

\* nrows: the row of the result that the split's last selected row goes to.
Nrows(k) == loop.cursor + Klen(k) - 1

\* The copy of one split can be made: there are a bitmap and cells, and the
\* range rows:nrows is not empty and inside the result.
Fits(k) ==
  /\ k \in DOMAIN v.klen \/ v.klen = Empty
  /\ \A c \in Columns : Copied(c) =>
       /\ k \in DOMAIN v.bitmap
       /\ Readable(k, c)
       /\ Klen(k) # 0
       /\ Nrows(k) =< v.rows

\* Mutant: the first row of a split on top of the last of the one before.
AssignedOverlapping(column, first, x) ==
  [j \in DOMAIN column |->
     IF j - first + 2 \in DOMAIN x THEN x[j - first + 2] ELSE column[j]]

\* res[[c]][rows:nrows] <- col
Assigned(column, first, x) ==
  [j \in DOMAIN column |->
     IF j - first + 1 \in DOMAIN x THEN x[j - first + 1] ELSE column[j]]

CollectSplit ==
  /\ loop.pc = "collect"
  /\ loop.i =< Len(loop.todo)
  /\ LET k == loop.todo[loop.i]
     IN  \/ /\ Fits(k)
            /\ loop' =
                 [loop EXCEPT
                   !.i = @ + 1,
                   !.cursor = Nrows(k) + 1,
                   !.res = [c \in Columns |->
                     IF ~Copied(c) THEN @[c]
                     ELSE Assigned(@[c], loop.cursor,
                                   Selected(Splitn(k, c), v.bitmap[k]))]]
            /\ UNCHANGED <<ds, v, outcome, filtered>>
         \/ ~Fits(k) /\ Fail

CollectEnd ==
  /\ loop.pc = "collect"
  /\ loop.i > Len(loop.todo)
  /\ outcome' = [status |-> "ok", res |-> loop.res]
  /\ loop' = Idle
  /\ UNCHANGED <<ds, v, filtered>>

LoopStep == FilterSplit \/ FilterEnd \/ CollectSplit \/ CollectEnd

Next ==
  \/ \E list \in Lists : Partitions(list)
  \/ \E p, q \in Part : PartitionsRange(p, q)
  \/ PartitionsRegex
  \/ \E columns \in Selections : Select(columns)
  \/ \E cond \in Conditions : Filter(cond)
  \/ Collect
  \/ LoopStep

Spec == Init /\ [][Next]_vars

-----------------------------------------------------------------------------
(* Properties *)

TypeOK ==
  /\ ds \in Datasets
  /\ v.rows \in Nat
  /\ \A k \in DOMAIN v.klen : v.klen[k] \in Nat
  /\ \A k \in DOMAIN v.bitmap : v.bitmap[k] \in Seq(BOOLEAN)
  /\ \A i \in DOMAIN v.partitions : v.partitions[i].partition \in Part
  /\ loop.pc \in {"idle", "filter", "collect"}
  /\ outcome.status \in {"ok", "error"}

\* The view is still on the partitions its last filter ran over.
Fresh == filtered # Empty /\ filtered = v.partitions

\* Wherever there is a bitmap there is the right count for it, also in a view
\* that has been filtered before on other partitions or another condition.
CountsMatchBitmaps ==
  \A k \in DOMAIN v.bitmap :
    k \in DOMAIN v.klen /\ v.klen[k] = Count(v.bitmap[k])

\* A collect right after its filter fails for two reasons only: a split in
\* which nothing matched, and a partition key that is not an int.  It never
\* misses a bitmap or a file, and never runs off the end of the result.
FreshCollectFailures ==
  Fresh /\ loop.pc = "collect" /\ loop.i =< Len(loop.todo) =>
    LET k == loop.todo[loop.i]
    IN  Fits(k) \/ Klen(k) = 0 \/ \E c \in Columns : Kind[c] = "factorkey"

\* Whether the kernels decide a condition for row j of a partition: in every
\* comparison, of a column with a number, the row is decided.
Sure(cond, cells, j) ==
  LET split == (j - 1) \div Rps
  IN  \A t \in Comparisons[Parse[cond]] :
        LET c == t.args[1].name
        IN  Decided(Class(c), RowsInSplit(Len(cells[c]), Rps, split), j - split * Rps,
                    cells[c][j], t.args[2].value)

\* Conditions that compare columns with numbers.
ComparesColumns(cond) ==
  /\ Parse[cond] # Error
  /\ \A t \in Comparisons[Parse[cond]] : t.args[1].is = "name" /\ t.args[2].is = "const"

\* What the promise of a query is about: the columns of a partition have the
\* same rows, as many as an int can count; and no condition compares numbers
\* with numbers or columns with columns, which FilterFrame has as well.
ASSUME QueryAssumption ==
  /\ \A d \in Datasets, p \in Part, b, c \in Col :
       Len(d[p][b]) = Len(d[p][c]) /\ Len(d[p][c]) =< IntMax
  /\ \A cond \in Conditions : Parse[cond] # Error => ComparesColumns(cond)

Names(partitions) == [i \in DOMAIN partitions |-> partitions[i].partition]

\* The rows of a partition whose bit is set in the bitmap of their split.
PickedRows(info) ==
  UNION {{(s - 1) * Rps + j : j \in Set(v.bitmap[<<info.partition, s>>])} : s \in 1..info.splits}

Q == INSTANCE Query WITH
  Conditions <- {cond \in Conditions : ComparesColumns(cond)},
  Tables    <- Datasets,
  Delivered <- Copied,
  table     <- ds,
  on        <- Names(v.partitions),
  columns   <- Columns,
  picked    <- [on |-> Names(filtered),
                rows |-> [i \in DOMAIN filtered |-> PickedRows(filtered[i])],
                nrow |-> v.rows],
  answer    <- outcome

\* Views implement queries: whatever was done before, a filter that returns
\* has picked the rows that satisfy its condition (those the kernels decide),
\* sv_nrow is their number, a partition listed twice counted twice, and a
\* collect on the same partitions delivers their cells of the int and factor
\* columns, split after split with no gap and no overlap, so that a row of
\* the result is a row of the dataset.  What fails has changed nothing.
ImplementsQuery == Q!Spec

-----------------------------------------------------------------------------
(* What the documentation says and the code does not do.                    *)

\* "Collect query ... @return materialized dataframe": every column that was
\* asked for holds the selected cells.  Columns of doubles stay zero.
CollectMaterializes ==
  Fresh /\ "res" \in DOMAIN outcome =>
    \A c \in DOMAIN outcome.res : Readable(<<1, 1>>, c) => Q!Delivers(outcome.res[c], c)

=============================================================================
