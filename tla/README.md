# RScythica in TLA+

RScythica is an R package over *Scythica* datasets: column stores in which a
data frame is cut into partitions (directories named after the partition key)
and every partition into *splits* of `rows_per_split` rows, one binary file per
column and split. C++ code maps the files as R vectors and compares them with
SSE instructions; R code on top of it chooses partitions, filters and collects.

This directory holds TLA+ modules for the parts of the package whose behaviour
can be stated and checked, the TLC configurations that check them on small
instances, and TLAPS proofs of what holds for all instances.

## Inventory

| Part | State | Operations | What makes it correct | Hard because |
|---|---|---|---|---|
| Comparison kernels (`SIntVector`, `SFactorVector`, `SNumericVector`: `select_op_*`) | locals of a call, the output bitmap | `eq lt gt ge le` for three kinds of column | stays in bounds; each row's byte says whether the row satisfies the operator; a refused call changes nothing | two loops (registers and rest) that can disagree |
| `collapse`, `BitVector::popcount` | locals of a call | copy the selected rows | all selected rows, in order, and never past the end | bounded by a count of other bits than the ones it tests |
| `BitVector`, `sindex.R` | bitmaps R code holds | and, or, andnot, not | the operation on the operands as passed; nothing else changes | works in place: output and operands overlap |
| `MapAllocator`, `SColBuffer`, `SdsPartitionCols::split` | mappings, descriptors, headers in the mappings, R vectors | load a split; free it | a vector's bytes and descriptor are its own until it is freed; nothing leaks; what is dropped is freed | R's collector runs inside the load; addresses and descriptors are reused; every step can fail |
| Split geometry (`SDataframe.hpp`, `SDataframe.cpp`) | none | rows in a split, splits of a partition | the splits are the partition | three formulas, 64 and 32 bits, `1:0` in R |
| `sdf_iterator` | partition index, split number | `nextElem` | every split once, in order, then the end | moves before it returns; called again after the end |
| `sview` (`sview.R`) | partitions, columns, bitmaps, counts, row count | `partitions*`, `select`, `filter`, `collect` | a collected row is one row of the dataset that satisfies the condition, and all of them are there | state kept from earlier operations; errors in the middle of loops; cursor arithmetic |
| Filter parser, op generics (`sview.R`, `sop.R`) | the variables of `filter` while it runs | `parse_filter`, `op_*` | the bitmap means the expression that was written, or the call fails for a known reason | operands swapped with the operator; columns become variables of the function; fifteen methods by copying; conversions of the value |
| `SDataframe`, `SdsPartitionCols`, `SdsColumndef` | columns, two name maps | open, look up, key values, `split`, `splitn` | names find their columns whatever was looked up before; a vector is the one that was asked for | lookups insert; columns and keys counted separately; texts cut at separators |
| `sdataframe.R` | none | `[`, `as_data_frame_split`, `sdataframe_key` | names stay with their vectors | columns are left out in the middle of a loop |
| Glue, printing, the writer `sdscreate` | - | - | - | not part of the models |

Calls go down: `sview` and `sop.R` call the kernels, `collapse` and `sindex` on
bitmaps; `sview` and the iterator get their splits from `SDataframe`, which goes
through `SdsPartitionCols` and `SColBuffer` to `MapAllocator`. The only call up
is R's collector calling `MapAllocator::free`. There is one thread; what
interleaves is the collector with a load, and the operations of R code with one
another on bitmaps, views and iterators that keep state.

## Modules

| Module | Models | Source |
|---|---|---|
| `VectorOps` | the comparison kernels as functions: one lane, one tail row, one call (`KernelBit`) | `SIntVector.cpp`, `SFactorVector.cpp`, `SNumericVector.cpp` |
| `SelectKernel` | one kernel call, iteration by iteration | the same |
| `BitBytes` | bytes as sets of bits, popcount | `BitVector.cpp` |
| `Collapse` | one `op_collapse` call, iteration by iteration | `sop.R`, the three `collapse` |
| `SIndex` | logic on bitmaps that R code shares, iteration by iteration | `sindex.R`, `BitVector.cpp` |
| `MapAllocator` | loading, R's collector, freeing | `MapAllocator.cpp`, `SColBuffer.cpp`, `SPartitionCols.cpp` |
| `SplitGeometry` | split arithmetic with 32-bit conversions | `SDataframe.hpp`, `SDataframe.cpp` |
| `SplitWalk` | reading a partition split by split | `SDataframe.cpp`, `sview.R` |
| `SdfIterator` | the iterator and `foreach` | `sdfiter.R` |
| `Selection` | abstract: what a kernel call promises, in one step | the same as `SelectKernel` |
| `FilterParse` | conditions as expression trees: parsing, evaluating, meaning | `sview.R`, `sop.R`, `sindex.R` |
| `FilterFrame` | one `filter` call, statement by statement, with its variables | `sview.R` |
| `SView` | a view: all its operations in any order | `sview.R` |
| `Query` | abstract: what a view promises, with no splits, bitmaps or cursors | the verbs of `sview.R` |
| `Dataframe` | one opened dataset: constructor, names, keys, splits by index, name and text | `SDataframe.cpp`, `SPartitionCols.cpp`, `SdsColumndef.*`, `sdataframe.R` |
| `MC*` | instances for TLC; `MCSplits` runs `SplitWalk` and `SdfIterator` side by side | |
| `SelectKernelProofs`, `MapAllocatorProofs`, `DataframeProofs`, `FilterFrameProofs`, `SViewProofs` | theorems and proofs about the module they are named after | |
| `ConditionProofs` | theorems about `FilterParse`, which those about `FilterFrame` and `SView` rest on | |
| `BitmapProofs` | theorems about `Collapse` and `SIndex` | |
| `SplitProofs` | theorems about `SplitWalk` and `SdfIterator` | |

How they are composed: `FilterParse` extends `VectorOps`, whose `KernelBit` is
what `SelectKernel` is proved to compute (`KernelBitExact`), and `SplitGeometry`,
whose splits `SplitWalk` is proved to be the files; `SView` and `FilterFrame`
extend `FilterParse`. They use pointwise `/\` and `\/` for `sindex_and` and
`sindex_or` and `Selected` for `collapse`, which is what `ResultIsExact` and
`CanonicalIsComplete` show of the bitmaps kernels write (`CanonicalIsKept`).

Two modules state what a component promises, and the detailed one implements it
through a mapping of its variables:

* `SelectKernel` implements `Selection` (`ImplementsSelection`, checked and
  proved): while the loops run nobody sees the bitmap, so the mapping shows the
  caller's old bitmap until the call returns.
* `SView` implements `Query` (`ImplementsQuery`, checked and proved): a query is on a list of
  partitions, a filter picks rows, collect answers with the cells of the picked
  rows. The mapping makes rows of a partition out of the bits of its splits; the
  loops of `filter` and `collect` are stuttering steps. Where the code
  decides a row by something else than the condition (the last partial register,
  values the conversion to int changes, NA), `Sure` leaves the row open, and
  `Delivered` leaves out the columns that `collect` leaves zero.

How state and actions correspond to the code:

* `SelectKernel`: `w`, `i` are the loop counters; `inp` and `outp` are how far
  `vptr128i`/`tail32` and `vout8` have been advanced; `call` is the argument list
  with the alignment of the column. `Reject`/`Accept` are the two early returns,
  `Wave` and `TailStep` one iteration each.
* `Collapse` and `SplitWalk` each share a proof module with another specification,
  and so have names of their own for `Init`, `Next` and `Spec`.
* `Collapse`: `pos` is how far `lvp` and `srcp` have been advanced; `Copy` and
  `Skip` are the branches of the loop, `Count` is the allocation of the result.
* `SIndex`: `heap` are the raw vectors; `call` the locals, `call.out` the vector
  written to, which is the left operand when there is no `.index`. `before` is a
  history of the heap at the start of the call.
* `MapAllocator`: `fds` and `region` are the process's descriptors and
  mappings, `hdr` the `MapAllocator` object at the start of a mapping, `vec` what
  R knows about the vector in it, `call` and `gc` the locals of the load and of
  `free`. One action per system call or R allocation, one for its failure.
  `failed` is a history of the two failures that leak.
* `SplitWalk`: `List` is `partitions_list`, `Read` one `splitn` (one-based in R,
  zero-based in C++). A row count that has become negative in an `int` makes a length
  that `mmap` refuses, which is NULL, unless the header makes up for the rows
  (`HeaderRows`, 32 in the code); then R refuses the vector (`ReadError`).
* `SdfIterator`: `pidx`, `split` are the closure's variables; one action for
  each way through `nextEl`; `yielded` is a history.
* `FilterParse`: `Parse` has one case for each branch of `parse_filter_`,
  `parse_logical` and `parse_operator`, `NamesIn` is `columns_from_filter`; `Eval` is R's
  `eval` in a frame of variables, `Compare` one `op_*` call with its dispatch and
  its conversion of the value. `Truth` is what the expression means and is used
  in properties only.
* `FilterFrame`: `frame` holds the variables of `filter_.sview` and, like the code,
  the loaded columns under their names; one action for each statement or loop
  head. `bitmap` is `.v$bitmap`. `Splitn` is NULL or fails where `splitn` does: a split
  below the first, which `1:splits` has when `splits` is 0, a partition of no rows, for
  which there are no files, a file or levels that are gone (`Lost`), a class that is
  not mapped.
* `SView`: `v` is the R list, `loop` the locals of `filter` or `collect`; one
  iteration over a split is one action; `Fail` is an R error, after which the
  caller has its old view. `filtered` is a history: the partitions the view's
  filter ran over. A split has no file where it has no rows (`HasFile`).
* `Dataframe`: `columns`, `colnameindex`, `keyindex` are the members of the same
  names; `Looked` is `map::operator[]`. One action for each method or R function
  that can be called, `Take` for R code taking the result. A result says which
  file, or which key value, a vector is made of. `status = "undefined"` is
  undefined behaviour.

## Abstractions

* A double is an integer standing for its place in the order, or `NaN`.
  Registers have 4 or 2 lanes, as in the code. `BitBytes` has the register width
  as a constant (16 in the code). The shift-and-add count of one register's mask
  is taken as a count.
* `IntMax` is a constant; conversions wrap modulo `2 * (IntMax + 1)`, which is
  what the compilers the package is built with do.
* `MapAllocator::free` constructs a new object over the header and then reads it.
  The constructor initialises nothing; compiled with g++ at `-O0` to `-O3` it
  stores nothing and both fields are loaded from the mapping, so the model lets
  the header survive.
* R's vector lies between header and data as it does for R versions with a
  40-byte vector header (before 3.5). Newer ones shift the data by 8 bytes,
  which `alloc` does not know; that is arithmetic about R's memory layout and is
  outside the model. So is the shortcut R has for vectors of one element: the
  model takes it that a vector is built by the allocator that was passed.
* The mapping is private and the files are opened for reading only, so what R
  writes over a mapping reaches no file; files have no state in the model.
* In conditions a number is its place in the order in steps of one half: ints are
  even, a fraction lies between two ints. `as<int>` truncates, and gives NA for
  what does not fit. Texts are sequences of symbols, a symbol being one character
  or a run that no tokenizer here cuts.
* `partitions_regex` of a view passes two arguments to a method that has one, and
  so always fails; matching an expression is left out.
* A partition key column is on R's heap, so a kernel may or may not find it
  aligned: that is a nondeterministic choice. So is a number on the left of a
  comparison.
* A column of a view is one of six kinds (int, double, factor, date, int key,
  factor key). Conditions call on columns by name, so that a column called like
  a variable of `filter` is the matter of `FilterFrame` alone.
* `Dataframe` has no descriptors and mappings, `MapAllocator` no names; what a load
  is asked for and how it is mapped do not influence one another. `keyposition_`,
  which nothing reads, is left out.
* What is outside the repository and modelled from its use: the process's
  descriptors, R's collector, R's `:`, `eval` and frames,
  Rcpp's `as<int>`, `foreach`, the directories and files `sdscreate` writes.

## Runs

| Run | Instance | Shows |
|---|---|---|
| `select_kernel` | columns around the register width for every class and operator, bitmaps of the right and other lengths, aligned or not | bounds, exactness in whole registers, exactness of `==`; a call is one step of `Selection`, so refused calls change nothing |
| `collapse` | every bitmap of up to 5 bytes over five kinds of byte, registers of 2 bytes; some columns of other lengths | bounds for all bitmaps; completeness for the ones kernels write |
| `sindex` | three bitmaps, two of 3 bytes and one shorter, registers of 2 bytes, unlimited sequences of calls | in-place results, no other bitmap changed, `0x00`/`0xff` kept |
| `map_allocator` | 3 addresses, 3 descriptors, two files of different lengths and a missing one | ownership, leaks, held columns undisturbed, dropped columns freed |
| `splits` | walk: ints of 5 bits, up to 40 rows, splits of 1 to 6 rows; iterator: every dataset of up to 3 partitions of 0 to 5 rows, splits of 2 | the walk reads the partition, formulas agree; order, completeness but for the last, end |
| `filter` | four partitions (a full split and one more row, half a split, one row, none), one with a file lost, and views on none, every comparison of two operands out of columns, variables and numbers, one to three of them joined, columns of several classes, of dates too, and called like each variable of `filter` alone and in pairs | a filter that returns is exact for every row the kernels decide; the list of reasons for failing is complete |
| `dataframe` | nine schemas (keys in between, a column twice, separators of one and of two characters, `ncols` too small, too large, negative), seven partitions (values with separators in them, empty ones, no numbers; no rows, part of a split, more than one split), unlimited sequences of calls | lookups, key values, vectors and data frames are what was asked for |
| `sview` | three partitions in four splits (bulk and tail, tail only, bulk only, no rows), six columns of all kinds, eight conditions, unlimited sequences of operations | implements `Query`; counts belong to their bitmaps; which errors are possible |

The bounds are small because the behaviours are: a register and a half shows
the passage from vector to tail loop, and two calls show a bitmap, a view or an
address used again. The lengths cover every residue of the register width, zero,
and a whole number of registers. In `splits` row counts pass `IntMax` and
wrap around. A separator of two characters and a value with one of them in it
are enough for a tokenizer to cut in the wrong place, and one pair of columns
for a name to be found twice. The state spaces are finite without further constraints, since
loops are over finite data and histories are of one operation.
`CHECK_DEADLOCK FALSE` stands where a call or an iteration ends for good.

### Where code and documentation differ

Each of these runs checks one sentence of the documentation and ends in a
counterexample.

| Run | The documentation says | The code |
|---|---|---|
| `operator_exact` | `op_gt`: "Greater Than" (`sop.R:12`), "Greater to Value" (`SDataframe.cpp:537`) | the tail loops of all operators compare with `==` |
| `andnot_documented` | "And left and not right" (`sindex.R:105`), "A AND NOT B" (`SDataframe.cpp:577`) | right and not left, which is what `testfilter.R:103-104` expects |
| `iterate_all` | "iterate over all partition and splits" (`sdfiter.R:14`) | the last split of the last partition is not returned |
| `collect_materializes` | "materialized dataframe" (`sview.R:185`) | columns of doubles stay zero |

More differences are in the models and have no run of their own:

* `rowsInSplit` is to return the number of rows of a split (`SDataframe.hpp:95-97`),
  but the 64-bit row count is narrowed to `int` on the way in: for 2^31 rows or
  more it is wrong or negative (`Fits` in `SplitWalk`);
* `collect` fails at a split in which no row was selected, because `rows:nrows`
  counts down (`sview.R:235`; the first reason in `FreshCollectFailures`);
* with no `.index` the `sindex` operations overwrite their left operand, where
  `sindex.R:55` says a new index is allocated (`Output` in `SIndex`; `ResultExact`
  holds of the operands as they were);
* `op_le.integer` and `op_le.factor` fail on every call, though `sop.R:213` gives
  `op_le` on an int column as the example (`Comparable` in `FilterParse`); so
  `x <= 1` and `1 >= x` fail on ints, and so may `vec <= 1` when the column `vec` is of
  doubles, for `filter` loads the next column into `vec`;
* parentheses parse, into a call of the string `"("`, and fail when the condition is
  evaluated (`Logical`, `Unfit`); only the first of several conditions
  counts (`sview.R:249`); unary minus and `==` are not known to the parser;
* `x > 1.5` on an int column is `x > 1`, and NA is selected by `<` (`AsInt`, `Decided`);
* a comparison of two numbers gives a bitmap of one row (`Constants`);
* columns called `rows`, `s`, `p` or `vec` may make `filter` answer wrongly, columns
  called `cols`, `col`, `parsed` or `.v` at worst make it fail (`ReturnsExact`,
  `FailsOnlyFor`);
* `filter` on a view with no partitions fails, for `1:0` counts down (`sview.R:150`), and
  so it does at a partition with no rows and on every column that is not an int, a
  double or a factor: `op_*` has no method for the others (`FailsOnlyFor`);
* `partitions_regex` of a view always fails;
* the key of a partition is cut at every character of the separator, which is
  `-` when the schema does not say: the value of the key of partition
  `Iris-setosa` is `Iris` (`Plain` in `Dataframe`);
* `split` has no upper bound on the column (`Undefined` in `Dataframe`).

The passing properties are stated so that they hold beside these: `BulkExact`
speaks of whole registers, `MissesOnlyTheLast` of all elements but one,
`ImplementsQuery` of the rows that are `Sure` and the columns that are `Delivered`,
`FreshCollectFailures` and `FailsOnlyFor` name the reasons for which a call may
fail.

## Fairness

Two runs check liveness. R runs one function at a time to its return, so the
steps inside a load, a collection and a `foreach` loop are weakly fair
(`WF(LoadStep)`, `WF(GcStep)`, `WF(ForeachStep)`; in `SplitsSpec` a walk, which comes to
an end, may run between two steps of the loop). A collection starts when R
allocates: a session that goes on using the package allocates again and again,
so a collection that is possible again and again starts (`SF(GcStart)`), strong
because it is not possible in between, while a load is in a system call.
Nothing obliges R code to make calls, drop columns or call an iterator after its
end. The loops of kernels, `collapse` and `sindex` count up to a bound fixed
before them; that they end is not checked separately.

## Proofs

Proved with TLAPS for all values of the constants:

* `SelectKernelProofs`: types, bounds, `MatchesKernelBit`, exactness in whole
  registers, the implementation of `Selection` (`Refinement`: the last step of a call
  is `Decide` or `Refuse`, all others stutter), exactness of `==`, soundness of `>=` and `<=`, refused calls. The
  invariant: after `w` registers and `i` rows both pointers are at `w * L + i`, the
  bytes behind it are `KernelBit` of their rows, and the bytes ahead are the
  caller's. `w * L + i` is needed because the bounds follow only from
  `w < N \div L` and `i < N % L`.
* `BitmapProofs`, on `Collapse`: types, bounds, `PrefixOfSelection`, `CanonicalComplete`, for
  any bitmap and register width. The loop has copied as many rows as there are
  non-zero bytes behind it; popcount counts a subset of the non-zero bytes; so
  as long as rows are missing there is a non-zero byte ahead. The lemmas are
  about the number of non-zero bytes in a prefix.
* `BitmapProofs`, on `SIndex`: types, bounds, `ResultExact`, `OthersUntouched`,
  `CanonicalKept`. Behind `pos` the output holds the result, ahead of it what it
  held at the start; so a byte still to be read is an original one even when its
  bitmap is being overwritten. `ResultExact` says in terms of single bits (`Keeps`) what
  each operation is, apart from the two ways in which the loops write it (`WaveByte`,
  `TailByte`).
* `MapAllocatorProofs`: types, ownership, `HeldUndisturbed`,
  `LeaksOnlyOnFailure`, for any files, descriptors and addresses. Ownership is
  not inductive alone: the mapping of a load that has no vector yet and the
  descriptor a `free` is about to close have to be kept apart from the others,
  and the vector being freed has to be collectable.
* `SplitProofs`, on `SplitWalk`: types, `SplitIsItsFile`, `Contiguous`, `WholePartition`,
  `InfoConsistent`, for all row counts an int holds and all split sizes. The number
  of splits is the rounded-up quotient, and `k` splits have read `k * rps` rows or
  all there are.
* `DataframeProofs`: types, `IndexExact`, `KeyValueExact`, `VectorsAreTheirs`,
  `FrameAligned`, for every schema, partition and text looked up. The inductive part
  is `Made`: whenever a call can be made or has been answered, `columns` is what the
  constructor makes of the schema. A lookup only adds names with index 0
  (`Extends`); in the constructor the last of several columns of a name stays. Key
  values come out of a directory's name: `TokensOfJoin` (cutting joined values at the
  separator gives them back, when they hold no separator) and `PiecesOfKey` are by
  induction over the text, `AllAligned` is by induction over the columns.
* `ConditionProofs`: `ParseDef`, `EvalDef`, `NamesDef` and `UnfitDef` show that parsing,
  evaluating, collecting the names and judging a condition are what their recursive
  definitions say, by induction on `Height`. On them rest `EvalRight` (the bits that a
  parsed condition gives are those of the rows for which it is true as it was
  written), `EvalIdeal` (a bitmap that comes out of a frame in which some columns are
  not vectors is the one that comes out of the frame of the vectors) and `EvalBits`
  (when a bitmap comes out). `CallShape` and `FlipHolds` show that turning `5 < x` into
  `x > 5` changes nothing.
* `FilterFrameProofs`: types, `ReturnsExact`, `FailsOnlyFor`, for any columns, data, view
  and condition. None is inductive, for the loops keep their state in the frame that
  the columns are loaded into. The invariant says of every variable of `filter` what it
  holds, or that a column of its name is compared (`Variables`, `Placed`); of a loaded
  column that it is its vector, a text (`col`) or the vector of a later column (`vec`)
  (`Shown`); and, while no column is called `s`, `p` or `vec`, that the bitmaps of the
  splits done are those the columns' own vectors give, counted in `rows` (`Recorded`).
  `ReturnsExact` then follows from `EvalRight` for the frame of the vectors, so the names
  `cols`, `col`, `parsed` and `.v` are harmless to the answer; `FailsOnlyFor` follows from
  `EvalBits`, since without a listed reason the loaded frame is one the condition is
  apt for (`LoadedApt`). Columns may be of every class and have lost their files,
  partitions have up to `IntMax` rows or none, and a view may be on none: a visited split
  of a partition with rows has its file (`SplitHasRows`, `VisitedHasFile`). Not included
  are int partition keys, which may be refused for their alignment (they are in
  `SView`).
* `SViewProofs`: types, `CountsMatchBitmaps`, `FreshCollectFailures`, and that a view
  implements `Query` (`ViewsAreQueries`), for any dataset, condition and order of
  operations. `klen` is never emptied, so the first
  has to hold of the bitmaps and counts a running `filter` has so far as well
  (`Counted`). The invariant for the others is `Kept`: the partial sums of counts that
  `filter` has added up are the positions of the cursor of a `collect` that runs
  over the same splits, so that it cannot leave the result. That such a `collect` finds
  the file of every split in which a row was selected follows from `Exact`, below: a
  bitmap with a bit in it is one of a split with rows.

  For the implementation the invariant has a second half, `Exact`: while `filter`
  runs, the bitmaps it has so far are those its condition gives for their splits
  (`Picking`); afterwards the view's are (`Picked`); and while `collect` runs, the
  cells of the splits behind it are in the result, each where the sum of the counts
  before its split puts it (`Copying`). Four arguments turn this into what `Query`
  says of rows:
  - *conditions* (`LoadedRight`, from `EvalRight`): the bits of a condition are those of
    the rows for which it is true; the rows a kernel leaves open are those `Sure`
    excludes.
  - *splits* (`SplitCells`, `SplitOfRow`, `RowOfSplit`): every row of a partition is in
    one split, and row `j` of split `s` is row `(s - 1) * Rps + j` of the partition.
  - *the walk* (`TodoWalk`, `MarksInOrder`): the splits of the listed partitions come
    in the order of partitions and rows, one partition listed twice coming twice.
    So what the bitmaps mark is what the query has picked (`RowsAreMarks`,
    `FaithfulPicks`), and it has as many rows as the counts add up to (`PickCount`).
  - *places* (`PlaceOfMark`, `NthOfRank`): a marked row has as many picked rows up to it
    as the counts before its split and its rank in its own bitmap say, which is where
    `collapse` and the cursor put its cell (`CollectSplitExact`).

  `SameNamesFresh` is why a `collect` may be trusted after other choices of
  partitions: a list of the same partitions in the same order is the same list, with
  the same splits.
* `SplitProofs`, on `SdfIterator`: types, `StaysStopped`, `YieldsInOrder`, `MissesOnlyTheLast`,
  for datasets of any shape. The iterator remembers its end only by its partition
  index: after the end it is past the last partition (`PastTheEnd`). What it has
  yielded is a prefix of the enumeration of all splits.

Assumptions are those of the modules, each evaluated by a run. Those that say
something about what the program is given: expressions are finite and `&` and `|`
have two operands (`ExprAssumption`, with `Height` the depth of an expression);
partitions are directories, so two of them do not have the same name
(`OneDirectory`); partitions hold the same columns and a user lists numbers as
partitions (`ViewAssumption`); for `ImplementsQuery` also that the columns of a
partition have the same rows, as many as an int can count, and that a condition
compares columns with numbers (`QueryAssumption`; a comparison of two numbers or of
two columns fails or is the matter of `FilterFrame`). Lengths of vectors are the file's only where the row
count of the partition fits an int; the properties say so.

Induction is not taken from the library, whose theorems have an operator as a
parameter that no installed prover instantiates: `NatSetInduction` is about sets of
numbers and follows from the well-foundedness of `<` (`WFMin`). That recursive
definitions have a solution is proved where it is needed.

Every safety property the passing runs check is stated by a theorem. Only
model-checked are the two liveness properties, `GarbageIsFreed` and `ForeachEnds`:
liveness under fairness is beyond the prover.

## Not modelled

* The texts of the YAML schema and of the msgpack files with row counts and
  factor levels, matching of regular expressions: input parsing. A file is there
  or not, and a schema has as many columns as it says or not.
* `makeconfig`, printing, `smake_vector`, module glue: no state.
* The level lookup of `op_eq.factor`: no filter can reach `op_eq`.
* Conditions after the first, which the code does not look at.
* R's vector header (see Abstractions).

## Plan

Built, in this order: kernels and their proofs, collapse, the allocator, split
geometry and walk, iterator, view, bitmap logic; then `FilterParse` and
`FilterFrame`, `Query` and `SView`'s implementation of it, `Selection` and its
proof, `Dataframe`; last the proofs about `Dataframe`, `SView` and `SdfIterator`,
that `SView` implements `Query`, and the proofs about `FilterFrame`.

Next:

1. `Mapping`: the abstract promise of the allocator (a column is available from
   load to drop), implemented by `MapAllocator`.
2. The shift-and-add popcount of a register mask against a count of bits.
