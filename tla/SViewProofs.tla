------------------------------ MODULE SViewProofs ------------------------------
(***************************************************************************)
(* What a view keeps, whatever it has been used for before, and that a     *)
(* view is a query.                                                        *)
(*                                                                         *)
(* Counts and bitmaps of a view belong together: klen is never emptied,    *)
(* so what has to be kept while a filter runs is the same fact about the   *)
(* bitmaps and counts it has so far.  And a collect that follows its       *)
(* filter adds up the same counts, in the same order, as the filter that   *)
(* has sized its result, so its cursor stays inside: the invariant Kept    *)
(* relates the two loops by the partial sums of the counts.  For the sums  *)
(* to be numbers evaluating a condition has to give a bitmap, which is     *)
(* shown by induction on the height of the expression it is parsed from.   *)
(*                                                                         *)
(* The second half of the invariant, Exact, says which rows the bitmaps    *)
(* are of and which cells a collect has copied so far.  It rests on four   *)
(* things shown first: the bitmap of a parsed condition has a bit set      *)
(* exactly where the condition, as it was written, is true (EvalRight);    *)
(* the files of a partition put one after the other are its column         *)
(* (SplitCells, RowOfSplit); the walk of a loop over partitions and        *)
(* splits meets every row once and in order (TodoWalk, MarksInOrder); and  *)
(* the place of a row among the selected ones is the sum of the counts     *)
(* before its split plus its rank in it (PlaceOfMark), which is where the  *)
(* kernel has put it.                                                      *)
(*                                                                         *)
(* With both, every operation of a view is a step of Query or leaves it    *)
(* as it is (ViewsAreQueries).                                             *)
(***************************************************************************)
EXTENDS SView, ConditionProofs

-----------------------------------------------------------------------------
(* Numbers and sequences.                                                   *)

\* sort puts names of the list into the list.
LEMMA SortedNames ==
  ASSUME NEW S \in SUBSET Nat, NEW list \in Seq(S), NEW i \in DOMAIN list
  PROVE  Sorted(list)[i] \in S
  <1> DEFINE U(p) == {j \in DOMAIN list : list[j] =< p}
             C    == {p \in ToSet(list) : Cardinality(U(p)) >= i}
  <1>1. /\ Len(list) \in Nat /\ DOMAIN list = 1..Len(list)
        /\ \A j \in DOMAIN list : list[j] \in S /\ list[j] \in Nat
    BY LenProperties, ElementOfSeq
  <1>2. list \in Seq(Nat) /\ list # <<>>
    BY <1>1, SeqMonotonic, EmptySeq
  <1>3. PICK m \in DOMAIN list : \A j \in DOMAIN list : list[j] =< list[m]
    BY <1>2, LargestOf
  <1>4. Cardinality(U(list[m])) = Len(list)
    <2>1. U(list[m]) = 1..Len(list)
      BY <1>1, <1>3
    <2> HIDE DEF U
    <2>2. \A n \in Nat : Cardinality(1..n) = n
      <3> SUFFICES ASSUME NEW n \in Nat PROVE Cardinality(1..n) = n
        OBVIOUS
      <3>1. Cardinality(1..n) = IF 1 > n THEN 0 ELSE n - 1 + 1
        BY FS_Interval
      <3> QED BY <3>1
    <2> QED BY <1>1, <2>1, <2>2
  <1>5. list[m] \in C
    <2> HIDE DEF U
    <2> QED BY <1>1, <1>4 DEF ToSet
  <1>6. C \subseteq S /\ C \subseteq Nat /\ C # {}
    <2>1. \A p \in ToSet(list) : p \in S /\ p \in Nat
      BY <1>1 DEF ToSet
    <2> QED BY <1>5, <2>1
  <1>7. Sorted(list)[i] = Min(C)
    BY DEF Sorted
  <1> HIDE DEF C
  <1> QED BY <1>6, <1>7, LeastOf

-----------------------------------------------------------------------------
(* The splits of the partitions a view is on.                               *)

\* What partitions_list makes of a list of partitions, as data.
Places == [partition : Part, splits : Int]

\* Row counts and split counts are ints.
LEMMA InfoType ==
  ASSUME NEW list \in Seq(Part), ds \in Datasets
  PROVE  Info(list) \in Seq(Places) /\ Len(Info(list)) = Len(list)
  <1>1. Part \subseteq Nat /\ Rps \in Nat \ {0} /\ Col # {} /\ IntMax \in Nat \ {0}
    BY ViewAssumption, IntMaxAssumption
  <1>2. Len(list) \in Nat /\ DOMAIN list = 1..Len(list)
    BY LenProperties
  <1>3. ASSUME NEW i \in DOMAIN list PROVE Info(list)[i] \in Places
    <2> DEFINE p == Sorted(list)[i]
               c == CHOOSE x \in Col : TRUE
               n == Len(ds[p][c])
    <2>1. p \in Part
      BY <1>1, SortedNames
    <2>2. c \in Col
      BY <1>1
    <2>3. ds[p][c] \in Seq(Cell)
      <3>1. ds \in [Part -> [Col -> Seq(Cell)]]
        BY ViewAssumption
      <3> HIDE DEF p, c
      <3> QED BY <2>1, <2>2, <3>1
    <2>4. n \in Nat
      BY <2>3, LenProperties
    <2>5. Info(list)[i] = [partition |-> p, splits |-> PartitionInfo(n, Rps).splits]
      BY DEF Info
    <2> HIDE DEF p, c, n
    <2>6. PartitionInfo(n, Rps).splits \in Int
      BY <1>1, <2>4 DEF PartitionInfo, PartitionRows, ToInt, Quot
    <2> QED BY <2>1, <2>5, <2>6 DEF Places
  <1>4. Info(list) = [i \in 1..Len(list) |-> Info(list)[i]]
    BY <1>2 DEF Info
  <1> QED BY <1>2, <1>3, <1>4, IsASeq

\* The loops run over a sequence of partitions and split numbers.
LEMMA TodoType ==
  ASSUME NEW info \in Seq(Places)
  PROVE  Todo(info) \in Seq(Part \X Int)
  <1> DEFINE Splits(i) == Colon(1, info[i].splits)
             runs == [i \in DOMAIN info |->
                        [s \in DOMAIN Splits(i) |-> <<info[i].partition, Splits(i)[s]>>]]
  <1>1. Len(info) \in Nat /\ DOMAIN info = 1..Len(info) /\ \A i \in DOMAIN info : info[i] \in Places
    BY LenProperties, ElementOfSeq
  <1>2. ASSUME NEW i \in DOMAIN info PROVE runs[i] \in Seq(Part \X Int)
    <2>1. info[i].partition \in Part /\ info[i].splits \in Int
      BY <1>1 DEF Places
    <2>2. \E n \in Nat : DOMAIN Splits(i) = 1..n
      BY <2>1 DEF Colon
    <2>3. \A s \in DOMAIN Splits(i) : Splits(i)[s] \in Int
      BY <2>1 DEF Colon
    <2> HIDE DEF Splits
    <2>4. \A s \in DOMAIN Splits(i) : <<info[i].partition, Splits(i)[s]>> \in Part \X Int
      BY <2>1, <2>3
    <2>5. PICK n \in Nat : DOMAIN Splits(i) = 1..n
      BY <2>2
    <2> DEFINE run == runs[i]
    <2>6. run = [s \in 1..n |-> run[s]] /\ \A s \in 1..n : run[s] \in Part \X Int
      BY <2>4, <2>5
    <2> HIDE DEF run
    <2>7. run \in Seq(Part \X Int)
      BY <2>6, IsASeq
    <2> QED BY <2>7 DEF run
  <1>3. runs \in Seq(Seq(Part \X Int))
    <2>1. runs = [i \in 1..Len(info) |-> runs[i]]
      BY <1>1
    <2> HIDE DEF runs
    <2> QED BY <1>1, <1>2, <2>1, IsASeq
  <1>4. Todo(info) = FlattenSeq(runs)
    BY DEF Todo
  <1> HIDE DEF runs
  <1>5. PICK f \in [0..Len(runs) -> Seq(Part \X Int)] : FlattenSeq(runs) = f[Len(runs)]
    BY <1>3, Flattened
  <1>6. Len(runs) \in 0..Len(runs)
    BY <1>3, LenProperties
  <1> QED BY <1>4, <1>5, <1>6

-----------------------------------------------------------------------------
(* Counts and bitmaps.                                                      *)

\* The bitmaps of a named list have their counts in another one.
Counted(bitmap, klen) ==
  \A k \in DOMAIN bitmap : k \in DOMAIN klen /\ klen[k] = Count(bitmap[k])

ViewFields == {"partitions", "columns", "bitmap", "klen", "rows"}
LoopFields == {"pc", "cond", "todo", "i", "bitmap", "klen", "rows"}
CollectFields == {"pc", "todo", "i", "cursor", "res"}

\* The view and the locals of the loops are the records they start as.
Shape ==
  /\ v = [f \in ViewFields |-> v[f]]
  /\ loop.pc = "filter" => loop = [f \in LoopFields |-> loop[f]]
  /\ loop.pc = "collect" => loop = [f \in CollectFields |-> loop[f]]

IInv ==
  /\ Shape
  /\ Counted(v.bitmap, v.klen)
  /\ loop.pc = "filter" => Counted(loop.bitmap, loop.klen)

\* Bitmap and count of a split are put in together: filter after evaluating a
\* condition on the split.
LEMMA PutCounted ==
  ASSUME NEW bitmap, NEW klen, NEW k, NEW bits, Counted(bitmap, klen)
  PROVE  Counted(Put(bitmap, k, bits), Record(klen, k, Count(bits)))
BY DEF Counted, Put, Record

\* A view that has never been filtered has no bitmap.
LEMMA InitIInv == Init => IInv
BY DEF Init, IInv, Shape, ViewFields, Counted, Empty, Idle

\* An error leaves the view as it was and ends the loop.
LEMMA FailIInv == IInv /\ Fail => IInv'
BY DEF IInv, Shape, Fail, Idle, Counted

\* Choosing partitions or columns leaves bitmaps and counts alone, which is
\* why they may belong to other partitions than the view is on.
LEMMA ChoosingIInv ==
  ASSUME IInv,
         NEW f \in {"partitions", "columns"}, NEW x,
         v' = [v EXCEPT ![f] = x], loop = Idle, UNCHANGED loop
  PROVE  IInv'
  <1>1. v'.bitmap = v.bitmap /\ v'.klen = v.klen /\ v' = [g \in ViewFields |-> v'[g]]
    BY DEF IInv, Shape, ViewFields
  <1>2. loop'.pc = "idle"
    BY DEF Idle
  <1> QED BY <1>1, <1>2 DEF IInv, Shape, Counted

\* A filter starts with no bitmaps and the counts the view has.
LEMMA FilterIInv ==
  ASSUME IInv, NEW cond, Filter(cond)
  PROVE  IInv'
  <1>1. CASE Fail
    BY <1>1, FailIInv
  <1>2. CASE ~Fail
    <2>1. /\ loop' = [pc |-> "filter", cond |-> cond, todo |-> Todo(v.partitions), i |-> 1,
                      bitmap |-> Empty, klen |-> v.klen, rows |-> StartAt]
          /\ v' = v
      BY <1>2 DEF Filter
    <2>2. loop'.pc = "filter" /\ loop' = [g \in LoopFields |-> loop'[g]]
      BY <2>1 DEF LoopFields
    <2>3. Counted(loop'.bitmap, loop'.klen)
      BY <2>1 DEF Counted, Empty
    <2> QED BY <2>1, <2>2, <2>3 DEF IInv, Shape, Counted
  <1> QED BY <1>1, <1>2

\* One split of a filter: bitmap and count of the split replace what was there.
LEMMA FilterSplitIInv == IInv /\ FilterSplit => IInv'
  <1> SUFFICES ASSUME IInv, FilterSplit PROVE IInv'
    OBVIOUS
  <1> DEFINE k == loop.todo[loop.i]
             b == Eval(Loaded(k), Parse[loop.cond])
  <1>1. CASE Fail
    BY <1>1, FailIInv
  <1>2. CASE ~Fail
    <2>1. /\ loop.pc = "filter" /\ v' = v
          /\ loop' = [loop EXCEPT !.i = @ + 1,
                                  !.bitmap = Put(@, k, b.bits),
                                  !.klen = Record(@, k, Count(b.bits)),
                                  !.rows = @ + Count(b.bits)]
      BY <1>2 DEF FilterSplit
    <2> HIDE DEF k, b
    <2>2. /\ loop'.bitmap = Put(loop.bitmap, k, b.bits)
          /\ loop'.klen = Record(loop.klen, k, Count(b.bits))
          /\ loop'.pc = "filter"
          /\ loop' = [g \in LoopFields |-> loop'[g]]
      BY <2>1 DEF IInv, Shape, LoopFields
    <2>3. Counted(loop'.bitmap, loop'.klen)
      BY <2>1, <2>2, PutCounted DEF IInv
    <2> QED BY <2>1, <2>2, <2>3 DEF IInv, Shape, Counted
  <1> QED BY <1>1, <1>2

\* The end of a filter hands over what its loop has kept.
LEMMA FilterEndIInv == IInv /\ FilterEnd => IInv'
  <1> SUFFICES ASSUME IInv, FilterEnd PROVE IInv'
    OBVIOUS
  <1>1. /\ v'.bitmap = loop.bitmap /\ v'.klen = loop.klen
        /\ v' = [g \in ViewFields |-> v'[g]]
    BY DEF FilterEnd, IInv, Shape, ViewFields
  <1>2. loop.pc = "filter" /\ loop'.pc = "idle"
    BY DEF FilterEnd, Idle
  <1> QED BY <1>1, <1>2 DEF IInv, Shape, Counted

\* collect reads the view.
LEMMA CollectIInv == IInv /\ (Collect \/ CollectSplit \/ CollectEnd) => IInv'
  <1> SUFFICES ASSUME IInv, Collect \/ CollectSplit \/ CollectEnd PROVE IInv'
    OBVIOUS
  <1>1. CASE Fail
    BY <1>1, FailIInv
  <1>2. CASE ~Fail
    <2>1. v' = v
      BY <1>2 DEF Collect, CollectSplit, CollectEnd
    <2>2. CASE Collect
      <3>1. PICK res : loop' = [pc |-> "collect", todo |-> Todo(v.partitions), i |-> 1,
                                cursor |-> 1, res |-> res]
        BY <1>2, <2>2 DEF Collect
      <3>2. loop'.pc = "collect" /\ loop' = [f \in CollectFields |-> loop'[f]]
        BY <3>1 DEF CollectFields
      <3> QED BY <2>1, <3>2 DEF IInv, Shape, Counted
    <2>3. CASE CollectSplit
      <3>1. PICK cursor, res : loop' = [loop EXCEPT !.i = @ + 1, !.cursor = cursor, !.res = res]
        BY <1>2, <2>3 DEF CollectSplit
      <3>2. loop.pc = "collect"
        BY <2>3 DEF CollectSplit
      <3>3. loop'.pc = "collect" /\ loop' = [f \in CollectFields |-> loop'[f]]
        BY <3>1, <3>2 DEF IInv, Shape, CollectFields
      <3> QED BY <2>1, <3>3 DEF IInv, Shape, Counted
    <2>4. CASE CollectEnd
      BY <2>1, <2>4 DEF CollectEnd, IInv, Shape, Counted, Idle
    <2> QED BY <2>2, <2>3, <2>4
  <1> QED BY <1>1, <1>2

\* Every step of the view.
LEMMA NextIInv == IInv /\ [Next]_vars => IInv'
  <1> SUFFICES ASSUME IInv, [Next]_vars PROVE IInv'
    OBVIOUS
  <1>1. CASE Fail
    BY <1>1, FailIInv
  <1>2. ASSUME NEW list, Partitions(list), ~Fail PROVE IInv'
    BY <1>2, ChoosingIInv DEF Partitions
  <1>3. ASSUME NEW p, NEW q, PartitionsRange(p, q) PROVE IInv'
    BY <1>3, ChoosingIInv DEF PartitionsRange
  <1>4. CASE PartitionsRegex
    BY <1>4, FailIInv DEF PartitionsRegex
  <1>5. ASSUME NEW columns, Select(columns) PROVE IInv'
    BY <1>5, ChoosingIInv DEF Select
  <1>6. ASSUME NEW cond, Filter(cond) PROVE IInv'
    BY <1>6, FilterIInv
  <1>7. CASE LoopStep \/ Collect
    BY <1>7, FilterSplitIInv, FilterEndIInv, CollectIInv DEF LoopStep
  <1>8. CASE UNCHANGED vars
    BY <1>8 DEF vars, IInv, Shape, Counted
  <1> QED BY <1>1, <1>2, <1>3, <1>4, <1>5, <1>6, <1>7, <1>8 DEF Next

\* Whatever partitions were chosen and filters run before, and whichever of
\* them failed, every bitmap of a view has its own count in klen: collect
\* never sizes a split by the count of another condition (filter, sview.R).
THEOREM CountsMatch == Spec => []CountsMatchBitmaps
  <1>1. IInv => CountsMatchBitmaps
    BY DEF IInv, Counted, CountsMatchBitmaps
  <1> QED BY <1>1, InitIInv, NextIInv, PTL DEF Spec

-----------------------------------------------------------------------------
(* The sums of the counts.                                                  *)

Key == Part \X Int

\* The columns of a split are vectors, or NULL.
LEMMA LoadedOK ==
  ASSUME ds \in Datasets, NEW k \in Key
  PROVE  \A c \in DOMAIN Loaded(k) : ValueOK(Loaded(k)[c])
  <1> SUFFICES ASSUME NEW c \in Col PROVE ValueOK(Loaded(k)[c])
    BY DEF Loaded
  <1> DEFINE cells == ds[k[1]][c]
             first == (k[2] - 1) * Rps
             n     == RowsInSplit(Len(cells), Rps, k[2] - 1)
  <1>1. k[1] \in Part /\ k[2] \in Int
    BY DEF Key
  <1>2. cells \in Seq(Cell)
    <2>1. ds \in [Part -> [Col -> Seq(Cell)]]
      BY ViewAssumption
    <2> QED BY <1>1, <2>1
  <1>3. Len(cells) \in Nat /\ Rps \in Nat \ {0} /\ IntMax \in Nat \ {0}
    BY <1>2, LenProperties, ViewAssumption, IntMaxAssumption
  <1> HIDE DEF cells
  <1>4. n \in Int
    <2>1. k[2] - 1 \in Int
      BY <1>1
    <2> DEFINE s == k[2] - 1
    <2> HIDE DEF s
    <2> QED BY <1>3, <2>1 DEF RowsInSplit, ToInt, Quot, Rem
  <1>5. first \in Int
    BY <1>1, <1>3
  <1>6. Splitn(k, c) = SubSeq(cells, first + 1, first + n)
    BY DEF Splitn, cells
  <1> HIDE DEF first, n
  <1>7. Numbered(Splitn(k, c))
    <2> DEFINE S == {cells[i] : i \in Int}
               x == SubSeq(cells, first + 1, first + n)
    <2>1. first + 1 \in Int /\ first + n \in Int /\ \A i \in first + 1..first + n : cells[i] \in S
      BY <1>4, <1>5
    <2> HIDE DEF S
    <2>2. x \in Seq(S)
      BY <2>1, SubSeqProperties
    <2> HIDE DEF x
    <2>3. Len(x) \in Nat /\ DOMAIN x = 1..Len(x)
      BY <2>2, LenProperties
    <2> QED BY <1>6, <2>3 DEF Numbered, x
  <1>8. Loaded(k)[c] = IF Readable(k, c) THEN Vec(Class(c), Splitn(k, c)) ELSE Null
    BY DEF Loaded
  <1> QED BY <1>7, <1>8 DEF ValueOK, Vec, Null

\* A bitmap has a count.
LEMMA CountType ==
  ASSUME NEW bits \in Seq(BOOLEAN)
  PROVE  Count(bits) \in Nat
  <1>1. Len(bits) \in Nat /\ DOMAIN bits = 1..Len(bits)
    BY LenProperties
  <1>2. IsFiniteSet(1..Len(bits))
    BY <1>1, FS_Interval
  <1>3. Set(bits) \subseteq 1..Len(bits)
    BY <1>1 DEF Set
  <1>4. IsFiniteSet(Set(bits))
    BY <1>2, <1>3, FS_Subset
  <1> QED BY <1>4, FS_CardinalityType DEF Count

\* The number of rows of a split that a condition selects.
Found(k, cond) == Count(Eval(Loaded(k), Parse[cond]).bits)

\* f[j] is the number of rows selected in the first j splits of todo.
Sums(f, todo, klen, n) ==
  /\ f \in [0..n -> Nat]
  /\ f[0] = 0
  /\ \A j \in 1..n : todo[j] \in DOMAIN klen /\ f[j] = f[j - 1] + klen[todo[j]]
  /\ \A j \in 0..n : f[j] =< f[n]

\* The first n splits of todo have bitmaps, and rows is the sum of their counts.
Covered(bitmap, klen, todo, rows, n) ==
  /\ \A j \in 1..n : todo[j] \in DOMAIN bitmap
  /\ \E f : Sums(f, todo, klen, n) /\ rows = f[n]

\* One more split.
LEMMA SumsExtend ==
  ASSUME NEW n \in Nat, NEW todo, NEW klen, NEW f, Sums(f, todo, klen, n),
         NEW more, NEW k, k = todo[n + 1], NEW m \in Nat,
         k \in DOMAIN more, more[k] = m,
         \A j \in 1..n : todo[j] \in DOMAIN more /\ more[todo[j]] = klen[todo[j]]
  PROVE  \E g : Sums(g, todo, more, n + 1) /\ g[n + 1] = f[n] + m
  <1> DEFINE g == [j \in 0..n + 1 |-> IF j = n + 1 THEN f[n] + m ELSE f[j]]
  <1>1. n \in 0..n /\ n + 1 \in Nat /\ n + 1 \in 0..n + 1 /\ 0 \in 0..n
    OBVIOUS
  <1>2. \A j \in 0..n : f[j] \in Nat /\ f[j] =< f[n]
    BY DEF Sums
  <1>3. \A j \in 0..n + 1 : j = n + 1 \/ (j \in 0..n /\ j # n + 1)
    OBVIOUS
  <1>4. g \in [0..n + 1 -> Nat] /\ g[0] = 0 /\ g[n + 1] = f[n] + m
    BY <1>1, <1>2, <1>3 DEF Sums
  <1>5. \A j \in 0..n + 1 : g[j] =< g[n + 1]
    BY <1>1, <1>2, <1>3
  <1>6. ASSUME NEW j \in 1..n + 1
        PROVE  todo[j] \in DOMAIN more /\ g[j] = g[j - 1] + more[todo[j]]
    <2>1. CASE j = n + 1
      <3>1. g[j - 1] = f[n] /\ g[j] = f[n] + m
        BY <1>1, <2>1
      <3> QED BY <2>1, <3>1
    <2>2. CASE j # n + 1
      <3>1. j \in 1..n /\ j - 1 \in 0..n /\ j \in 0..n + 1 /\ j - 1 \in 0..n + 1 /\ j - 1 # n + 1
        BY <2>2
      <3>2. g[j] = f[j] /\ g[j - 1] = f[j - 1]
        BY <2>2, <3>1
      <3>3. f[j] = f[j - 1] + klen[todo[j]]
        BY <3>1 DEF Sums
      <3> QED BY <3>1, <3>2, <3>3
    <2> QED BY <2>1, <2>2
  <1> HIDE DEF g
  <1> QED BY <1>4, <1>5, <1>6 DEF Sums

\* There is nothing to count before the first split.
LEMMA SumsStart ==
  ASSUME NEW todo, NEW klen
  PROVE  Sums([j \in 0..0 |-> 0], todo, klen, 0)
  BY DEF Sums

-----------------------------------------------------------------------------
(* The inductive invariant.                                                 *)

Counts(klen)  == \A k \in DOMAIN klen : klen[k] \in Nat
BitMaps(bitmap) == \A k \in DOMAIN bitmap : bitmap[k] \in Seq(BOOLEAN)

Types ==
  /\ ds \in Datasets
  /\ v.partitions \in Seq(Places)
  /\ filtered \in Seq(Places)
  /\ v.rows \in Nat
  /\ Counts(v.klen) /\ BitMaps(v.bitmap)
  /\ loop.pc \in {"idle", "filter", "collect"}
  /\ outcome.status \in {"ok", "error"}

\* What a running filter has done: the splits before the i-th have a bitmap,
\* with the count of this condition, and rows is the sum of their counts.
Filtering ==
  loop.pc = "filter" =>
    /\ loop.cond \in Conditions
    /\ loop.todo = Todo(v.partitions)
    /\ loop.i \in 1..Len(loop.todo) + 1
    /\ Counts(loop.klen) /\ BitMaps(loop.bitmap)
    /\ \A k \in DOMAIN loop.bitmap : loop.klen[k] = Found(k, loop.cond)
    /\ Covered(loop.bitmap, loop.klen, loop.todo, loop.rows, loop.i - 1)

\* The same of the view, for the partitions it has been filtered on.
Filtered ==
  filtered # Empty =>
    Covered(v.bitmap, v.klen, Todo(filtered), v.rows, Len(Todo(filtered)))

\* Where a running collect is: behind the rows of the splits before the i-th.
Collecting ==
  loop.pc = "collect" =>
    /\ loop.todo = Todo(v.partitions)
    /\ loop.i \in 1..Len(loop.todo) + 1
    /\ Fresh => \E f : /\ Sums(f, loop.todo, v.klen, Len(loop.todo))
                       /\ v.rows = f[Len(loop.todo)]
                       /\ loop.cursor = f[loop.i - 1] + 1

Kept == IInv /\ Types /\ Filtering /\ Filtered /\ Collecting

\* A view that has just been made keeps the invariant.
LEMMA InitKept == Init => Kept
  <1> SUFFICES ASSUME Init PROVE Kept
    OBVIOUS
  <1>1. Types
    BY EmptySeq DEF Init, Types, Counts, BitMaps, Empty, Idle, Ok
  <1>2. Filtering /\ Filtered /\ Collecting
    BY DEF Init, Filtering, Filtered, Collecting, Idle
  <1> QED BY <1>1, <1>2, InitIInv DEF Kept

\* An error ends the loop and leaves the view and its history.
LEMMA FailKept == Kept /\ Fail => Kept'
  <1> SUFFICES ASSUME Kept, Fail PROVE Kept'
    OBVIOUS
  <1>1. v' = v /\ ds' = ds /\ filtered' = filtered /\ loop'.pc = "idle" /\ outcome'.status = "error"
    BY DEF Fail, Idle, Failed
  <1>2. IInv'
    BY FailIInv DEF Kept
  <1>3. Types'
    BY <1>1 DEF Kept, Types, Counts, BitMaps
  <1>4. Filtering' /\ Collecting'
    BY <1>1 DEF Filtering, Collecting
  <1>5. Filtered'
    BY <1>1 DEF Kept, Filtered, Covered, Sums
  <1> QED BY <1>2, <1>3, <1>4, <1>5 DEF Kept

\* Choosing partitions or columns between the loops.
LEMMA ChoosingKept ==
  ASSUME Kept, IInv',
         v'.bitmap = v.bitmap, v'.klen = v.klen, v'.rows = v.rows,
         v'.partitions \in Seq(Places), outcome' = Ok,
         loop = Idle, UNCHANGED <<ds, loop, filtered>>
  PROVE  Kept'
  <1>1. Types'
    BY DEF Kept, Types, Counts, BitMaps, Ok
  <1>2. Filtering' /\ Collecting'
    BY DEF Filtering, Collecting, Idle
  <1>3. Filtered'
    BY DEF Kept, Filtered, Covered, Sums
  <1> QED BY <1>1, <1>2, <1>3 DEF Kept

\* A filter starts with no bitmap.
LEMMA FilterKept ==
  ASSUME Kept, NEW cond \in Conditions, Filter(cond)
  PROVE  Kept'
  <1>1. CASE Fail
    BY <1>1, FailKept
  <1>2. CASE ~Fail
    <2>1. /\ loop' = [pc |-> "filter", cond |-> cond, todo |-> Todo(v.partitions), i |-> 1,
                      bitmap |-> Empty, klen |-> v.klen, rows |-> StartAt]
          /\ v' = v /\ ds' = ds /\ filtered' = filtered /\ outcome' = outcome
      BY <1>2 DEF Filter
    <2>2. IInv'
      BY FilterIInv DEF Kept
    <2>3. Types'
      BY <2>1 DEF Kept, Types, Counts, BitMaps
    <2>4. Filtered' /\ Collecting'
      BY <2>1 DEF Kept, Filtered, Collecting, Covered, Sums
    <2>5. Filtering'
      <3>1. Len(Todo(v.partitions)) \in Nat
        BY TodoType, LenProperties DEF Kept, Types
      <3>2. Counts(loop'.klen) /\ BitMaps(loop'.bitmap)
        BY <2>1 DEF Kept, Types, Counts, BitMaps, Empty
      <3>3. Covered(Empty, v.klen, Todo(v.partitions), 0, 0)
        <4> DEFINE f == [j \in 0..0 |-> 0]
        <4>1. f[0] = 0
          OBVIOUS
        <4>2. Sums(f, Todo(v.partitions), v.klen, 0)
          BY SumsStart
        <4> HIDE DEF f
        <4> QED BY <4>1, <4>2 DEF Covered
      <3>4. Covered(loop'.bitmap, loop'.klen, loop'.todo, loop'.rows, loop'.i - 1)
        BY <2>1, <3>3 DEF StartAt
      <3>5. \A k \in DOMAIN loop'.bitmap : loop'.klen[k] = Found(k, loop.cond)'
        BY <2>1 DEF Empty
      <3>6. Todo(v.partitions)' = Todo(v.partitions)
        BY <2>1
      <3> QED BY <2>1, <3>1, <3>2, <3>4, <3>5, <3>6 DEF Filtering, Covered, Sums, Counts, BitMaps
    <2> QED BY <2>2, <2>3, <2>4, <2>5 DEF Kept
  <1> QED BY <1>1, <1>2

\* One split of a filter.
LEMMA FilterSplitKept == Kept /\ FilterSplit => Kept'
  <1> SUFFICES ASSUME Kept, FilterSplit PROVE Kept'
    OBVIOUS
  <1> DEFINE k == loop.todo[loop.i]
             b == Eval(Loaded(k), Parse[loop.cond])
             n == loop.i - 1
             m == Count(b.bits)
  <1>1. CASE Fail
    BY <1>1, FailKept
  <1>2. CASE ~Fail
    <2>0. IInv'
      BY FilterSplitIInv DEF Kept
    <2>1. /\ loop.pc = "filter" /\ loop.i =< Len(loop.todo) /\ b.is = "bits"
          /\ v' = v /\ ds' = ds /\ filtered' = filtered /\ outcome' = outcome
          /\ loop' = [loop EXCEPT !.i = @ + 1,
                                  !.bitmap = Put(@, k, b.bits),
                                  !.klen = Record(@, k, m),
                                  !.rows = @ + m]
      BY <1>2 DEF FilterSplit
    <2> HIDE DEF b
    <2>2. /\ loop'.i = loop.i + 1 /\ loop'.cond = loop.cond /\ loop'.todo = loop.todo
          /\ loop'.bitmap = Put(loop.bitmap, k, b.bits)
          /\ loop'.klen = Put(loop.klen, k, m)
          /\ loop'.rows = loop.rows + m
          /\ loop'.pc = "filter"
      BY <2>1 DEF Kept, IInv, Shape, LoopFields, Record
    <2>3. /\ loop.cond \in Conditions /\ loop.cond \in Expr
          /\ loop.todo = Todo(v.partitions) /\ loop.todo \in Seq(Key)
          /\ loop.i \in 1..Len(loop.todo) /\ Len(loop.todo) \in Nat
      <3>1. Todo(v.partitions) \in Seq(Key)
        BY TodoType DEF Kept, Types, Key
      <3>2. loop.i \in 1..Len(loop.todo) + 1 /\ loop.todo = Todo(v.partitions)
            /\ loop.cond \in Conditions
        BY <2>1 DEF Kept, Filtering
      <3>3. Len(loop.todo) \in Nat
        BY <3>1, <3>2, LenProperties
      <3> QED BY <2>1, <3>1, <3>2, <3>3, ViewAssumption
    <2>4. k \in Key
      BY <2>3, LenProperties, ElementOfSeq
    <2>5. n \in Nat /\ n + 1 = loop.i /\ loop'.i - 1 = n + 1 /\ loop'.i \in 1..Len(loop'.todo) + 1
      BY <2>2, <2>3
    <2> HIDE DEF k, n, m
    <2>6. b.bits \in Seq(BOOLEAN) /\ m \in Nat
      <3>1. ValueOK(b)
        BY <2>3, <2>4, LoadedOK, EvalOK DEF b, Kept, Types
      <3>2. b.bits \in Seq(BOOLEAN)
        BY <2>1, <3>1 DEF ValueOK
      <3> QED BY <3>2, CountType DEF m
    <2>7. m = Found(k, loop.cond)
      BY DEF m, b, Found
    <2>8. Counts(loop'.klen) /\ BitMaps(loop'.bitmap)
      BY <2>1, <2>2, <2>6 DEF Kept, Filtering, Counts, BitMaps, Put
    <2>9. /\ DOMAIN loop'.bitmap = DOMAIN loop.bitmap \cup {k}
          /\ DOMAIN loop'.klen = DOMAIN loop.klen \cup {k}
          /\ loop'.klen[k] = m
          /\ \A x \in DOMAIN loop.klen : x # k => loop'.klen[x] = loop.klen[x]
      BY <2>2 DEF Put
    <2>10. \A x \in DOMAIN loop.bitmap : x \in DOMAIN loop.klen /\ loop.klen[x] = Found(x, loop.cond)
      BY <2>1 DEF Kept, IInv, Counted, Filtering
    <2>11. \A x \in DOMAIN loop'.bitmap : loop'.klen[x] = Found(x, loop.cond)
      BY <2>7, <2>9, <2>10
    <2>12. Covered(loop.bitmap, loop.klen, loop.todo, loop.rows, n)
      BY <2>1 DEF Kept, Filtering, n
    <2>13. Covered(loop'.bitmap, loop'.klen, loop.todo, loop'.rows, n + 1)
      <3>1. PICK f : Sums(f, loop.todo, loop.klen, n) /\ loop.rows = f[n]
        BY <2>12 DEF Covered
      <3>2. k = loop.todo[n + 1]
        BY <2>5 DEF k
      <3>3. \A j \in 1..n : loop.todo[j] \in DOMAIN loop.bitmap
        BY <2>12 DEF Covered
      <3>4. \A j \in 1..n : /\ loop.todo[j] \in DOMAIN loop'.klen
                            /\ loop'.klen[loop.todo[j]] = loop.klen[loop.todo[j]]
        BY <2>7, <2>9, <2>10, <3>3
      <3>5. \E g : Sums(g, loop.todo, loop'.klen, n + 1) /\ g[n + 1] = f[n] + m
        BY <2>5, <2>6, <2>9, <3>1, <3>2, <3>4, SumsExtend
      <3>6. \A j \in 1..n + 1 : j \in 1..n \/ j = n + 1
        BY <2>5
      <3>7. \A j \in 1..n + 1 : loop.todo[j] \in DOMAIN loop'.bitmap
        BY <2>9, <3>2, <3>3, <3>6
      <3> QED BY <2>2, <3>1, <3>5, <3>7 DEF Covered
    <2>14. Filtering'
      <3>1. \A x : Found(x, loop.cond)' = Found(x, loop.cond)
        BY <2>1, <2>2 DEF Found, Loaded, Readable, HasFile, Splitn
      <3>2. \A x \in DOMAIN loop'.bitmap : loop'.klen[x] = Found(x, loop.cond)'
        BY <2>11, <3>1
      <3>3. Todo(v.partitions)' = Todo(v.partitions)
        BY <2>1
      <3>4. Covered(loop'.bitmap, loop'.klen, loop'.todo, loop'.rows, loop'.i - 1)
        BY <2>2, <2>5, <2>13
      <3> QED BY <2>2, <2>3, <2>5, <2>8, <3>2, <3>3, <3>4
              DEF Filtering, Covered, Sums, Counts, BitMaps
    <2>15. Types'
      BY <2>1, <2>2 DEF Kept, Types, Counts, BitMaps
    <2>16. Filtered'
      BY <2>1 DEF Kept, Filtered, Covered, Sums
    <2>17. Collecting'
      BY <2>2 DEF Collecting
    <2> QED BY <2>0, <2>14, <2>15, <2>16, <2>17 DEF Kept
  <1> QED BY <1>1, <1>2

\* The end of a filter: its loop has been through all splits.
LEMMA FilterEndKept == Kept /\ FilterEnd => Kept'
  <1> SUFFICES ASSUME Kept, FilterEnd PROVE Kept'
    OBVIOUS
  <1> DEFINE todo == Todo(v.partitions)
  <1>1. /\ v'.bitmap = loop.bitmap /\ v'.klen = loop.klen /\ v'.rows = loop.rows
        /\ v'.partitions = v.partitions
        /\ filtered' = v.partitions /\ ds' = ds /\ loop'.pc = "idle" /\ outcome' = Ok
        /\ loop.pc = "filter" /\ loop.i > Len(loop.todo)
    BY DEF FilterEnd, Kept, IInv, Shape, ViewFields, Idle
  <1>2. IInv'
    BY FilterEndIInv DEF Kept
  <1>3. Len(todo) \in Nat
    BY TodoType, LenProperties DEF Kept, Types
  <1>4. /\ loop.todo = todo /\ loop.i \in 1..Len(todo) + 1
        /\ Counts(loop.klen) /\ BitMaps(loop.bitmap)
        /\ Covered(loop.bitmap, loop.klen, todo, loop.rows, loop.i - 1)
    BY <1>1 DEF Kept, Filtering
  <1> HIDE DEF todo
  <1>5. loop.i - 1 = Len(todo)
    BY <1>1, <1>3, <1>4
  <1>6. Covered(loop.bitmap, loop.klen, todo, loop.rows, Len(todo))
    BY <1>4, <1>5
  <1>7. loop.rows \in Nat
    <2>1. PICK f : Sums(f, todo, loop.klen, Len(todo)) /\ loop.rows = f[Len(todo)]
      BY <1>6 DEF Covered
    <2> QED BY <1>3, <2>1 DEF Sums
  <1>8. Types'
    BY <1>1, <1>4, <1>7 DEF Kept, Types, Ok
  <1>9. Filtering' /\ Collecting'
    BY <1>1 DEF Filtering, Collecting
  <1>10. Todo(filtered)' = todo
    BY <1>1 DEF todo
  <1>11. Filtered'
    BY <1>1, <1>6, <1>10 DEF Filtered
  <1> QED BY <1>2, <1>8, <1>9, <1>11 DEF Kept

\* A list of partitions is chosen.
LEMMA PartitionsKept ==
  ASSUME Kept, IInv', NEW list \in Lists, Partitions(list)
  PROVE  Kept'
  <1>1. CASE Fail
    BY <1>1, FailKept
  <1>2. CASE ~Fail
    <2>1. /\ ToSet(list) \subseteq Part
          /\ v' = [v EXCEPT !.partitions = Info(list)]
          /\ loop = Idle /\ outcome' = Ok /\ UNCHANGED <<ds, loop, filtered>>
      BY <1>2 DEF Partitions
    <2>2. list \in Seq(Nat) /\ Len(list) \in Nat /\ DOMAIN list = 1..Len(list)
      BY ViewAssumption, LenProperties
    <2>3. list \in Seq(Part)
      <3>1. list = [i \in 1..Len(list) |-> list[i]]
        BY <2>2
      <3>2. \A i \in 1..Len(list) : list[i] \in Part
        BY <2>1, <2>2 DEF ToSet
      <3> QED BY <2>2, <3>1, <3>2, IsASeq
    <2>4. Info(list) \in Seq(Places)
      BY <2>3, InfoType DEF Kept, Types
    <2>5. /\ v'.bitmap = v.bitmap /\ v'.klen = v.klen /\ v'.rows = v.rows
          /\ v'.partitions = Info(list)
      BY <2>1 DEF Kept, IInv, Shape, ViewFields
    <2> QED BY <2>1, <2>4, <2>5, ChoosingKept
  <1> QED BY <1>1, <1>2

\* A range of partitions is chosen.
LEMMA PartitionsRangeKept ==
  ASSUME Kept, IInv', NEW p \in Part, NEW q \in Part, PartitionsRange(p, q)
  PROVE  Kept'
  <1> DEFINE S    == {x \in Part : p =< x /\ x =< q}
             list == SetToSeq(S)
  <1>1. IsFiniteSet(S) /\ S \subseteq Part
    BY ViewAssumption, FS_Subset
  <1>2. v' = [v EXCEPT !.partitions = Info(list)]
        /\ loop = Idle /\ outcome' = Ok /\ UNCHANGED <<ds, loop, filtered>>
    BY DEF PartitionsRange
  <1>3. list \in Seq(Part)
    <2> HIDE DEF S
    <2> DEFINE n == Cardinality(S)
    <2>1. n \in Nat /\ ExistsBijection(1..n, S)
      BY <1>1, FS_CardinalityType
    <2>2. PICK f \in [1..n -> S] : \A a, b \in 1..n : f[a] = f[b] => a = b
      BY <2>1 DEF ExistsBijection, Bijection, Injection, Surjection, IsInjective
    <2>3. list \in [1..n -> S]
      <3>1. \E g \in [1..n -> S] : IsInjective(g)
        BY <2>2 DEF IsInjective
      <3> QED BY <3>1 DEF SetToSeq
    <2> HIDE DEF list, n
    <2>4. list = [i \in 1..n |-> list[i]] /\ \A i \in 1..n : list[i] \in Part
      BY <1>1, <2>3
    <2> QED BY <2>1, <2>4, IsASeq
  <1> HIDE DEF list
  <1>4. Info(list) \in Seq(Places)
    BY <1>3, InfoType DEF Kept, Types
  <1>5. /\ v'.bitmap = v.bitmap /\ v'.klen = v.klen /\ v'.rows = v.rows
        /\ v'.partitions = Info(list)
    BY <1>2 DEF Kept, IInv, Shape, ViewFields
  <1> QED BY <1>2, <1>4, <1>5, ChoosingKept

\* Columns are chosen.
LEMMA SelectKept ==
  ASSUME Kept, IInv', NEW columns, Select(columns)
  PROVE  Kept'
  <1>1. /\ v'.bitmap = v.bitmap /\ v'.klen = v.klen /\ v'.rows = v.rows
        /\ v'.partitions = v.partitions
    BY DEF Select, Kept, IInv, Shape, ViewFields
  <1>2. v'.partitions \in Seq(Places)
    BY <1>1 DEF Kept, Types
  <1> QED BY <1>1, <1>2, ChoosingKept DEF Select

\* A collect starts at the first row.
LEMMA CollectKept == Kept /\ Collect => Kept'
  <1> SUFFICES ASSUME Kept, Collect PROVE Kept'
    OBVIOUS
  <1> DEFINE todo == Todo(v.partitions)
  <1>1. CASE Fail
    BY <1>1, FailKept
  <1>2. CASE ~Fail
    <2>1. PICK res : loop' = [pc |-> "collect", todo |-> todo, i |-> 1, cursor |-> 1, res |-> res]
      BY <1>2 DEF Collect
    <2>2. v' = v /\ ds' = ds /\ filtered' = filtered /\ outcome' = outcome
      BY <1>2 DEF Collect
    <2>3. IInv'
      BY CollectIInv DEF Kept
    <2>4. Types' /\ Filtering' /\ Filtered'
      BY <2>1, <2>2 DEF Kept, Types, Counts, BitMaps, Filtering, Filtered, Covered, Sums
    <2>5. Len(todo) \in Nat
      BY TodoType, LenProperties DEF Kept, Types
    <2>6. todo' = todo
      BY <2>2
    <2>7. Fresh => \E f : Sums(f, todo, v.klen, Len(todo)) /\ v.rows = f[Len(todo)] /\ 1 = f[0] + 1
      <3> SUFFICES ASSUME Fresh
                   PROVE  \E f : Sums(f, todo, v.klen, Len(todo)) /\ v.rows = f[Len(todo)] /\ 1 = f[0] + 1
        OBVIOUS
      <3>1. Covered(v.bitmap, v.klen, todo, v.rows, Len(todo))
        BY DEF Kept, Filtered, Fresh
      <3>2. PICK f : Sums(f, todo, v.klen, Len(todo)) /\ v.rows = f[Len(todo)]
        BY <3>1 DEF Covered
      <3>3. f[0] = 0
        BY <3>2 DEF Sums
      <3> QED BY <3>2, <3>3
    <2>8. Fresh' = Fresh
      BY <2>2 DEF Fresh
    <2> HIDE DEF todo
    <2>9. Collecting'
      <3>1. loop'.todo = todo /\ loop'.i = 1 /\ loop'.cursor = 1 /\ loop'.i \in 1..Len(loop'.todo) + 1
        BY <2>1, <2>5
      <3>2. Todo(v.partitions)' = todo
        BY <2>6 DEF todo
      <3>3. Fresh' => \E f : Sums(f, loop'.todo, v'.klen, Len(loop'.todo))
                           /\ v'.rows = f[Len(loop'.todo)] /\ loop'.cursor = f[loop'.i - 1] + 1
        BY <2>2, <2>7, <2>8, <3>1
      <3> QED BY <3>1, <3>2, <3>3 DEF Collecting, Sums
    <2> QED BY <2>3, <2>4, <2>9 DEF Kept
  <1> QED BY <1>1, <1>2

\* One split of a collect: the cursor moves on by its count.
LEMMA CollectSplitKept == Kept /\ CollectSplit => Kept'
  <1> SUFFICES ASSUME Kept, CollectSplit PROVE Kept'
    OBVIOUS
  <1> DEFINE k == loop.todo[loop.i]
             todo == Todo(v.partitions)
  <1>1. CASE Fail
    BY <1>1, FailKept
  <1>2. CASE ~Fail
    <2>1. PICK res : loop' = [loop EXCEPT !.i = @ + 1, !.cursor = Nrows(k) + 1, !.res = res]
      BY <1>2 DEF CollectSplit
    <2>2. /\ v' = v /\ ds' = ds /\ filtered' = filtered /\ outcome' = outcome
          /\ loop.pc = "collect" /\ loop.i =< Len(loop.todo)
      BY <1>2 DEF CollectSplit
    <2>3. IInv'
      BY CollectIInv DEF Kept
    <2>4. /\ loop'.pc = "collect" /\ loop'.todo = loop.todo /\ loop'.i = loop.i + 1
          /\ loop'.cursor = Nrows(k) + 1
      BY <2>1, <2>2 DEF Kept, IInv, Shape, CollectFields
    <2>5. Types' /\ Filtering' /\ Filtered'
      BY <2>2, <2>4 DEF Kept, Types, Counts, BitMaps, Filtering, Filtered, Covered, Sums
    <2>6. Len(todo) \in Nat
      BY TodoType, LenProperties DEF Kept, Types
    <2>7. loop.todo = todo /\ loop.i \in 1..Len(todo)
      BY <2>2, <2>6 DEF Kept, Collecting
    <2>8. Todo(v.partitions)' = todo
      BY <2>2
    <2> HIDE DEF todo, k
    <2>9. Fresh => \E f : /\ Sums(f, todo, v.klen, Len(todo)) /\ v.rows = f[Len(todo)]
                          /\ loop'.cursor = f[loop.i] + 1
      <3> SUFFICES ASSUME Fresh
                   PROVE  \E f : /\ Sums(f, todo, v.klen, Len(todo)) /\ v.rows = f[Len(todo)]
                                 /\ loop'.cursor = f[loop.i] + 1
        OBVIOUS
      <3>1. PICK f : /\ Sums(f, todo, v.klen, Len(todo)) /\ v.rows = f[Len(todo)]
                     /\ loop.cursor = f[loop.i - 1] + 1
        BY <2>2, <2>7 DEF Kept, Collecting
      <3>2. k \in DOMAIN v.klen /\ f[loop.i] = f[loop.i - 1] + v.klen[k]
        BY <2>7, <3>1 DEF Sums, k
      <3>3. v.klen[k] \in Nat
        BY <3>2 DEF Kept, Types, Counts
      <3>4. f[loop.i - 1] \in Nat
        <4>1. loop.i - 1 \in 0..Len(todo)
          BY <2>6, <2>7
        <4> QED BY <3>1, <4>1 DEF Sums
      <3>5. loop'.cursor = f[loop.i] + 1
        BY <2>4, <3>1, <3>2, <3>3, <3>4 DEF Nrows, Klen
      <3> QED BY <3>1, <3>5
    <2>10. Fresh' = Fresh
      BY <2>2 DEF Fresh
    <2>11. Collecting'
      <3>1. loop'.todo = todo /\ loop'.i \in 1..Len(todo) + 1 /\ loop'.i - 1 = loop.i
        BY <2>4, <2>6, <2>7
      <3>2. Fresh' => \E f : /\ Sums(f, loop'.todo, v'.klen, Len(loop'.todo))
                             /\ v'.rows = f[Len(loop'.todo)] /\ loop'.cursor = f[loop'.i - 1] + 1
        BY <2>2, <2>9, <2>10, <3>1
      <3> QED BY <2>8, <3>1, <3>2 DEF Collecting, Sums
    <2> QED BY <2>3, <2>5, <2>11 DEF Kept
  <1> QED BY <1>1, <1>2

\* The end of a collect hands over the result.
LEMMA CollectEndKept == Kept /\ CollectEnd => Kept'
  <1> SUFFICES ASSUME Kept, CollectEnd PROVE Kept'
    OBVIOUS
  <1>1. /\ v' = v /\ ds' = ds /\ filtered' = filtered /\ loop'.pc = "idle"
        /\ outcome'.status = "ok"
    BY DEF CollectEnd, Idle
  <1>2. IInv'
    BY CollectIInv DEF Kept
  <1>3. Types' /\ Filtering' /\ Filtered' /\ Collecting'
    BY <1>1 DEF Kept, Types, Counts, BitMaps, Filtering, Filtered, Collecting, Covered, Sums
  <1> QED BY <1>2, <1>3 DEF Kept

\* Every step of the view.
LEMMA NextKept == Kept /\ [Next]_vars => Kept'
  <1> SUFFICES ASSUME Kept, [Next]_vars PROVE Kept'
    OBVIOUS
  <1>0. IInv'
    BY NextIInv DEF Kept
  <1>1. ASSUME NEW list \in Lists, Partitions(list) PROVE Kept'
    BY <1>0, <1>1, PartitionsKept
  <1>2. ASSUME NEW p \in Part, NEW q \in Part, PartitionsRange(p, q) PROVE Kept'
    BY <1>0, <1>2, PartitionsRangeKept
  <1>3. CASE PartitionsRegex
    BY <1>3, FailKept DEF PartitionsRegex
  <1>4. ASSUME NEW columns, Select(columns) PROVE Kept'
    BY <1>0, <1>4, SelectKept
  <1>5. ASSUME NEW cond \in Conditions, Filter(cond) PROVE Kept'
    BY <1>5, FilterKept
  <1>6. CASE LoopStep \/ Collect
    BY <1>6, FilterSplitKept, FilterEndKept, CollectKept, CollectSplitKept, CollectEndKept
       DEF LoopStep
  <1>7. CASE UNCHANGED vars
    <2>1. /\ v' = v /\ ds' = ds /\ filtered' = filtered /\ loop' = loop /\ outcome' = outcome
      BY <1>7 DEF vars
    <2>2. Types' /\ Filtered' /\ Collecting'
      BY <2>1 DEF Kept, Types, Counts, BitMaps, Filtered, Collecting, Covered, Sums, Fresh
    <2>3. \A x : Found(x, loop.cond)' = Found(x, loop.cond)
      BY <2>1 DEF Found, Loaded, Readable, HasFile, Splitn
    <2>4. Filtering'
      BY <2>1, <2>3 DEF Kept, Filtering, Counts, BitMaps, Covered, Sums
    <2> QED BY <1>0, <2>2, <2>4 DEF Kept
  <1> QED BY <1>1, <1>2, <1>3, <1>4, <1>5, <1>6, <1>7 DEF Next

\* The invariant holds in every state the views of a session reach.
LEMMA Invariance == Spec => []Kept
  <1> QED BY InitKept, NextKept, PTL DEF Spec

\* Counts and bitmaps have their types, and a view is on partitions that exist.
THEOREM TypeCorrect == Spec => []TypeOK
  <1>1. Kept => TypeOK
    <2> SUFFICES ASSUME Kept PROVE TypeOK
      OBVIOUS
    <2>1. \A i \in DOMAIN v.partitions : v.partitions[i].partition \in Part
      <3>1. \A i \in DOMAIN v.partitions : v.partitions[i] \in Places
        BY LenProperties, ElementOfSeq DEF Kept, Types
      <3> QED BY <3>1 DEF Places
    <2> QED BY <2>1 DEF Kept, Types, Counts, BitMaps, TypeOK
  <1> QED BY <1>1, Invariance, PTL

-----------------------------------------------------------------------------
(* The bitmap of a condition.                                               *)

\* The columns of split k.
Classes  == [c \in Col |-> Class(c)]
Cells(k) == [c \in Col |-> Splitn(k, c)]

\* Every comparison is of a column with a number.
Simple(t) == \A a \in Comparisons[t] : a.args[1].is = "name" /\ a.args[2].is = "const"

\* A bitmap that a condition gives for a split selects, among the rows it
\* decides, those that satisfy it.
LEMMA LoadedRight ==
  ASSUME ds \in Datasets, NEW k \in Key, NEW cond \in Expr, Simple(Parse[cond]),
         NEW b, b = Eval(Loaded(k), Parse[cond]), b.is = "bits"
  PROVE  /\ BitsMean(Classes, Cells(k), cond, Parse[cond], b.bits)
         /\ BitsCover(Loaded(k), Cells(k), Col, Parse[cond], b.bits)
  <1>1. Shows(Loaded(k), Classes, Cells(k), Col)
    <2> SUFFICES ASSUME NEW c \in Col
                 PROVE  /\ c \in DOMAIN Loaded(k) /\ Loaded(k)[c].is # "bits"
                        /\ Loaded(k)[c].is = "vec" => Loaded(k)[c] = Vec(Classes[c], Cells(k)[c])
      BY DEF Shows
    <2>1. Classes[c] = Class(c) /\ Cells(k)[c] = Splitn(k, c)
      BY DEF Classes, Cells
    <2>2. c \in DOMAIN Loaded(k) /\ Loaded(k)[c] = IF Readable(k, c) THEN Vec(Class(c), Splitn(k, c)) ELSE Null
      BY DEF Loaded
    <2> QED BY <2>1, <2>2 DEF Vec, Null
  <1>2. \A c \in DOMAIN Loaded(k) : ValueOK(Loaded(k)[c])
    BY LoadedOK
  <1>3. Legal(Cells(k), Col, Parse[cond])
    <2>1. NamesIn[Parse[cond]] \in Seq(Col)
      BY NamesDef
    <2>2. NamesWithin(Parse[cond], Col)
      <3> DEFINE names == NamesIn[Parse[cond]]
      <3> HIDE DEF names
      <3>1. \A i \in DOMAIN names : names[i] \in Col
        BY <2>1, LenProperties, ElementOfSeq DEF names
      <3>2. ToSet(names) \subseteq Col
        BY <3>1 DEF ToSet
      <3> QED BY <3>2 DEF NamesWithin, names
    <2> QED BY <2>2 DEF Legal, Simple
  <1>4. Right(Loaded(k), Classes, Cells(k), Col, cond)
    BY <1>1, <1>2, EvalRight
  <1> QED BY <1>3, <1>4 DEF Right

-----------------------------------------------------------------------------
(* The rows of a split.                                                     *)

\* What integer division does to natural numbers.
LEMMA Division ==
  ASSUME NEW a \in Nat, NEW d \in Nat \ {0}
  PROVE  /\ a \div d \in Nat
         /\ d * (a \div d) =< a
         /\ a < d * (a \div d) + d
         /\ d * (a \div d) \in Nat
OBVIOUS

\* A count that fits is not changed by the conversion.
LEMMA ToIntFits ==
  ASSUME NEW x \in Int, -IntMax =< x, x =< IntMax
  PROVE  ToInt(x) = x
  <1>1. IntMax \in Nat \ {0}
    BY IntMaxAssumption
  <1>2. x + IntMax + 1 \in 0..(2 * (IntMax + 1) - 1)
    BY <1>1
  <1>3. \A m \in Nat, y \in Nat : y < m => y % m = y
    OBVIOUS
  <1>4. (x + IntMax + 1) % (2 * (IntMax + 1)) = x + IntMax + 1
    BY <1>1, <1>2, <1>3
  <1>5. QED
    BY <1>1, <1>4 DEF ToInt

\* Split numbers on either side of a row count.
LEMMA Multiples ==
  ASSUME NEW d \in Nat \ {0}, NEW s \in Nat, NEW t \in Nat
  PROVE  /\ s < t => d * s + d =< d * t
         /\ s =< t => d * s =< d * t
         /\ d * (s + 1) = d * s + d
         /\ d * s \in Nat
         /\ s * d = d * s
OBVIOUS

\* The rows of a split that are counted are those of its file, if rows fit an int.
LEMMA RowsInSplitIsFile ==
  ASSUME NEW m \in Nat, m =< IntMax, NEW d \in Nat \ {0}, NEW s \in Nat
  PROVE  RowsInSplit(m, d, s) = FileRows(m, d, s)
  <1> DEFINE q == m \div d
  <1>1. /\ q \in Nat /\ d * q =< m /\ m < d * q + d /\ d * q \in Nat
    BY Division
  <1>2. ToInt(m) = m
    BY ToIntFits, IntMaxAssumption
  <1>3. Quot(m, d) = q /\ Rem(m, d) = m - d * q
    BY DEF Quot, Rem
  <1>4. RowsInSplit(m, d, s) = IF s > q THEN 0 ELSE IF s = q THEN m - d * q ELSE d
    BY <1>2, <1>3 DEF RowsInSplit
  <1> HIDE DEF q
  <1>5. s * d = d * s /\ (s + 1) * d = d * s + d /\ d * s \in Nat
    BY Multiples
  <1>6. FileRows(m, d, s) = IF m =< d * s THEN 0
                            ELSE IF m >= d * s + d THEN d ELSE m - d * s
    BY <1>5 DEF FileRows
  <1>7. CASE s > q
    <2>1. d * q + d =< d * s
      BY <1>1, <1>7, Multiples
    <2>2. m =< d * s
      BY <1>1, <1>5, <2>1
    <2>3. QED
      BY <1>4, <1>6, <1>7, <2>2
  <1>8. CASE s = q
    BY <1>1, <1>4, <1>6, <1>8
  <1>9. CASE s < q
    <2>1. d * s + d =< d * q
      BY <1>1, <1>9, Multiples
    <2>2. m >= d * s + d /\ ~(m =< d * s)
      BY <1>1, <1>5, <2>1
    <2>3. QED
      BY <1>1, <1>4, <1>6, <1>9, <2>2
  <1>10. QED
    BY <1>1, <1>7, <1>8, <1>9

\* How many rows a partition has, how many of them are in a split, and how
\* many are in the splits before it.
RowCount(p)  == Len(ds[p][CHOOSE c \in Col : TRUE])
SplitRows(k) == FileRows(RowCount(k[1]), Rps, k[2] - 1)
First(k)     == (k[2] - 1) * Rps

\* A partition has as many rows in one column as in any other.
LEMMA RowCountType ==
  ASSUME ds \in Datasets, NEW p \in Part, NEW c \in Col
  PROVE  /\ ds[p][c] \in Seq(Cell) /\ Len(ds[p][c]) = RowCount(p)
         /\ DOMAIN ds[p][c] = 1..RowCount(p)
         /\ RowCount(p) \in Nat /\ RowCount(p) =< IntMax
  <1> DEFINE b == CHOOSE x \in Col : TRUE
  <1>1. b \in Col
    BY ViewAssumption
  <1>2. ds \in [Part -> [Col -> Seq(Cell)]]
    BY ViewAssumption
  <1> HIDE DEF b
  <1>3. ds[p][c] \in Seq(Cell) /\ ds[p][b] \in Seq(Cell)
    BY <1>1, <1>2
  <1>4. Len(ds[p][c]) = Len(ds[p][b]) /\ Len(ds[p][b]) =< IntMax
    BY <1>1, QueryAssumption
  <1>5. RowCount(p) = Len(ds[p][b])
    BY DEF RowCount, b
  <1> QED BY <1>3, <1>4, <1>5, LenProperties

\* Splits have at most Rps rows and end where the partition ends.
LEMMA SplitRowsType ==
  ASSUME ds \in Datasets, NEW k \in Key, k[2] >= 1
  PROVE  /\ SplitRows(k) \in Nat /\ SplitRows(k) =< Rps /\ First(k) \in Nat
         /\ SplitRows(k) > 0 => First(k) + SplitRows(k) =< RowCount(k[1])
  <1> DEFINE n == RowCount(k[1])
             s == k[2] - 1
  <1>1. k[1] \in Part /\ k[2] \in Int /\ s \in Nat /\ Rps \in Nat \ {0} /\ Col # {}
    BY ViewAssumption DEF Key
  <1>2. n \in Nat
    BY <1>1, RowCountType
  <1>3. s * Rps \in Nat /\ (s + 1) * Rps = s * Rps + Rps
    <2> HIDE DEF s
    <2> QED BY <1>1, Multiples
  <1> HIDE DEF n, s
  <1>4. FileRows(n, Rps, s) = IF n =< s * Rps THEN 0
                              ELSE IF n >= s * Rps + Rps THEN Rps ELSE n - s * Rps
    BY <1>3 DEF FileRows
  <1> DEFINE a == s * Rps
  <1> HIDE DEF a
  <1>5. a \in Nat /\ FileRows(n, Rps, s) = IF n =< a THEN 0 ELSE IF n >= a + Rps THEN Rps ELSE n - a
    BY <1>3, <1>4 DEF a
  <1>6. First(k) = a /\ SplitRows(k) = FileRows(n, Rps, s)
    BY DEF First, SplitRows, a, n, s
  <1> QED BY <1>1, <1>2, <1>5, <1>6 DEF n

\* The cells of a column of a split are cells of the column.
LEMMA SplitCells ==
  ASSUME ds \in Datasets, NEW k \in Key, k[2] >= 1, NEW c \in Col
  PROVE  /\ RowsInSplit(Len(ds[k[1]][c]), Rps, k[2] - 1) = SplitRows(k)
         /\ Len(Splitn(k, c)) = SplitRows(k)
         /\ DOMAIN Splitn(k, c) = 1..SplitRows(k)
         /\ \A j \in 1..SplitRows(k) : /\ First(k) + j \in 1..RowCount(k[1])
                                       /\ Splitn(k, c)[j] = ds[k[1]][c][First(k) + j]
  <1> DEFINE cells == ds[k[1]][c]
             m     == SplitRows(k)
             a     == First(k)
             n     == RowCount(k[1])
             x     == SubSeq(cells, a + 1, a + m)
  <1>1. k[1] \in Part /\ k[2] - 1 \in Nat /\ Rps \in Nat \ {0}
    BY ViewAssumption DEF Key
  <1>2. cells \in Seq(Cell) /\ Len(cells) = n /\ DOMAIN cells = 1..n /\ n \in Nat /\ n =< IntMax
    BY <1>1, RowCountType
  <1>3. RowsInSplit(n, Rps, k[2] - 1) = m
    <2> DEFINE s == k[2] - 1
    <2>1. m = FileRows(n, Rps, s)
      BY DEF SplitRows
    <2> HIDE DEF s, n
    <2> QED BY <1>1, <1>2, <2>1, RowsInSplitIsFile DEF s
  <1>4. m \in Nat /\ a \in Nat /\ m > 0 => a + m =< n
    BY SplitRowsType
  <1>5. m \in Nat /\ a \in Nat
    BY SplitRowsType
  <1>6. Splitn(k, c) = x
    BY <1>2, <1>3 DEF Splitn, First
  <1> HIDE DEF cells, m, a, n
  <1>7. \A i \in a + 1..a + m : cells[i] \in Cell
    <2> SUFFICES ASSUME NEW i \in a + 1..a + m PROVE cells[i] \in Cell
      OBVIOUS
    <2>1. i \in 1..n
      BY <1>2, <1>4, <1>5
    <2> QED BY <1>2, <2>1, ElementOfSeq
  <1>8. /\ x \in Seq(Cell)
        /\ Len(x) = IF a + 1 <= a + m THEN (a + m) - (a + 1) + 1 ELSE 0
        /\ \A i \in 1..((a + m) - (a + 1) + 1) : x[i] = cells[(a + 1) + i - 1]
    <2>1. a + 1 \in Int /\ a + m \in Int
      BY <1>5
    <2> QED BY <1>7, <2>1, SubSeqProperties
  <1>9. Len(x) = m /\ \A i \in 1..m : x[i] = cells[a + i]
    BY <1>5, <1>8
  <1>10. DOMAIN x = 1..m
    BY <1>8, <1>9, LenProperties
  <1>11. \A j \in 1..m : a + j \in 1..n
    BY <1>2, <1>4, <1>5
  <1> HIDE DEF x
  <1> QED BY <1>2, <1>3, <1>6, <1>9, <1>10, <1>11 DEF cells, m, a, n

-----------------------------------------------------------------------------
(* Counting.                                                                *)

\* The sums of the counts are what they are.
LEMMA SumsUnique ==
  ASSUME NEW n \in Nat, NEW todo, NEW klen, NEW f, NEW g,
         Sums(f, todo, klen, n), Sums(g, todo, klen, n)
  PROVE  f = g
  <1> DEFINE T == {j \in Nat : j =< n => f[j] = g[j]}
  <1>1. 0 \in T
    BY DEF Sums
  <1>2. ASSUME NEW j \in Nat, j \in T PROVE j + 1 \in T
    <2> SUFFICES ASSUME j + 1 =< n PROVE f[j + 1] = g[j + 1]
      OBVIOUS
    <2>1. j + 1 \in 1..n /\ (j + 1) - 1 = j /\ f[j] = g[j]
      BY <1>2
    <2> QED BY <2>1 DEF Sums
  <1>3. Nat \subseteq T
    <2> HIDE DEF T
    <2> QED BY <1>1, <1>2, NatSetInduction
  <1>4. \A j \in 0..n : f[j] = g[j]
    BY <1>3
  <1> QED BY <1>4 DEF Sums

\* The place of an element of a set of numbers.
Rank(S, j) == Cardinality({l \in S : l =< j})

\* The n-th element is the one of rank n.
LEMMA NthOfRank ==
  ASSUME NEW n \in Nat, NEW S \in SUBSET (1..n), NEW j \in S
  PROVE  Rank(S, j) \in 1..Cardinality(S) /\ Nth(S, Rank(S, j)) = j
  <1> DEFINE U(i) == {l \in S : l =< i}
  <1>1. IsFiniteSet(S) /\ \A i \in S : i \in Nat
    <2>1. IsFiniteSet(1..n)
      BY FS_Interval
    <2> DEFINE X == 1..n
    <2>2. \A i \in X : i \in Nat
      OBVIOUS
    <2> HIDE DEF X
    <2>3. IsFiniteSet(X) /\ S \in SUBSET X
      BY <2>1 DEF X
    <2>4. IsFiniteSet(S)
      BY <2>3, FS_Subset
    <2> QED BY <2>2, <2>3, <2>4
  <1>2. \A i : U(i) \in SUBSET S
    OBVIOUS
  <1>3. \A i : IsFiniteSet(U(i)) /\ Cardinality(U(i)) \in Nat /\ Cardinality(U(i)) =< Cardinality(S)
    <2> SUFFICES ASSUME NEW i
                 PROVE  IsFiniteSet(U(i)) /\ Cardinality(U(i)) \in Nat /\ Cardinality(U(i)) =< Cardinality(S)
      OBVIOUS
    <2> HIDE DEF U
    <2>1. IsFiniteSet(U(i)) /\ Cardinality(U(i)) =< Cardinality(S)
      BY <1>1, <1>2, FS_Subset
    <2> QED BY <2>1, FS_CardinalityType
  <1>4. ASSUME NEW a \in S, NEW b \in S, a < b PROVE Cardinality(U(a)) < Cardinality(U(b))
    <2>1. U(a) \in SUBSET U(b) /\ b \in U(b) /\ b \notin U(a)
      <3>1. a \in Nat /\ b \in Nat
        BY <1>1
      <3>2. \A l \in S : l =< a => l =< b
        BY <1>1, <1>4, <3>1
      <3>3. b =< b /\ ~(b =< a)
        BY <1>4, <3>1
      <3> QED BY <3>2, <3>3
    <2> HIDE DEF U
    <2>2. Cardinality(U(a)) =< Cardinality(U(b)) /\ (Cardinality(U(a)) = Cardinality(U(b)) => U(b) = U(a))
      BY <1>3, <2>1, FS_Subset
    <2> QED BY <1>3, <2>1, <2>2
  <1>5. Rank(S, j) = Cardinality(U(j))
    BY DEF Rank
  <1>6. Cardinality(U(j)) # 0
    <2>1. j \in U(j)
      BY <1>1
    <2> HIDE DEF U
    <2> QED BY <1>3, <2>1, FS_EmptySet
  <1>7. \A i \in S : Cardinality(U(i)) = Cardinality(U(j)) => i = j
    <2> SUFFICES ASSUME NEW i \in S, Cardinality(U(i)) = Cardinality(U(j)), i # j PROVE FALSE
      OBVIOUS
    <2>1. i < j \/ j < i
      BY <1>1
    <2> HIDE DEF U
    <2>2. Cardinality(U(i)) < Cardinality(U(j)) \/ Cardinality(U(j)) < Cardinality(U(i))
      BY <1>4, <2>1
    <2> QED BY <1>3, <2>2
  <1>8. Nth(S, Rank(S, j)) = CHOOSE i \in S : Cardinality(U(i)) = Cardinality(U(j))
    BY DEF Nth, Rank
  <1>9. Cardinality(S) \in Nat
    BY <1>1, FS_CardinalityType
  <1> HIDE DEF U
  <1>10. Rank(S, j) \in 1..Cardinality(S)
    BY <1>3, <1>5, <1>6, <1>9
  <1> QED BY <1>7, <1>8, <1>10

-----------------------------------------------------------------------------
(* Rows and splits.                                                         *)

\* Division undoes multiplication.
LEMMA Quotient ==
  ASSUME NEW d \in Nat \ {0}, NEW q \in Nat, NEW r \in Nat, r < d
  PROVE  (d * q + r) \div d = q
  <1> DEFINE a == d * q
             x == a + r
             t == x \div d
             b == d * t
  <1>1. a \in Nat /\ x \in Nat
    BY Multiples
  <1>2. t \in Nat /\ b =< x /\ x < b + d /\ b \in Nat
    <2> HIDE DEF x
    <2> QED BY <1>1, Division
  <1>3. t < q => b + d =< a
    BY <1>2, Multiples
  <1>4. q < t => a + d =< b
    <2> HIDE DEF t
    <2> QED BY <1>2, Multiples
  <1> HIDE DEF a, b, t
  <1>5. ~(t < q) /\ ~(q < t)
    BY <1>1, <1>2, <1>3, <1>4
  <1>6. t = q
    BY <1>2, <1>5
  <1> QED BY <1>6 DEF t, a

\* The splits of a partition.
Splits(p) == PartitionInfo(RowCount(p), Rps).splits

\* There is one for every Rps rows that were begun.
LEMMA SplitCount ==
  ASSUME ds \in Datasets, NEW p \in Part
  PROVE  /\ Splits(p) \in Int
         /\ RowCount(p) >= 1 => Splits(p) = (RowCount(p) - 1) \div Rps + 1
  <1> DEFINE n == RowCount(p)
  <1>1. n \in Nat /\ n =< IntMax /\ Rps \in Nat \ {0} /\ IntMax \in Nat \ {0}
    <2>1. PICK c \in Col : TRUE
      BY ViewAssumption
    <2> QED BY <2>1, RowCountType, ViewAssumption, IntMaxAssumption
  <1> HIDE DEF n
  <1>2. ToInt(n) = n /\ ToInt(n - 1) = n - 1
    <2> DEFINE m == n - 1
    <2>1. m \in Int /\ -IntMax =< m /\ m =< IntMax /\ -IntMax =< n
      BY <1>1
    <2> HIDE DEF m
    <2>2. ToInt(n) = n /\ ToInt(m) = m
      BY <1>1, <2>1, ToIntFits
    <2> QED BY <2>2 DEF m
  <1>3. PartitionInfo(n, Rps).splits = Quot(n - 1, Rps) + 1
    BY <1>2 DEF PartitionInfo, PartitionRows
  <1> QED BY <1>1, <1>3 DEF Quot, Splits, n

\* Every row is in one of them.
LEMMA SplitOfRow ==
  ASSUME ds \in Datasets, NEW p \in Part, NEW r \in 1..RowCount(p)
  PROVE  \E s \in 1..Splits(p) : \E j \in 1..SplitRows(<<p, s>>) : r = First(<<p, s>>) + j
  <1> DEFINE n == RowCount(p)
             q == (r - 1) \div Rps
             z == (n - 1) \div Rps
             k == <<p, q + 1>>
             a == Rps * q
             j == r - a
  <1>1. n \in Nat /\ Rps \in Nat \ {0} /\ r \in Nat /\ n >= 1 /\ r - 1 \in Nat /\ n - 1 \in Nat
        /\ 1 =< r /\ r =< n
    <2>1. PICK c \in Col : TRUE
      BY ViewAssumption
    <2>2. n \in Nat /\ Rps \in Nat \ {0}
      BY <2>1, RowCountType, ViewAssumption
    <2> QED BY <2>2
  <1>2. q \in Nat /\ a =< r - 1 /\ r - 1 < a + Rps /\ a \in Nat
    <2> DEFINE x == r - 1
    <2> HIDE DEF x
    <2>1. x \in Nat
      BY <1>1 DEF x
    <2>2. x \div Rps \in Nat /\ Rps * (x \div Rps) =< x /\ x < Rps * (x \div Rps) + Rps
          /\ Rps * (x \div Rps) \in Nat
      BY <1>1, <2>1, Division
    <2> QED BY <2>2 DEF x
  <1>3. z \in Nat /\ Rps * z =< n - 1 /\ n - 1 < Rps * z + Rps /\ Rps * z \in Nat
    <2> DEFINE x == n - 1
    <2> HIDE DEF x
    <2>1. x \in Nat
      BY <1>1 DEF x
    <2>2. x \div Rps \in Nat /\ Rps * (x \div Rps) =< x /\ x < Rps * (x \div Rps) + Rps
          /\ Rps * (x \div Rps) \in Nat
      BY <1>1, <2>1, Division
    <2> QED BY <2>2 DEF x
  <1>4. Splits(p) = z + 1
    BY <1>1, SplitCount
  <1>5. First(k) = a /\ SplitRows(k) = FileRows(n, Rps, q)
    <2> HIDE DEF q
    <2>1. k[1] = p /\ k[2] - 1 = q
      BY <1>2
    <2>2. q * Rps = a
      BY <1>1, <1>2, Multiples
    <2> HIDE DEF k, a
    <2> QED BY <2>1, <2>2 DEF First, SplitRows
  <1> HIDE DEF n, q, z
  <1>6. q =< z
    <2> SUFFICES ASSUME z < q PROVE FALSE
      BY <1>2, <1>3
    <2> DEFINE b == Rps * z
    <2>1. b + Rps =< a
      BY <1>1, <1>2, <1>3, Multiples
    <2> HIDE DEF a, b
    <2>2. b \in Nat /\ n - 1 < b + Rps
      BY <1>3 DEF b
    <2> QED BY <1>1, <1>2, <2>1, <2>2
  <1>7. j \in 1..SplitRows(k)
    <2>1. q * Rps = a /\ (q + 1) * Rps = a + Rps
      <3>1. Rps * (q + 1) = Rps * q + Rps /\ q * Rps = Rps * q /\ (q + 1) * Rps = Rps * (q + 1)
        BY <1>1, <1>2, Multiples
      <3> QED BY <3>1
    <2>2. FileRows(n, Rps, q) = IF n =< a THEN 0 ELSE IF n >= a + Rps THEN Rps ELSE n - a
      BY <2>1 DEF FileRows
    <2> HIDE DEF a, k
    <2> QED BY <1>1, <1>2, <1>5, <2>2
  <1> DEFINE s == q + 1
  <1>8. s \in 1..Splits(p)
    BY <1>2, <1>3, <1>4, <1>6
  <1>9. r = First(<<p, s>>) + j /\ j \in 1..SplitRows(<<p, s>>)
    <2> HIDE DEF a
    <2> QED BY <1>1, <1>2, <1>5, <1>7
  <1> HIDE DEF s
  <1> QED BY <1>8, <1>9

\* The split a row is in, from the number of the row.
LEMMA RowOfSplit ==
  ASSUME ds \in Datasets, NEW k \in Key, k[2] >= 1, NEW j \in 1..SplitRows(k)
  PROVE  /\ ((First(k) + j) - 1) \div Rps = k[2] - 1
         /\ (First(k) + j) - (k[2] - 1) * Rps = j
  <1> DEFINE q == k[2] - 1
             r == j - 1
  <1>1. q \in Nat /\ r \in Nat /\ r < Rps /\ Rps \in Nat \ {0} /\ j \in Nat
    <2>1. SplitRows(k) \in Nat /\ SplitRows(k) =< Rps
      BY SplitRowsType
    <2> QED BY <2>1, ViewAssumption DEF Key
  <1>2. First(k) = q * Rps
    BY DEF First
  <1> HIDE DEF q, r
  <1> DEFINE a == Rps * q
  <1>3. q * Rps = a /\ a \in Nat
    BY <1>1, Multiples
  <1>4. (a + r) \div Rps = q
    BY <1>1, Quotient
  <1> HIDE DEF a
  <1>5. (First(k) + j) - 1 = a + r
    BY <1>1, <1>2, <1>3 DEF r
  <1>6. (First(k) + j) - q * Rps = j
    BY <1>1, <1>2, <1>3
  <1> QED BY <1>4, <1>5, <1>6 DEF q

-----------------------------------------------------------------------------
(* What the bitmaps of a filter pick.                                       *)

\* The bitmap of a split is the one the condition gives.
Selects(bitmap, k, cond) ==
  LET b == Eval(Loaded(k), Parse[cond])
  IN  b.is = "bits" /\ bitmap[k] = b.bits

\* A split with a bitmap is a split of the dataset, and a bit of a row that
\* is decided says whether the row satisfies the condition.
LEMMA SelectsRows ==
  ASSUME ds \in Datasets, NEW k \in Key, NEW cond \in Expr, ComparesColumns(cond),
         NEW bitmap, Selects(bitmap, k, cond)
  PROVE  /\ k[2] >= 1
         /\ DOMAIN bitmap[k] = 1..SplitRows(k)
         /\ \A j \in 1..SplitRows(k) :
              Sure(cond, ds[k[1]], First(k) + j) =>
                (bitmap[k][j] <=> Truth(cond, Q!Row(k[1], First(k) + j)))
  <1> DEFINE t == Parse[cond]
             b == bitmap[k]
  <1>1. Simple(t)
    BY DEF ComparesColumns, Simple
  <1>2. BitsMean(Classes, Cells(k), cond, t, b) /\ BitsCover(Loaded(k), Cells(k), Col, t, b)
    BY <1>1, LoadedRight DEF Selects
  <1> HIDE DEF b
  <1>3. PICK a \in Comparisons[t] : TRUE
    BY <1>2 DEF BitsCover
  <1> DEFINE c == a.args[1].name
  <1>4. c \in Col /\ Readable(k, c) /\ DOMAIN b = DOMAIN Splitn(k, c)
    <2>1. c \in Col /\ Loaded(k)[c].is = "vec" /\ DOMAIN b = DOMAIN Cells(k)[c]
      BY <1>2, <1>3 DEF BitsCover
    <2> HIDE DEF c
    <2> QED BY <2>1 DEF Loaded, Null, Cells
  <1>5. k[2] >= 1
    BY <1>4 DEF Readable
  <1> HIDE DEF c
  <1>6. DOMAIN b = 1..SplitRows(k)
    BY <1>4, <1>5, SplitCells
  <1>7. ASSUME NEW j \in 1..SplitRows(k), Sure(cond, ds[k[1]], First(k) + j)
        PROVE  b[j] <=> Truth(cond, Q!Row(k[1], First(k) + j))
    <2> DEFINE r == First(k) + j
               split == (r - 1) \div Rps
    <2>1. split = k[2] - 1 /\ r - split * Rps = j
      BY <1>5, RowOfSplit
    <2>2. ASSUME NEW x \in Col
          PROVE  /\ RowsInSplit(Len(ds[k[1]][x]), Rps, split) = Len(Splitn(k, x))
                 /\ Splitn(k, x)[j] = ds[k[1]][x][r]
      BY <1>5, <2>1, SplitCells
    <2>3. ASSUME NEW e \in Comparisons[t] PROVE Clear(Classes, Cells(k), e, j)
      <3> DEFINE x == e.args[1].name
      <3>1. Decided(Class(x), RowsInSplit(Len(ds[k[1]][x]), Rps, split), r - split * Rps,
                    ds[k[1]][x][r], e.args[2].value)
        BY <1>7 DEF Sure
      <3>2. x \in Col
        BY <1>2 DEF BitsCover
      <3>3. /\ RowsInSplit(Len(ds[k[1]][x]), Rps, split) = Len(Splitn(k, x))
            /\ Splitn(k, x)[j] = ds[k[1]][x][r]
        BY <2>2, <3>2
      <3> HIDE DEF x, r, split
      <3>4. Decided(Class(x), Len(Splitn(k, x)), j, Splitn(k, x)[j], e.args[2].value)
        BY <2>1, <3>1, <3>3
      <3>5. Classes[x] = Class(x) /\ Cells(k)[x] = Splitn(k, x)
        BY <3>2 DEF Classes, Cells
      <3>6. Decided(Classes[x], Len(Cells(k)[x]), j, Cells(k)[x][j], e.args[2].value)
        BY <3>4, <3>5
      <3> QED BY <3>6 DEF Clear, x
    <2>4. RowAt(Cells(k), j) = Q!Row(k[1], r)
      <3> HIDE DEF r
      <3> QED BY <2>2 DEF RowAt, Cells, Q!Row
    <2> HIDE DEF r, t
    <2>5. b[j] <=> Truth(cond, RowAt(Cells(k), j))
      BY <1>2, <1>6, <2>3 DEF BitsMean
    <2> QED BY <2>4, <2>5 DEF r
  <1> QED BY <1>5, <1>6, <1>7 DEF b

-----------------------------------------------------------------------------
(* The walk of a loop over the splits of a list of partitions.              *)

\* at[m] is the place in the list and the split of the m-th step.
Walk(at, info) ==
  /\ at \in [1..Len(Todo(info)) -> Nat \X Nat]
  /\ \A m \in 1..Len(Todo(info)) :
       /\ at[m][1] \in DOMAIN info /\ at[m][2] \in 1..info[at[m][1]].splits
       /\ Todo(info)[m] = <<info[at[m][1]].partition, at[m][2]>>
  /\ \A l, m \in 1..Len(Todo(info)) :
       l < m => at[l][1] < at[m][1] \/ (at[l][1] = at[m][1] /\ at[l][2] < at[m][2])
  /\ \A i \in DOMAIN info : \A s \in 1..info[i].splits :
       \E m \in 1..Len(Todo(info)) : at[m] = <<i, s>>

\* A loop over splits of which none is below the first visits each split of
\* each partition, in their order.
LEMMA TodoWalk ==
  ASSUME NEW info \in Seq(Places),
         \A m \in 1..Len(Todo(info)) : Todo(info)[m][2] >= 1
  PROVE  \E at : Walk(at, info)
  <1> DEFINE Nums(i) == Colon(1, info[i].splits)
             runs == [i \in DOMAIN info |->
                        [s \in DOMAIN Nums(i) |-> <<info[i].partition, Nums(i)[s]>>]]
             todo == Todo(info)
             len  == Len(todo)
  <1>1. Len(info) \in Nat /\ DOMAIN info = 1..Len(info) /\ \A i \in DOMAIN info : info[i] \in Places
    BY LenProperties, ElementOfSeq
  <1>2. ASSUME NEW i \in DOMAIN info PROVE runs[i] \in Seq(Part \X Int)
    <2>1. info[i].partition \in Part /\ info[i].splits \in Int
      BY <1>1 DEF Places
    <2>2. \E n \in Nat : DOMAIN Nums(i) = 1..n
      BY <2>1 DEF Colon
    <2>3. \A s \in DOMAIN Nums(i) : Nums(i)[s] \in Int
      BY <2>1 DEF Colon
    <2> HIDE DEF Nums
    <2>4. \A s \in DOMAIN Nums(i) : <<info[i].partition, Nums(i)[s]>> \in Part \X Int
      BY <2>1, <2>3
    <2>5. PICK n \in Nat : DOMAIN Nums(i) = 1..n
      BY <2>2
    <2> DEFINE run == runs[i]
    <2>6. run = [s \in 1..n |-> run[s]] /\ \A s \in 1..n : run[s] \in Part \X Int
      BY <2>4, <2>5
    <2> HIDE DEF run
    <2>7. run \in Seq(Part \X Int)
      BY <2>6, IsASeq
    <2> QED BY <2>7 DEF run
  <1>3. runs \in Seq(Seq(Part \X Int)) /\ Len(runs) = Len(info)
    <2>1. runs = [i \in 1..Len(info) |-> runs[i]]
      BY <1>1
    <2>2. DOMAIN runs = 1..Len(info)
      BY <1>1
    <2> HIDE DEF runs
    <2>3. runs \in Seq(Seq(Part \X Int))
      BY <1>1, <1>2, <2>1, IsASeq
    <2>4. DOMAIN runs = 1..Len(runs) /\ Len(runs) \in Nat
      BY <2>3, LenProperties
    <2> QED BY <1>1, <2>2, <2>3, <2>4
  <1>4. todo = FlattenSeq(runs)
    BY DEF Todo
  <1>5. PICK at : Origin(at, runs, Len(info), todo)
    <2> HIDE DEF runs, todo
    <2>1. \E at : Origin(at, runs, Len(runs), FlattenSeq(runs))
      BY <1>3, FlattenedOrigin
    <2> QED BY <1>3, <1>4, <2>1
  <1>6. ASSUME NEW i \in DOMAIN info
        PROVE  /\ info[i].splits \in Nat
               /\ Len(runs[i]) = info[i].splits
               /\ \A s \in 1..info[i].splits : runs[i][s] = <<info[i].partition, s>>
    <2> DEFINE n == info[i].splits
               run == runs[i]
    <2>1. n \in Int
      BY <1>1 DEF Places
    <2>2. run \in Seq(Part \X Int)
      BY <1>2
    <2>3. DOMAIN run = DOMAIN Nums(i) /\ \A s \in DOMAIN Nums(i) : run[s] = <<info[i].partition, Nums(i)[s]>>
      OBVIOUS
    <2>4. Len(run) \in Nat /\ DOMAIN run = 1..Len(run)
      <3> HIDE DEF run
      <3> QED BY <2>2, LenProperties
    <2>5. Nums(i) = IF 1 =< n THEN [s \in 1..n - 1 + 1 |-> 1 + s - 1]
                     ELSE [s \in 1..1 - n + 1 |-> 1 - s + 1]
      BY DEF Colon
    <2> HIDE DEF run, Nums, n, runs
    <2>6. CASE ~(1 =< n)
      <3> DEFINE s == 1 - n + 1
      <3>1. s \in 1..s
        BY <2>1, <2>6
      <3>2. DOMAIN Nums(i) = 1..s /\ Nums(i)[s] = 1 - s + 1
        BY <2>1, <2>5, <2>6, <3>1
      <3>3. 1 - s + 1 < 1
        BY <2>1, <2>6
      <3> HIDE DEF s
      <3>4. s \in 1..Len(run) /\ run[s] = <<info[i].partition, 1 - s + 1>>
        BY <2>3, <2>4, <3>1, <3>2
      <3>5. run[s][2] = 1 - s + 1
        BY <3>4
      <3>6. i \in 1..Len(info) /\ s \in 1..Len(runs[i])
        BY <1>1, <3>4 DEF run
      <3>7. PICK m \in 1..len : at[m] = <<i, s>>
        BY <1>5, <3>6 DEF Origin
      <3>8. todo[m] = runs[at[m][1]][at[m][2]]
        BY <1>5 DEF Origin
      <3>9. todo[m] = run[s]
        BY <3>7, <3>8 DEF run
      <3>10. todo[m][2] >= 1
        OBVIOUS
      <3>11. s \in Int
        BY <3>4
      <3> HIDE DEF todo
      <3> QED BY <3>3, <3>5, <3>9, <3>10, <3>11
    <2>7. CASE 1 =< n
      <3>1. n \in Nat /\ DOMAIN Nums(i) = 1..n /\ \A s \in 1..n : Nums(i)[s] = s
        BY <2>1, <2>5, <2>7
      <3>2. Len(run) = n
        <4>1. 1..Len(run) = 1..n
          BY <2>3, <2>4, <3>1
        <4>2. \A a, b \in Nat : 1..a = 1..b => a = b
          <5> SUFFICES ASSUME NEW a \in Nat, NEW b \in Nat, 1..a = 1..b PROVE a = b
            OBVIOUS
          <5>1. \A j \in Nat : 1 =< j /\ j =< a <=> 1 =< j /\ j =< b
            OBVIOUS
          <5> QED BY <5>1
        <4> QED BY <2>4, <3>1, <4>1, <4>2
      <3>3. \A s \in 1..n : run[s] = <<info[i].partition, s>>
        BY <2>3, <3>1
      <3> QED BY <3>1, <3>2, <3>3 DEF run, n
    <2> QED BY <2>6, <2>7
  <1> HIDE DEF runs, todo
  <1>7. at \in [1..len -> Nat \X Nat]
    BY <1>5 DEF Origin
  <1>8. ASSUME NEW m \in 1..len
        PROVE  /\ at[m][1] \in DOMAIN info /\ at[m][2] \in 1..info[at[m][1]].splits
               /\ todo[m] = <<info[at[m][1]].partition, at[m][2]>>
    <2>1. at[m][1] \in 1..Len(info) /\ at[m][2] \in 1..Len(runs[at[m][1]])
          /\ todo[m] = runs[at[m][1]][at[m][2]]
      BY <1>5 DEF Origin
    <2> QED BY <1>1, <1>6, <2>1
  <1>9. \A l, m \in 1..len :
          l < m => at[l][1] < at[m][1] \/ (at[l][1] = at[m][1] /\ at[l][2] < at[m][2])
    BY <1>5 DEF Origin
  <1>10. ASSUME NEW i \in DOMAIN info, NEW s \in 1..info[i].splits
         PROVE  \E m \in 1..len : at[m] = <<i, s>>
    <2>1. i \in 1..Len(info) /\ s \in 1..Len(runs[i])
      BY <1>1, <1>6
    <2> QED BY <1>5, <2>1 DEF Origin
  <1>11. Walk(at, info)
    BY <1>7, <1>8, <1>9, <1>10 DEF Walk, todo
  <1> QED BY <1>11

-----------------------------------------------------------------------------
(* The rows that a filter has picked, split after split.                    *)

\* Where the list info is walked, no split is below the first and bitmaps are
\* as long as their splits.
Fitted(info, bitmap) ==
  /\ info \in Seq(Places)
  /\ \A m \in 1..Len(Todo(info)) :
       LET k == Todo(info)[m]
       IN  k[2] >= 1 /\ DOMAIN bitmap[k] = 1..SplitRows(k)

\* The rows that a set of bits of the m-th step of the walk stands for.
Shifted(info, at, m, S) == {<<at[m][1], First(Todo(info)[m]) + j>> : j \in S}

\* The rows that are picked in the m-th step.
Marks(info, bitmap, at) ==
  [m \in 1..Len(Todo(info)) |-> Shifted(info, at, m, Set(bitmap[Todo(info)[m]]))]

\* What a filter has picked, for its partitions, bitmaps and number of rows.
Pick(info, bitmap, n) ==
  [on   |-> Names(info),
   rows |-> [i \in DOMAIN info |->
               UNION {{(s - 1) * Rps + j : j \in Set(bitmap[<<info[i].partition, s>>])}
                        : s \in 1..info[i].splits}],
   nrow |-> n]

\* The steps of a walk are splits, of Rps rows at most.
LEMMA StepType ==
  ASSUME ds \in Datasets, NEW info, NEW bitmap, Fitted(info, bitmap), NEW m \in 1..Len(Todo(info))
  PROVE  /\ Todo(info)[m] \in Key /\ Todo(info)[m][2] >= 1
         /\ First(Todo(info)[m]) \in Nat
         /\ SplitRows(Todo(info)[m]) \in Nat /\ SplitRows(Todo(info)[m]) =< Rps
         /\ Set(bitmap[Todo(info)[m]]) \in SUBSET (1..SplitRows(Todo(info)[m]))
  <1> DEFINE k == Todo(info)[m]
  <1>1. Todo(info) \in Seq(Key)
    BY TodoType DEF Fitted, Key
  <1>2. k \in Key
    <2> DEFINE todo == Todo(info)
    <2> HIDE DEF todo
    <2>1. todo \in Seq(Key) /\ m \in 1..Len(todo)
      BY <1>1 DEF todo
    <2>2. todo[m] \in Key
      BY <2>1, ElementOfSeq
    <2> QED BY <2>2 DEF todo
  <1>3. k[2] >= 1 /\ DOMAIN bitmap[k] = 1..SplitRows(k)
    BY DEF Fitted
  <1> HIDE DEF k
  <1>4. First(k) \in Nat /\ SplitRows(k) \in Nat /\ SplitRows(k) =< Rps
    BY <1>2, <1>3, SplitRowsType
  <1>5. Set(bitmap[k]) \in SUBSET (1..SplitRows(k))
    BY <1>3 DEF Set
  <1> QED BY <1>2, <1>3, <1>4, <1>5 DEF k

\* The rows that are picked are those of the steps.
LEMMA RowsAreMarks ==
  ASSUME NEW info, NEW bitmap, Fitted(info, bitmap), NEW at, Walk(at, info), NEW n
  PROVE  Q!Rows(Pick(info, bitmap, n)) = Piled(Marks(info, bitmap, at), Len(Todo(info)))
  <1> DEFINE len  == Len(Todo(info))
             pick == Pick(info, bitmap, n)
             todo == Todo(info)
             B    == Marks(info, bitmap, at)
             Part1(i, s) == {<<i, (s - 1) * Rps + j>> : j \in Set(bitmap[<<info[i].partition, s>>])}
  <1>1. DOMAIN pick.on = DOMAIN info
    BY DEF Pick, Names
  <1>2. \A i \in DOMAIN info : {i} \X pick.rows[i] = UNION {Part1(i, s) : s \in 1..info[i].splits}
    <2> SUFFICES ASSUME NEW i \in DOMAIN info
                 PROVE  {i} \X pick.rows[i] = UNION {Part1(i, s) : s \in 1..info[i].splits}
      OBVIOUS
    <2>1. pick.rows[i] = UNION {{(s - 1) * Rps + j : j \in Set(bitmap[<<info[i].partition, s>>])}
                                  : s \in 1..info[i].splits}
      BY DEF Pick
    <2> DEFINE D(s) == Set(bitmap[<<info[i].partition, s>>])
               S    == 1..info[i].splits
               o(s) == (s - 1) * Rps
    <2>2. pick.rows[i] = UNION {{o(s) + j : j \in D(s)} : s \in S}
      BY <2>1
    <2> HIDE DEF D, S, o, pick
    <2>3. {i} \X pick.rows[i] = UNION {{<<i, o(s) + j>> : j \in D(s)} : s \in S}
      BY <2>2
    <2> QED BY <2>3 DEF D, S, o
  <1>3. Q!Rows(pick) = UNION {{i} \X pick.rows[i] : i \in DOMAIN info}
    BY <1>1 DEF Q!Rows
  <1>4. ASSUME NEW m \in 1..len
        PROVE  /\ at[m][1] \in DOMAIN info /\ at[m][2] \in 1..info[at[m][1]].splits
               /\ B[m] = Part1(at[m][1], at[m][2])
    <2> DEFINE i == at[m][1]
               s == at[m][2]
    <2>1. i \in DOMAIN info /\ s \in 1..info[i].splits /\ todo[m] = <<info[i].partition, s>>
      BY DEF Walk
    <2>2. B[m] = Shifted(info, at, m, Set(bitmap[todo[m]]))
      BY DEF Marks
    <2>3. First(todo[m]) = (s - 1) * Rps
      BY <2>1 DEF First
    <2> HIDE DEF i, s, todo, B
    <2>4. B[m] = {<<i, First(todo[m]) + j>> : j \in Set(bitmap[todo[m]])}
      BY <2>2 DEF Shifted, i, todo
    <2>5. B[m] = {<<i, (s - 1) * Rps + j>> : j \in Set(bitmap[<<info[i].partition, s>>])}
      BY <2>1, <2>3, <2>4
    <2> QED BY <2>1, <2>5 DEF i, s
  <1> HIDE DEF pick, B, Part1
  <1>5. \A i \in DOMAIN info : \A s \in 1..info[i].splits : \E m \in 1..len : at[m] = <<i, s>>
    BY DEF Walk
  <1>6. Piled(B, len) \subseteq Q!Rows(pick)
    <2> SUFFICES ASSUME NEW m \in 1..len, NEW x \in B[m] PROVE x \in Q!Rows(pick)
      BY DEF Piled
    <2> DEFINE i == at[m][1]
               s == at[m][2]
    <2>1. i \in DOMAIN info /\ s \in 1..info[i].splits /\ x \in Part1(i, s)
      BY <1>4
    <2> HIDE DEF i, s
    <2>2. x \in UNION {Part1(i, z) : z \in 1..info[i].splits}
      BY <2>1
    <2> QED BY <1>2, <1>3, <2>1, <2>2
  <1>7. Q!Rows(pick) \subseteq Piled(B, len)
    <2> SUFFICES ASSUME NEW x \in Q!Rows(pick) PROVE x \in Piled(B, len)
      OBVIOUS
    <2>1. PICK i \in DOMAIN info : x \in {i} \X pick.rows[i]
      BY <1>3
    <2>2. PICK s \in 1..info[i].splits : x \in Part1(i, s)
      BY <1>2, <2>1
    <2>3. PICK m \in 1..len : at[m] = <<i, s>>
      BY <1>5
    <2>4. at[m][1] = i /\ at[m][2] = s
      BY <2>3
    <2>5. x \in B[m]
      BY <1>4, <2>2, <2>4
    <2> QED BY <2>5 DEF Piled
  <1> QED BY <1>6, <1>7 DEF pick, B

\* Rows of a step are before the rows of a later one.
LEMMA MarksInOrder ==
  ASSUME ds \in Datasets, NEW info, NEW bitmap, Fitted(info, bitmap), NEW at, Walk(at, info),
         NEW l \in 1..Len(Todo(info)), NEW m \in 1..Len(Todo(info)), l < m,
         NEW x \in Marks(info, bitmap, at)[l], NEW y \in Marks(info, bitmap, at)[m]
  PROVE  x[1] < y[1] \/ (x[1] = y[1] /\ x[2] < y[2])
  <1> DEFINE k == Todo(info)[l]
             h == Todo(info)[m]
  <1>1. PICK a \in Set(bitmap[k]) : x = <<at[l][1], First(k) + a>>
    BY DEF Marks, Shifted
  <1>2. PICK b \in Set(bitmap[h]) : y = <<at[m][1], First(h) + b>>
    BY DEF Marks, Shifted
  <1>3. /\ k \in Key /\ k[2] >= 1 /\ First(k) \in Nat /\ SplitRows(k) \in Nat /\ SplitRows(k) =< Rps
        /\ Set(bitmap[k]) \in SUBSET (1..SplitRows(k))
        /\ h \in Key /\ h[2] >= 1 /\ First(h) \in Nat /\ SplitRows(h) \in Nat
        /\ Set(bitmap[h]) \in SUBSET (1..SplitRows(h))
    BY StepType
  <1>4. a \in Nat /\ a =< Rps /\ b \in Nat /\ b >= 1 /\ Rps \in Nat \ {0}
    BY <1>3, ViewAssumption
  <1>5. at[l][1] < at[m][1] \/ (at[l][1] = at[m][1] /\ at[l][2] < at[m][2])
    BY DEF Walk
  <1>6. k = <<info[at[l][1]].partition, at[l][2]>> /\ h = <<info[at[m][1]].partition, at[m][2]>>
    BY DEF Walk
  <1>7. CASE at[l][1] < at[m][1]
    BY <1>1, <1>2, <1>7
  <1>8. CASE at[l][1] = at[m][1] /\ at[l][2] < at[m][2]
    <2>1. k[2] < h[2]
      BY <1>6, <1>8
    <2> DEFINE s == k[2] - 1
               t == h[2] - 1
               c == Rps * s
               d == Rps * t
    <2>2. s \in Nat /\ t \in Nat /\ s < t
      BY <1>3, <2>1 DEF Key
    <2>3. First(k) = s * Rps /\ First(h) = t * Rps
      BY DEF First
    <2> HIDE DEF k, h, s, t
    <2>4. First(k) = c /\ First(h) = d /\ c + Rps =< d /\ c \in Nat /\ d \in Nat
      BY <1>4, <2>2, <2>3, Multiples
    <2> HIDE DEF c, d
    <2>5. c + a < d + b
      BY <1>4, <2>4
    <2>6. x[1] = y[1] /\ x[2] = c + a /\ y[2] = d + b
      BY <1>1, <1>2, <1>8, <2>4
    <2> QED BY <2>5, <2>6
  <1> QED BY <1>5, <1>7, <1>8

\* Shifting a set of bits does not change how many they are.
LEMMA ShiftedCount ==
  ASSUME NEW info, NEW at, NEW m, First(Todo(info)[m]) \in Nat,
         NEW n \in Nat, NEW S \in SUBSET (1..n)
  PROVE  /\ IsFiniteSet(Shifted(info, at, m, S))
         /\ Cardinality(Shifted(info, at, m, S)) = Cardinality(S)
  <1> DEFINE i == at[m][1]
             o == First(Todo(info)[m])
             T == {<<i, o + j>> : j \in S}
             g == [j \in S |-> <<i, o + j>>]
  <1>1. IsFiniteSet(S) /\ \A j \in S : j \in Nat
    <2>1. IsFiniteSet(1..n)
      BY FS_Interval
    <2> DEFINE X == 1..n
    <2>2. \A j \in X : j \in Nat
      OBVIOUS
    <2> HIDE DEF X
    <2>3. IsFiniteSet(X) /\ S \in SUBSET X
      BY <2>1 DEF X
    <2>4. IsFiniteSet(S)
      BY <2>3, FS_Subset
    <2> QED BY <2>2, <2>3, <2>4
  <1> HIDE DEF i, o
  <1>2. o \in Nat
    BY DEF o
  <1>3. \A a, b \in S : g[a] = g[b] => a = b
    BY <1>1, <1>2
  <1>4. g \in [S -> T] /\ \A y \in T : \E j \in S : g[j] = y
    OBVIOUS
  <1> HIDE DEF g, T
  <1>5. g \in Bijection(S, T)
    BY <1>3, <1>4 DEF Bijection, Injection, Surjection, IsInjective
  <1>6. ExistsBijection(S, T)
    BY <1>5 DEF ExistsBijection
  <1>7. IsFiniteSet(T) /\ Cardinality(T) = Cardinality(S)
    BY <1>1, <1>6, FS_Bijection
  <1> QED BY <1>7 DEF T, i, o, Shifted

\* Partial sums of the counts of the bitmaps.
BitSums(f, info, bitmap) ==
  /\ f \in [0..Len(Todo(info)) -> Nat]
  /\ f[0] = 0
  /\ \A m \in 1..Len(Todo(info)) : f[m] = f[m - 1] + Count(bitmap[Todo(info)[m]])

\* They count the rows of the first steps.
LEMMA MarksCount ==
  ASSUME ds \in Datasets, NEW info, NEW bitmap, Fitted(info, bitmap), NEW at, Walk(at, info),
         NEW f, BitSums(f, info, bitmap)
  PROVE  \A n \in 0..Len(Todo(info)) :
           /\ IsFiniteSet(Piled(Marks(info, bitmap, at), n))
           /\ Cardinality(Piled(Marks(info, bitmap, at), n)) = f[n]
  <1> DEFINE len == Len(Todo(info))
             B   == Marks(info, bitmap, at)
  <1>1. len \in Nat
    <2>1. Todo(info) \in Seq(Part \X Int)
      BY TodoType DEF Fitted
    <2> QED BY <2>1, LenProperties
  <1>2. ASSUME NEW m \in 1..len
        PROVE  IsFiniteSet(B[m]) /\ Cardinality(B[m]) = Count(bitmap[Todo(info)[m]])
    <2> DEFINE S == Set(bitmap[Todo(info)[m]])
               n == SplitRows(Todo(info)[m])
    <2>1. First(Todo(info)[m]) \in Nat /\ n \in Nat /\ S \in SUBSET (1..n)
      BY StepType
    <2>2. B[m] = Shifted(info, at, m, S)
      BY DEF Marks
    <2>3. Count(bitmap[Todo(info)[m]]) = Cardinality(S)
      BY DEF Count
    <2> HIDE DEF S, n
    <2>4. IsFiniteSet(Shifted(info, at, m, S))
          /\ Cardinality(Shifted(info, at, m, S)) = Cardinality(S)
      BY <2>1, ShiftedCount
    <2> QED BY <2>2, <2>3, <2>4
  <1>3. ASSUME NEW l \in 1..len, NEW m \in 1..len, l < m PROVE B[l] \cap B[m] = {}
    <2> SUFFICES ASSUME NEW x, x \in B[l], x \in B[m] PROVE FALSE
      OBVIOUS
    <2>1. x[1] < x[1] \/ (x[1] = x[1] /\ x[2] < x[2])
      BY <1>3, MarksInOrder
    <2>2. x[1] \in Nat /\ x[2] \in Nat
      <3>1. PICK j \in Set(bitmap[Todo(info)[m]]) : x = <<at[m][1], First(Todo(info)[m]) + j>>
        BY DEF Marks, Shifted
      <3>2. First(Todo(info)[m]) \in Nat /\ j \in 1..SplitRows(Todo(info)[m])
        BY StepType
      <3>3. at[m] \in Nat \X Nat
        BY DEF Walk
      <3> QED BY <3>1, <3>2, <3>3
    <2> QED BY <2>1, <2>2
  <1>4. /\ f \in [0..len -> Nat] /\ f[0] = 0
        /\ \A m \in 1..len : f[m] = f[m - 1] + Cardinality(B[m])
    BY <1>2 DEF BitSums
  <1> HIDE DEF B, len
  <1>5. \A n \in 0..len : IsFiniteSet(Piled(B, n)) /\ Cardinality(Piled(B, n)) = f[n]
    BY <1>1, <1>2, <1>3, <1>4, PiledCount
  <1> QED BY <1>5 DEF B, len

\* The number of rows that are picked.
LEMMA PickCount ==
  ASSUME ds \in Datasets, NEW info, NEW bitmap, Fitted(info, bitmap),
         NEW f, BitSums(f, info, bitmap), NEW n
  PROVE  Cardinality(Q!Rows(Pick(info, bitmap, n))) = f[Len(Todo(info))]
  <1>1. PICK at : Walk(at, info)
    BY TodoWalk DEF Fitted
  <1>2. Q!Rows(Pick(info, bitmap, n)) = Piled(Marks(info, bitmap, at), Len(Todo(info)))
    BY <1>1, RowsAreMarks
  <1>3. Len(Todo(info)) \in 0..Len(Todo(info))
    <2>1. Todo(info) \in Seq(Part \X Int)
      BY TodoType DEF Fitted
    <2> QED BY <2>1, LenProperties
  <1> QED BY <1>1, <1>2, <1>3, MarksCount

\* The rows of a set that are not after a row.
UpTo(R, row) == {r \in R : r[1] < row[1] \/ (r[1] = row[1] /\ r[2] =< row[2])}

\* The place of a row among those that are picked.
LEMMA PlaceOfMark ==
  ASSUME ds \in Datasets, NEW info, NEW bitmap, Fitted(info, bitmap), NEW at, Walk(at, info),
         NEW f, BitSums(f, info, bitmap), NEW n,
         NEW m \in 1..Len(Todo(info)), NEW j \in Set(bitmap[Todo(info)[m]])
  PROVE  Cardinality(UpTo(Q!Rows(Pick(info, bitmap, n)), <<at[m][1], First(Todo(info)[m]) + j>>))
           = f[m - 1] + Rank(Set(bitmap[Todo(info)[m]]), j)
  <1> DEFINE len == Len(Todo(info))
             B   == Marks(info, bitmap, at)
             k   == Todo(info)[m]
             S   == Set(bitmap[k])
             U   == {l \in S : l =< j}
             i   == at[m][1]
             o   == First(k)
             row == <<i, o + j>>
             R   == Q!Rows(Pick(info, bitmap, n))
             X   == Piled(B, m - 1)
             Y   == Shifted(info, at, m, U)
  <1>1. R = Piled(B, len)
    BY RowsAreMarks
  <1>2. len \in Nat /\ m \in 1..len /\ m - 1 \in 0..len /\ 1..m - 1 \subseteq 1..len
    <2>1. Todo(info) \in Seq(Part \X Int)
      BY TodoType DEF Fitted
    <2>2. len \in Nat
      BY <2>1, LenProperties
    <2> HIDE DEF len
    <2> QED BY <2>2 DEF len
  <1>3. o \in Nat /\ SplitRows(k) \in Nat /\ S \in SUBSET (1..SplitRows(k))
    BY StepType
  <1>4. IsFiniteSet(X) /\ Cardinality(X) = f[m - 1] /\ f[m - 1] \in Nat
    <2>1. IsFiniteSet(X) /\ Cardinality(X) = f[m - 1]
      BY <1>2, MarksCount
    <2>2. f[m - 1] \in Nat
      BY <1>2 DEF BitSums
    <2> QED BY <2>1, <2>2
  <1>5. IsFiniteSet(Y) /\ Cardinality(Y) = Rank(S, j) /\ Cardinality(Y) \in Nat
    <2>1. U \in SUBSET (1..SplitRows(k))
      BY <1>3
    <2>2. Rank(S, j) = Cardinality(U)
      BY DEF Rank
    <2> DEFINE c == SplitRows(k)
    <2>3. First(Todo(info)[m]) \in Nat /\ c \in Nat /\ U \in SUBSET (1..c)
      BY <1>3, <2>1
    <2> HIDE DEF U, c
    <2>4. IsFiniteSet(Y) /\ Cardinality(Y) = Cardinality(U)
      BY <2>3, ShiftedCount
    <2> QED BY <2>2, <2>4, FS_CardinalityType
  <1>6. B[m] = {<<i, o + l>> : l \in S} /\ Y = {<<i, o + l>> : l \in U}
    BY <1>2 DEF Marks, Shifted
  <1>7. i \in Nat /\ \A l \in S : l \in Nat
    BY <1>2, <1>3 DEF Walk
  <1>8. row \in B[m] /\ row[1] = i /\ row[2] = o + j
    BY <1>6
  <1>9. \A l \in 1..len : \A x \in B[l] : x[1] \in Nat /\ x[2] \in Nat
    <2> SUFFICES ASSUME NEW l \in 1..len, NEW x \in B[l] PROVE x[1] \in Nat /\ x[2] \in Nat
      OBVIOUS
    <2>1. PICK z \in Set(bitmap[Todo(info)[l]]) : x = <<at[l][1], First(Todo(info)[l]) + z>>
      BY DEF Marks, Shifted
    <2>2. First(Todo(info)[l]) \in Nat /\ z \in 1..SplitRows(Todo(info)[l])
      BY StepType
    <2>3. at[l] \in Nat \X Nat
      BY DEF Walk
    <2> QED BY <2>1, <2>2, <2>3
  <1>10. ASSUME NEW a \in 1..len, NEW b \in 1..len, a < b, NEW x \in B[a], NEW y \in B[b]
         PROVE  x[1] < y[1] \/ (x[1] = y[1] /\ x[2] < y[2])
    BY <1>10, MarksInOrder
  <1> HIDE DEF B, k, i, o, R, X, Y, len, S
  <1>11. ASSUME NEW x \in X PROVE x \in UpTo(R, row) /\ x \notin Y
    <2>1. PICK l \in 1..m - 1 : x \in B[l]
      BY DEF X, Piled
    <2>2. l \in 1..len /\ l < m
      BY <1>2
    <2>3. x \in R
      BY <1>1, <2>1, <2>2 DEF Piled
    <2>4. \A y \in B[m] : x[1] < y[1] \/ (x[1] = y[1] /\ x[2] < y[2])
      BY <1>2, <1>10, <2>1, <2>2
    <2>5. x[1] \in Nat /\ x[2] \in Nat
      BY <1>9, <2>1, <2>2
    <2>6. x \in UpTo(R, row)
      <3>1. x[1] < row[1] \/ (x[1] = row[1] /\ x[2] < row[2])
        BY <1>8, <2>4
      <3>2. row[2] \in Nat
        BY <1>2, <1>8, <1>9
      <3> QED BY <2>3, <2>5, <3>1, <3>2 DEF UpTo
    <2>7. x \notin B[m]
      BY <2>4, <2>5
    <2>8. Y \subseteq B[m]
      BY <1>6
    <2> QED BY <2>6, <2>7, <2>8
  <1>12. ASSUME NEW x \in Y PROVE x \in UpTo(R, row)
    <2>1. PICK l \in S : l =< j /\ x = <<i, o + l>>
      BY <1>6
    <2>2. x \in R
      BY <1>1, <1>2, <1>6, <2>1 DEF Piled
    <2>3. x[1] = i /\ x[2] = o + l /\ l \in Nat /\ j \in Nat
      BY <1>7, <2>1 DEF S, k
    <2>4. x[2] =< row[2]
      BY <1>3, <1>8, <2>1, <2>3
    <2> QED BY <1>8, <2>2, <2>3, <2>4 DEF UpTo
  <1>13. ASSUME NEW x \in UpTo(R, row) PROVE x \in X \cup Y
    <2>1. x \in R /\ (x[1] < row[1] \/ (x[1] = row[1] /\ x[2] =< row[2]))
      BY DEF UpTo
    <2>2. PICK l \in 1..len : x \in B[l]
      BY <1>1, <2>1 DEF Piled
    <2>3. x[1] \in Nat /\ x[2] \in Nat /\ row[1] \in Nat /\ row[2] \in Nat
      BY <1>2, <1>8, <1>9, <2>2
    <2>4. CASE l < m
      <3>1. l \in 1..m - 1
        BY <1>2, <2>4
      <3> QED BY <2>2, <3>1 DEF X, Piled
    <2>5. CASE l = m
      <3>1. PICK z \in S : x = <<i, o + z>>
        BY <1>6, <2>2, <2>5
      <3>2. x[2] = o + z /\ x[1] = i /\ z \in Nat /\ j \in Nat
        BY <1>7, <3>1 DEF S, k
      <3>3. o + z =< o + j
        BY <1>8, <2>1, <2>3, <3>2
      <3>4. z =< j
        BY <1>3, <3>2, <3>3
      <3> QED BY <1>6, <3>1, <3>4
    <2>6. CASE m < l
      <3>1. row[1] < x[1] \/ (row[1] = x[1] /\ row[2] < x[2])
        BY <1>2, <1>8, <1>10, <2>2, <2>6
      <3> QED BY <2>1, <2>3, <3>1
    <2>7. l < m \/ l = m \/ m < l
      BY <1>2
    <2> QED BY <2>4, <2>5, <2>6, <2>7
  <1>14. UpTo(R, row) = X \cup Y
    BY <1>11, <1>12, <1>13
  <1>15. X \cap Y = {}
    BY <1>11
  <1>16. Cardinality(X \cup Y) = Cardinality(X) + Cardinality(Y) - Cardinality(X \cap Y)
    <2>1. IsFiniteSet(X) /\ IsFiniteSet(Y)
      BY <1>4, <1>5
    <2> QED BY <2>1, FS_Union
  <1>17. Cardinality(X \cap Y) = 0
    BY <1>15, FS_EmptySet
  <1>18. Cardinality(UpTo(R, row)) = f[m - 1] + Rank(S, j)
    <2>1. Cardinality(X \cup Y) = f[m - 1] + Rank(S, j)
      <3> DEFINE c == Rank(S, j)
      <3> HIDE DEF c
      <3>1. Cardinality(Y) = c /\ c \in Nat
        BY <1>5 DEF c
      <3>2. Cardinality(X \cup Y) = f[m - 1] + c
        BY <1>4, <1>16, <1>17, <3>1
      <3> QED BY <3>2 DEF c
    <2> QED BY <1>14, <2>1
  <1> QED BY <1>18 DEF R, S, i, o, k

\* A list of partitions with the splits they have, and the bitmap a condition
\* gives for every one of them.
Faithful(info, bitmap, cond) ==
  /\ info \in Seq(Places)
  /\ \A i \in DOMAIN info : info[i].splits = Splits(info[i].partition)
  /\ \A m \in 1..Len(Todo(info)) : Selects(bitmap, Todo(info)[m], cond)

\* The steps of a walk are keys.
LEMMA TodoKeys ==
  ASSUME NEW info \in Seq(Places)
  PROVE  /\ Len(Todo(info)) \in Nat
         /\ \A m \in 1..Len(Todo(info)) : Todo(info)[m] \in Key
  <1> DEFINE todo == Todo(info)
  <1>1. todo \in Seq(Key)
    BY TodoType DEF Key
  <1> HIDE DEF todo
  <1>2. Len(todo) \in Nat /\ \A m \in 1..Len(todo) : todo[m] \in Key
    BY <1>1, LenProperties, ElementOfSeq
  <1> QED BY <1>2 DEF todo

\* Bitmaps that a condition gives are as long as their splits.
LEMMA FaithfulFitted ==
  ASSUME ds \in Datasets, NEW cond \in Expr, ComparesColumns(cond),
         NEW info, NEW bitmap, Faithful(info, bitmap, cond)
  PROVE  Fitted(info, bitmap)
  <1> SUFFICES ASSUME NEW m \in 1..Len(Todo(info))
               PROVE  /\ Todo(info)[m][2] >= 1
                      /\ DOMAIN bitmap[Todo(info)[m]] = 1..SplitRows(Todo(info)[m])
    BY DEF Fitted, Faithful
  <1> DEFINE k == Todo(info)[m]
  <1>1. k \in Key
    BY TodoKeys DEF Faithful
  <1>2. Selects(bitmap, k, cond)
    BY DEF Faithful
  <1> HIDE DEF k
  <1>3. k[2] >= 1 /\ DOMAIN bitmap[k] = 1..SplitRows(k)
    BY <1>1, <1>2, SelectsRows
  <1> QED BY <1>3 DEF k

\* What such bitmaps pick are the rows that satisfy the condition.
LEMMA FaithfulPicks ==
  ASSUME ds \in Datasets, NEW cond \in Expr, ComparesColumns(cond),
         NEW info, NEW bitmap, Faithful(info, bitmap, cond), NEW n,
         NEW i \in DOMAIN info
  PROVE  Q!Picks(cond, Names(info)[i], Pick(info, bitmap, n).rows[i])
  <1> DEFINE p    == info[i].partition
             rows == Pick(info, bitmap, n).rows[i]
  <1>1. Fitted(info, bitmap)
    BY FaithfulFitted
  <1>2. PICK at : Walk(at, info)
    BY <1>1, TodoWalk DEF Fitted
  <1>3. p \in Part /\ info[i].splits = Splits(p)
    <2>1. info[i] \in Places
      BY LenProperties, ElementOfSeq DEF Faithful
    <2> QED BY <2>1 DEF Places, Faithful
  <1>4. ASSUME NEW s \in 1..Splits(p)
        PROVE  <<p, s>> \in Key /\ s >= 1 /\ Selects(bitmap, <<p, s>>, cond)
    <2>1. PICK m \in 1..Len(Todo(info)) : at[m] = <<i, s>>
      BY <1>2, <1>3 DEF Walk
    <2>2. Todo(info)[m] = <<info[at[m][1]].partition, at[m][2]>>
      BY <1>2 DEF Walk
    <2>3. Todo(info)[m] = <<p, s>>
      BY <2>1, <2>2
    <2>4. Todo(info)[m] \in Key
      BY TodoKeys DEF Faithful
    <2>5. Selects(bitmap, Todo(info)[m], cond)
      BY DEF Faithful
    <2>6. s >= 1
      BY <1>3, SplitCount
    <2> QED BY <2>3, <2>4, <2>5, <2>6
  <1>5. rows = UNION {{(s - 1) * Rps + j : j \in Set(bitmap[<<p, s>>])} : s \in 1..Splits(p)}
    BY <1>3 DEF Pick
  <1>6. Names(info)[i] = p
    BY DEF Names
  <1> HIDE DEF p, rows
  <1>7. ASSUME NEW s \in 1..Splits(p)
        PROVE  /\ Set(bitmap[<<p, s>>]) = {j \in 1..SplitRows(<<p, s>>) : bitmap[<<p, s>>][j]}
               /\ First(<<p, s>>) = (s - 1) * Rps
               /\ \A j \in 1..SplitRows(<<p, s>>) :
                    /\ First(<<p, s>>) + j \in 1..RowCount(p)
                    /\ ((First(<<p, s>>) + j) - 1) \div Rps = s - 1
                    /\ (First(<<p, s>>) + j) - (s - 1) * Rps = j
                    /\ Sure(cond, ds[p], First(<<p, s>>) + j) =>
                         (bitmap[<<p, s>>][j] <=> Truth(cond, Q!Row(p, First(<<p, s>>) + j)))
    <2> DEFINE k == <<p, s>>
    <2>1. k \in Key /\ k[2] >= 1 /\ Selects(bitmap, k, cond) /\ k[1] = p /\ k[2] = s
      BY <1>4
    <2> HIDE DEF k
    <2>2. /\ DOMAIN bitmap[k] = 1..SplitRows(k)
          /\ \A j \in 1..SplitRows(k) :
               Sure(cond, ds[k[1]], First(k) + j) =>
                 (bitmap[k][j] <=> Truth(cond, Q!Row(k[1], First(k) + j)))
      BY <2>1, SelectsRows
    <2>3. PICK c \in Col : TRUE
      BY ViewAssumption
    <2>4. \A j \in 1..SplitRows(k) : First(k) + j \in 1..RowCount(k[1])
      BY <2>1, <2>3, SplitCells
    <2>5. \A j \in 1..SplitRows(k) : /\ ((First(k) + j) - 1) \div Rps = k[2] - 1
                                     /\ (First(k) + j) - (k[2] - 1) * Rps = j
      BY <2>1, RowOfSplit
    <2>6. Set(bitmap[k]) = {j \in 1..SplitRows(k) : bitmap[k][j]}
      BY <2>2 DEF Set
    <2>7. First(k) = (k[2] - 1) * Rps
      BY DEF First
    <2>8. \A j \in 1..SplitRows(k) :
            /\ First(k) + j \in 1..RowCount(p)
            /\ ((First(k) + j) - 1) \div Rps = s - 1
            /\ (First(k) + j) - (s - 1) * Rps = j
            /\ Sure(cond, ds[p], First(k) + j) =>
                 (bitmap[k][j] <=> Truth(cond, Q!Row(p, First(k) + j)))
      BY <2>1, <2>2, <2>4, <2>5
    <2>9. First(k) = (s - 1) * Rps
      BY <2>1, <2>7
    <2> QED BY <2>6, <2>8, <2>9 DEF k
  <1>8. Q!RowsOf(p) = 1..RowCount(p)
    <2> DEFINE b == CHOOSE c \in Col : TRUE
    <2>1. b \in Col
      BY ViewAssumption
    <2> HIDE DEF b
    <2>2. DOMAIN ds[p][b] = 1..RowCount(p)
      BY <1>3, <2>1, RowCountType DEF p
    <2> QED BY <2>2 DEF Q!RowsOf, b
  <1>9. rows \subseteq Q!RowsOf(p)
    <2> SUFFICES ASSUME NEW r \in rows PROVE r \in 1..RowCount(p)
      BY <1>8
    <2>1. PICK s \in 1..Splits(p) : \E j \in Set(bitmap[<<p, s>>]) : r = (s - 1) * Rps + j
      BY <1>5
    <2>2. PICK j \in Set(bitmap[<<p, s>>]) : r = First(<<p, s>>) + j
      BY <1>7, <2>1
    <2>3. j \in 1..SplitRows(<<p, s>>)
      BY <1>7
    <2> QED BY <1>7, <2>2, <2>3
  <1>10. ASSUME NEW r \in 1..RowCount(p), Sure(cond, ds[p], r)
         PROVE  r \in rows <=> Truth(cond, Q!Row(p, r))
    <2>1. PICK s \in 1..Splits(p) : \E j \in 1..SplitRows(<<p, s>>) : r = First(<<p, s>>) + j
      BY <1>3, SplitOfRow DEF p
    <2>2. PICK j \in 1..SplitRows(<<p, s>>) : r = First(<<p, s>>) + j
      BY <2>1
    <2>3. bitmap[<<p, s>>][j] <=> Truth(cond, Q!Row(p, r))
      BY <1>7, <1>10, <2>2
    <2>4. ASSUME bitmap[<<p, s>>][j] PROVE r \in rows
      <3>1. j \in Set(bitmap[<<p, s>>])
        BY <1>7, <2>4
      <3>2. r = (s - 1) * Rps + j
        BY <1>7, <2>2
      <3> QED BY <1>5, <3>1, <3>2
    <2>5. ASSUME r \in rows PROVE bitmap[<<p, s>>][j]
      <3>1. PICK t \in 1..Splits(p) : \E l \in Set(bitmap[<<p, t>>]) : r = (t - 1) * Rps + l
        BY <1>5, <2>5
      <3>2. PICK l \in Set(bitmap[<<p, t>>]) : r = First(<<p, t>>) + l
        BY <1>7, <3>1
      <3>3. l \in 1..SplitRows(<<p, t>>) /\ bitmap[<<p, t>>][l]
        BY <1>7
      <3>4. (r - 1) \div Rps = t - 1 /\ r - (t - 1) * Rps = l
        BY <1>7, <3>2, <3>3
      <3>5. (r - 1) \div Rps = s - 1 /\ r - (s - 1) * Rps = j
        BY <1>7, <2>2
      <3>6. s \in Int /\ t \in Int
        OBVIOUS
      <3>7. s = t
        <4> DEFINE q == (r - 1) \div Rps
        <4> HIDE DEF q
        <4>1. q = t - 1 /\ q = s - 1
          BY <3>4, <3>5 DEF q
        <4> QED BY <3>6, <4>1
      <3>8. j = l
        BY <3>4, <3>5, <3>7
      <3> QED BY <3>3, <3>7, <3>8
    <2> QED BY <2>3, <2>4, <2>5
  <1>11. Q!Picks(cond, p, rows)
    BY <1>8, <1>9, <1>10 DEF Q!Picks
  <1> QED BY <1>6, <1>11 DEF rows

-----------------------------------------------------------------------------
(* The order of the partitions of a view.                                   *)

\* Query counts with the same library.
LEMMA SameCount ==
  /\ \A S : Q!Cardinality(S) = Cardinality(S)
  /\ \A s : Q!ToSet(s) = ToSet(s)
  <1>1. \A S : Q!Cardinality(S) = Cardinality(S)
    BY Zenon DEF Q!Cardinality, Cardinality
  <1> QED BY <1>1 DEF Q!ToSet, ToSet

\* The numbers of a list up to p.
Below(list, p) == {j \in DOMAIN list : list[j] =< p}

\* Sorting gives names of the list, and the i-th is at most p when there are i
\* names up to p.
LEMMA SortedBelow ==
  ASSUME NEW list \in Seq(Nat), NEW i \in DOMAIN list
  PROVE  /\ Sorted(list)[i] \in ToSet(list)
         /\ Cardinality(Below(list, Sorted(list)[i])) >= i
         /\ \A p \in ToSet(list) : Cardinality(Below(list, p)) >= i => Sorted(list)[i] =< p
  <1> DEFINE C == {p \in ToSet(list) : Cardinality(Below(list, p)) >= i}
  <1>1. /\ Len(list) \in Nat /\ DOMAIN list = 1..Len(list)
        /\ \A j \in DOMAIN list : list[j] \in Nat
    BY LenProperties, ElementOfSeq
  <1>2. list # <<>>
    BY <1>1, EmptySeq
  <1>3. PICK m \in DOMAIN list : \A j \in DOMAIN list : list[j] =< list[m]
    BY <1>2, LargestOf
  <1>4. Below(list, list[m]) = 1..Len(list)
    BY <1>1, <1>3 DEF Below
  <1>5. Cardinality(1..Len(list)) = Len(list)
    <2>1. \A n \in Nat : Cardinality(1..n) = n
      <3> SUFFICES ASSUME NEW n \in Nat PROVE Cardinality(1..n) = n
        OBVIOUS
      <3>1. Cardinality(1..n) = IF 1 > n THEN 0 ELSE n - 1 + 1
        BY FS_Interval
      <3> QED BY <3>1
    <2> QED BY <1>1, <2>1
  <1>6. list[m] \in C
    BY <1>1, <1>4, <1>5 DEF ToSet
  <1>7. C \in SUBSET Nat /\ C # {} /\ C \subseteq ToSet(list)
    <2>1. \A p \in ToSet(list) : p \in Nat
      BY <1>1 DEF ToSet
    <2> QED BY <1>6, <2>1
  <1>8. Sorted(list)[i] = Min(C)
    BY DEF Sorted, Below
  <1>9. Min(C) \in C /\ \A p \in C : Min(C) =< p
    <2> HIDE DEF C
    <2> QED BY <1>7, LeastOf
  <1> QED BY <1>8, <1>9

\* Sets of places of a list are finite, and larger sets have more of them.
LEMMA PlacesFinite ==
  ASSUME NEW n \in Nat, NEW S \in SUBSET (1..n)
  PROVE  /\ IsFiniteSet(S) /\ Cardinality(S) \in Nat /\ Cardinality(S) =< n
         /\ \A T \in SUBSET S : /\ IsFiniteSet(T) /\ Cardinality(T) \in Nat
                                /\ Cardinality(T) =< Cardinality(S)
                                /\ Cardinality(S \ T) = Cardinality(S) - Cardinality(T)
  <1> DEFINE X == 1..n
  <1>1. IsFiniteSet(X) /\ Cardinality(X) = n
    <2>1. IsFiniteSet(1..n) /\ Cardinality(1..n) = IF 1 > n THEN 0 ELSE n - 1 + 1
      BY FS_Interval
    <2> QED BY <2>1
  <1>2. S \in SUBSET X
    OBVIOUS
  <1> HIDE DEF X
  <1>3. IsFiniteSet(S) /\ Cardinality(S) =< n
    BY <1>1, <1>2, FS_Subset
  <1>4. ASSUME NEW T \in SUBSET S
        PROVE  /\ IsFiniteSet(T) /\ Cardinality(T) \in Nat
               /\ Cardinality(T) =< Cardinality(S)
               /\ Cardinality(S \ T) = Cardinality(S) - Cardinality(T)
    <2>1. IsFiniteSet(T) /\ Cardinality(T) =< Cardinality(S)
      BY <1>3, FS_Subset
    <2> DEFINE Y == S \ T
    <2>2. Y \in SUBSET S /\ S = T \cup Y /\ T \cap Y = {}
      OBVIOUS
    <2> HIDE DEF Y
    <2>3. IsFiniteSet(Y)
      BY <1>3, <2>2, FS_Subset
    <2>4. Cardinality(T \cup Y) = Cardinality(T) + Cardinality(Y) - Cardinality(T \cap Y)
      BY <2>1, <2>3, FS_Union
    <2>5. Cardinality(T \cap Y) = 0
      BY <2>2, FS_EmptySet
    <2>6. Cardinality(T) \in Nat /\ Cardinality(Y) \in Nat
      BY <2>1, <2>3, FS_CardinalityType
    <2>7. Cardinality(S) = Cardinality(T) + Cardinality(Y)
      BY <2>2, <2>4, <2>5, <2>6
    <2>8. Cardinality(Y) = Cardinality(S) - Cardinality(T)
      BY <2>6, <2>7
    <2> QED BY <2>1, <2>6, <2>8 DEF Y
  <1> QED BY <1>3, <1>4, FS_CardinalityType

\* partitions_list sorts: partitions are in order, each as often as it was
\* asked for.
LEMMA SortedInOrder ==
  ASSUME NEW list \in Seq(Nat)
  PROVE  Q!InOrder(Sorted(list), list)
  <1> DEFINE len == Len(list)
             s   == Sorted(list)
             c(p) == Cardinality(Below(list, p))
             W(p) == {j \in DOMAIN list : list[j] < p}
  <1>1. len \in Nat /\ DOMAIN list = 1..len /\ \A j \in 1..len : list[j] \in Nat
    BY LenProperties, ElementOfSeq
  <1>2. DOMAIN s = DOMAIN list
    BY DEF Sorted
  <1>3. \A p \in ToSet(list) : p \in Nat
    BY <1>1 DEF ToSet
  <1> HIDE DEF len
  <1>4. ASSUME NEW i \in 1..len
        PROVE  /\ s[i] \in ToSet(list) /\ s[i] \in Nat /\ c(s[i]) >= i
               /\ \A p \in ToSet(list) : c(p) >= i => s[i] =< p
    BY <1>1, <1>3, SortedBelow
  <1>5. \A p : Below(list, p) \in SUBSET (1..len) /\ W(p) \in SUBSET (1..len)
    BY <1>1 DEF Below
  <1>6. \A p : c(p) \in Nat /\ c(p) =< len
    <2> SUFFICES ASSUME NEW p PROVE c(p) \in Nat /\ c(p) =< len
      OBVIOUS
    <2> QED BY <1>1, <1>5, PlacesFinite
  <1>7. \A p, q \in Nat : p =< q => c(p) =< c(q)
    <2> SUFFICES ASSUME NEW p \in Nat, NEW q \in Nat, p =< q PROVE c(p) =< c(q)
      OBVIOUS
    <2>1. Below(list, p) \in SUBSET Below(list, q)
      BY <1>1 DEF Below
    <2> QED BY <1>1, <1>5, <2>1, PlacesFinite
  <1> HIDE DEF s
  <1>8. ASSUME NEW i \in 1..len, NEW p \in ToSet(list) PROVE s[i] =< p <=> i =< c(p)
    <2>1. s[i] =< p => c(s[i]) =< c(p)
      BY <1>3, <1>4, <1>7
    <2>2. c(s[i]) \in Nat /\ c(p) \in Nat
      BY <1>6
    <2> HIDE DEF c
    <2> QED BY <1>4, <2>1, <2>2
  <1>9. \A i, j \in 1..len : i < j => s[i] =< s[j]
    <2> SUFFICES ASSUME NEW i \in 1..len, NEW j \in 1..len, i < j PROVE s[i] =< s[j]
      OBVIOUS
    <2>1. c(s[j]) >= j /\ s[j] \in ToSet(list)
      BY <1>4
    <2>2. c(s[j]) \in Nat
      BY <1>6
    <2> HIDE DEF c
    <2>3. c(s[j]) >= i
      BY <2>1, <2>2
    <2> QED BY <1>4, <2>1, <2>3
  <1>10. ASSUME NEW p \in ToSet(list)
         PROVE  Cardinality({i \in 1..len : s[i] = p}) = Cardinality({j \in DOMAIN list : list[j] = p})
    <2> DEFINE w == Cardinality(W(p))
    <2>1. w \in Nat
      BY <1>1, <1>5, PlacesFinite
    <2>2. Below(list, p) \ W(p) = {j \in DOMAIN list : list[j] = p}
      BY <1>1, <1>3 DEF Below
    <2>3. W(p) \in SUBSET Below(list, p)
      BY <1>1, <1>3 DEF Below
    <2>4. Cardinality({j \in DOMAIN list : list[j] = p}) = c(p) - w /\ w =< c(p)
      <3>1. Cardinality(Below(list, p) \ W(p)) = c(p) - w /\ w =< c(p)
        <4> DEFINE X == Below(list, p)
                   Y == W(p)
        <4>1. X \in SUBSET (1..len) /\ Y \in SUBSET X
          BY <1>5, <2>3
        <4> HIDE DEF X, Y
        <4>2. Cardinality(X \ Y) = Cardinality(X) - Cardinality(Y) /\ Cardinality(Y) =< Cardinality(X)
          BY <1>1, <4>1, PlacesFinite
        <4> QED BY <4>2 DEF X, Y
      <3> QED BY <2>2, <3>1
    <2>5. ASSUME NEW i \in 1..len, s[i] < p PROVE i =< w
      <3>1. Below(list, s[i]) \in SUBSET W(p)
        <4>1. s[i] \in Nat /\ p \in Nat
          BY <1>3, <1>4
        <4>2. \A j \in DOMAIN list : list[j] =< s[i] => list[j] < p
          BY <1>1, <2>5, <4>1
        <4> QED BY <4>2 DEF Below
      <3>2. c(s[i]) =< w
        <4> DEFINE Y == W(p)
        <4>1. Y \in SUBSET (1..len) /\ Below(list, s[i]) \in SUBSET Y
          BY <1>5, <3>1
        <4> HIDE DEF Y
        <4>2. Cardinality(Below(list, s[i])) =< Cardinality(Y)
          BY <1>1, <4>1, PlacesFinite
        <4> QED BY <4>2 DEF Y
      <3>3. c(s[i]) >= i /\ c(s[i]) \in Nat
        BY <1>4, <1>6
      <3> HIDE DEF c, w
      <3> QED BY <2>1, <3>2, <3>3
    <2>6. ASSUME NEW i \in 1..len, i =< w PROVE s[i] < p
      <3> DEFINE S == {m \in Nat : \A j \in W(p) : list[j] =< m}
                 q == Min(S)
      <3>1. p \in S
        BY <1>1, <1>3
      <3>2. q \in S /\ \A m \in S : q =< m
        <4>1. S \in SUBSET Nat /\ S # {}
          BY <3>1
        <4> HIDE DEF S
        <4> QED BY <4>1, LeastOf
      <3> HIDE DEF q
      <3>3. q \in Nat /\ \A j \in W(p) : list[j] =< q
        BY <3>2
      <3>4. PICK b \in W(p) : TRUE
        <4>1. W(p) # {}
          <5> SUFFICES ASSUME W(p) = {} PROVE FALSE
            OBVIOUS
          <5>1. w = 0
            BY FS_EmptySet
          <5> HIDE DEF w
          <5> QED BY <2>6, <5>1
        <4> QED BY <4>1
      <3>5. PICK a \in W(p) : list[a] = q
        <4> SUFFICES ASSUME \A j \in W(p) : list[j] # q PROVE FALSE
          OBVIOUS
        <4>1. \A j \in W(p) : list[j] =< q - 1
          BY <1>1, <3>3
        <4>2. list[b] \in Nat /\ list[b] =< q - 1
          BY <1>1, <4>1
        <4>3. q - 1 \in Nat
          BY <3>3, <4>2
        <4>4. q - 1 \in S
          BY <4>1, <4>3
        <4> QED BY <3>2, <3>3, <4>4
      <3>6. q < p /\ q \in ToSet(list)
        BY <1>1, <3>5 DEF ToSet
      <3>7. Below(list, q) = W(p)
        BY <1>1, <1>3, <3>3, <3>6 DEF Below
      <3>8. c(q) = w
        BY <3>7
      <3> HIDE DEF c, w
      <3>9. s[i] =< q
        BY <1>8, <2>6, <3>6, <3>8
      <3> QED BY <1>3, <1>4, <3>3, <3>6, <3>9
    <2>7. \A i \in 1..len : s[i] = p <=> (w + 1 =< i /\ i =< c(p))
      <3> SUFFICES ASSUME NEW i \in 1..len PROVE s[i] = p <=> (w + 1 =< i /\ i =< c(p))
        OBVIOUS
      <3>1. s[i] < p <=> i =< w
        BY <2>5, <2>6
      <3>2. s[i] =< p <=> i =< c(p)
        BY <1>8
      <3>3. s[i] \in Nat /\ p \in Nat
        BY <1>3, <1>4
      <3> HIDE DEF c, w
      <3> QED BY <2>1, <3>1, <3>2, <3>3
    <2>8. c(p) \in Nat /\ c(p) =< len
      BY <1>6
    <2> DEFINE d == c(p)
    <2> HIDE DEF d, w
    <2>9. {i \in 1..len : s[i] = p} = w + 1..d
      <3>1. \A i \in 1..len : s[i] = p <=> (w + 1 =< i /\ i =< d)
        BY <2>7 DEF d
      <3>2. d \in Nat /\ d =< len
        BY <2>8 DEF d
      <3> QED BY <1>1, <2>1, <3>1, <3>2
    <2>10. Cardinality(w + 1..d) = d - w
      <3>1. d \in Nat /\ w + 1 \in Int /\ w =< d
        BY <2>1, <2>4, <2>8 DEF d
      <3> DEFINE z == w + 1
      <3> HIDE DEF z
      <3>2. Cardinality(z..d) = IF z > d THEN 0 ELSE d - z + 1
        BY <3>1, FS_Interval DEF z
      <3> QED BY <2>1, <3>1, <3>2 DEF z
    <2> QED BY <2>4, <2>9, <2>10 DEF d
  <1>11. DOMAIN s = 1..len
    BY <1>1, <1>2
  <1>12. Q!InOrder(s, list)
    <2>1. \A i, j \in DOMAIN s : i < j => s[i] =< s[j]
      BY <1>9, <1>11
    <2>2. ASSUME NEW p \in Q!ToSet(list)
          PROVE  Q!Cardinality({i \in DOMAIN s : s[i] = p}) = Q!Cardinality({i \in DOMAIN list : list[i] = p})
      <3>1. p \in ToSet(list)
        BY SameCount
      <3>2. Cardinality({i \in DOMAIN s : s[i] = p}) = Cardinality({i \in DOMAIN list : list[i] = p})
        BY <1>10, <1>11, <3>1
      <3>3. \A S : Q!Cardinality(S) = Cardinality(S)
        BY SameCount
      <3> DEFINE X == {i \in DOMAIN s : s[i] = p}
                 Y == {i \in DOMAIN list : list[i] = p}
      <3>4. Cardinality(X) = Cardinality(Y)
        BY <3>2
      <3> HIDE DEF X, Y
      <3>5. Q!Cardinality(X) = Q!Cardinality(Y)
        BY <3>3, <3>4
      <3> QED BY <3>5 DEF X, Y
    <2> QED BY <1>2, <2>1, <2>2 DEF Q!InOrder
  <1> QED BY <1>12 DEF s

-----------------------------------------------------------------------------
(* What loops and views have to do with their conditions.                   *)

\* A list of partitions has the splits that they have.
Measured(info) == \A i \in DOMAIN info : info[i].splits = Splits(info[i].partition)

Chosen ==
  /\ v.columns \in Seq(Col)
  /\ Measured(v.partitions) /\ Measured(filtered)

\* A running filter has the bitmaps its condition gives, so far.
Picking ==
  loop.pc = "filter" =>
    /\ Parse[loop.cond] # Error
    /\ \A m \in 1..loop.i - 1 : Selects(loop.bitmap, loop.todo[m], loop.cond)

\* And the view those of the condition of its last filter.
Picked ==
  filtered # Empty =>
    \E cond \in Conditions : ComparesColumns(cond) /\ Faithful(filtered, v.bitmap, cond)

\* The selected cells of the first n splits are in the result, each at its place.
Filled(f, n) ==
  \A m \in 1..n : \A c \in Columns : Copied(c) =>
    \A j \in Set(v.bitmap[loop.todo[m]]) :
      loop.res[c][f[m - 1] + Rank(Set(v.bitmap[loop.todo[m]]), j)] = Splitn(loop.todo[m], c)[j]

Copying ==
  loop.pc = "collect" =>
    /\ v.partitions # Empty
    /\ DOMAIN loop.res = Columns
    /\ \A c \in Columns : DOMAIN loop.res[c] = 1..v.rows
    /\ Fresh => \A f : Sums(f, loop.todo, v.klen, Len(loop.todo)) => Filled(f, loop.i - 1)

Exact == Chosen /\ Picking /\ Picked /\ Copying

\* What is said of the dataset stays, as the dataset does.
LEMMA SameDataset ==
  ASSUME ds' = ds
  PROVE  /\ \A info : Measured(info)' <=> Measured(info)
         /\ \A bitmap, k, cond : Selects(bitmap, k, cond)' <=> Selects(bitmap, k, cond)
         /\ \A info, bitmap, cond : Faithful(info, bitmap, cond)' <=> Faithful(info, bitmap, cond)
  <1>1. \A p : Splits(p)' = Splits(p)
    BY DEF Splits, RowCount
  <1>2. \A bitmap, k, cond : Selects(bitmap, k, cond)' <=> Selects(bitmap, k, cond)
    BY DEF Selects, Loaded, Readable, HasFile, Splitn
  <1> QED BY <1>1, <1>2 DEF Measured, Faithful

\* A view that has just been made has chosen and picked nothing.
LEMMA InitExact == Init => Exact
  <1> SUFFICES ASSUME Init PROVE Exact
    OBVIOUS
  <1>1. <<>> \in Seq(Col)
    BY EmptySeq
  <1>2. Chosen
    BY <1>1 DEF Init, Chosen, Measured, NoColumns, Empty
  <1> QED BY <1>2 DEF Exact, Init, Picking, Picked, Copying, Idle

\* Between the loops, with the same view and history.
LEMMA StillExact ==
  ASSUME Exact, ds' = ds, v' = v, filtered' = filtered, loop'.pc = "idle"
  PROVE  Exact'
  <1>1. Chosen'
    BY SameDataset DEF Exact, Chosen
  <1>2. Picked'
    BY SameDataset DEF Exact, Picked
  <1> QED BY <1>1, <1>2 DEF Exact, Picking, Copying

\* A call that stops with an error leaves what the view has picked.
LEMMA FailExact == Exact /\ Fail => Exact'
  <1> SUFFICES ASSUME Exact, Fail PROVE Exact'
    OBVIOUS
  <1> QED BY StillExact DEF Fail, Idle

\* So does a step of something else.
LEMMA UnchangedExact == Exact /\ UNCHANGED vars => Exact'
  <1> SUFFICES ASSUME Exact, UNCHANGED vars PROVE Exact'
    OBVIOUS
  <1>1. ds' = ds /\ v' = v /\ loop' = loop /\ filtered' = filtered
    BY DEF vars
  <1>2. Chosen' /\ Picked' /\ Picking'
    BY <1>1, SameDataset DEF Exact, Chosen, Picked, Picking
  <1>3. Copying'
    <2>1. \A f, n : Filled(f, n)' <=> Filled(f, n)
      BY <1>1 DEF Filled, Columns, Splitn
    <2>2. Fresh' <=> Fresh
      BY <1>1 DEF Fresh
    <2>3. \A f : Sums(f, loop.todo, v.klen, Len(loop.todo))' <=> Sums(f, loop.todo, v.klen, Len(loop.todo))
      BY <1>1 DEF Sums
    <2>4. Columns' = Columns
      BY <1>1 DEF Columns
    <2> QED BY <1>1, <2>1, <2>2, <2>3, <2>4 DEF Exact, Copying
  <1> QED BY <1>2, <1>3 DEF Exact

\* Partitions are listed with the splits they have.
LEMMA InfoMeasured == ASSUME NEW list PROVE Measured(Info(list))
  BY DEF Measured, Info, Splits, RowCount

\* A choice of partitions or columns.
LEMMA ChoosingExact ==
  ASSUME Exact, loop = Idle, UNCHANGED <<ds, loop, filtered>>,
         v'.bitmap = v.bitmap, v'.columns \in Seq(Col), Measured(v'.partitions)
  PROVE  Exact'
  <1>1. Chosen'
    BY SameDataset DEF Exact, Chosen, Measured, Splits, RowCount
  <1>2. Picked'
    BY SameDataset DEF Exact, Picked
  <1> QED BY <1>1, <1>2 DEF Exact, Picking, Copying, Idle

\* A filter starts with a condition it can parse, and no bitmaps.
LEMMA FilterExact ==
  ASSUME Kept, Exact, NEW cond \in Conditions, Filter(cond)
  PROVE  Exact'
  <1>1. CASE Fail
    BY <1>1, FailExact
  <1>2. CASE ~Fail
    <2>1. /\ loop' = [pc |-> "filter", cond |-> cond, todo |-> Todo(v.partitions), i |-> 1,
                      bitmap |-> Empty, klen |-> v.klen, rows |-> StartAt]
          /\ v' = v /\ ds' = ds /\ filtered' = filtered /\ Parse[cond] # Error
      BY <1>2 DEF Filter
    <2>2. Chosen' /\ Picked'
      BY <2>1, SameDataset DEF Exact, Chosen, Picked
    <2>3. Picking' /\ Copying'
      BY <2>1 DEF Picking, Copying
    <2> QED BY <2>2, <2>3 DEF Exact
  <1> QED BY <1>1, <1>2

\* One split of a filter: the bitmap of the split is put in.
LEMMA FilterSplitExact ==
  ASSUME Kept, Exact, FilterSplit
  PROVE  Exact'
  <1> DEFINE k == loop.todo[loop.i]
             b == Eval(Loaded(k), Parse[loop.cond])
  <1>1. CASE Fail
    BY <1>1, FailExact
  <1>2. CASE ~Fail
    <2>1. /\ loop.pc = "filter" /\ loop.i =< Len(loop.todo) /\ b.is = "bits"
          /\ v' = v /\ ds' = ds /\ filtered' = filtered
          /\ loop' = [loop EXCEPT !.i = @ + 1,
                                  !.bitmap = Put(@, k, b.bits),
                                  !.klen = Record(@, k, Count(b.bits)),
                                  !.rows = @ + Count(b.bits)]
      BY <1>2 DEF FilterSplit
    <2> HIDE DEF b
    <2>2. /\ loop'.i = loop.i + 1 /\ loop'.cond = loop.cond /\ loop'.todo = loop.todo
          /\ loop'.bitmap = Put(loop.bitmap, k, b.bits)
          /\ loop'.pc = "filter"
      BY <2>1 DEF Kept, IInv, Shape, LoopFields
    <2>3. loop.i \in Nat /\ Parse[loop.cond] # Error
      <3>1. loop.i \in 1..Len(loop.todo) + 1 /\ loop.todo = Todo(v.partitions)
        BY <2>1 DEF Kept, Filtering
      <3>2. Len(Todo(v.partitions)) \in Nat
        BY TodoKeys DEF Kept, Types
      <3> QED BY <2>1, <3>1, <3>2 DEF Exact, Picking
    <2>4. Chosen' /\ Picked' /\ Copying'
      BY <2>1, <2>2, SameDataset DEF Exact, Chosen, Picked, Copying
    <2>5. ASSUME NEW m \in 1..loop.i PROVE Selects(loop'.bitmap, loop.todo[m], loop.cond)
      <3> DEFINE h == loop.todo[m]
      <3>1. CASE h = k
        <4>1. loop'.bitmap[k] = b.bits
          BY <2>2 DEF Put
        <4> HIDE DEF k, h
        <4> QED BY <2>1, <3>1, <4>1 DEF Selects, b, h
      <3>2. CASE h # k
        <4>1. m \in 1..loop.i - 1
          BY <2>3, <3>2
        <4>2. Selects(loop.bitmap, h, loop.cond)
          BY <2>1, <4>1 DEF Exact, Picking
        <4>3. h \in DOMAIN loop.bitmap
          BY <2>1, <4>1 DEF Kept, Filtering, Covered
        <4>4. loop'.bitmap[h] = loop.bitmap[h]
          BY <2>2, <3>2, <4>3 DEF Put
        <4> HIDE DEF h
        <4>5. Selects(loop'.bitmap, h, loop.cond)
          BY <4>2, <4>4 DEF Selects
        <4> QED BY <4>5 DEF h
      <3> QED BY <3>1, <3>2
    <2>6. Picking'
      <3>1. loop'.i - 1 = loop.i
        BY <2>2, <2>3
      <3>2. \A m \in 1..loop'.i - 1 : Selects(loop'.bitmap, loop'.todo[m], loop'.cond)
        BY <2>2, <2>5, <3>1
      <3>3. \A x : Loaded(x)' = Loaded(x)
        BY <2>1 DEF Loaded, Readable, HasFile, Splitn
      <3>4. \A m \in 1..loop'.i - 1 : Selects(loop.bitmap, loop.todo[m], loop.cond)'
        BY <3>2, <3>3 DEF Selects
      <3> QED BY <2>2, <2>3, <3>4 DEF Picking
    <2> QED BY <2>4, <2>6 DEF Exact
  <1> QED BY <1>1, <1>2

\* The end of a filter: the bitmaps of the view are those of the condition.
LEMMA FilterEndExact ==
  ASSUME Kept, Exact, FilterEnd
  PROVE  /\ Exact'
         /\ loop.cond \in Conditions /\ ComparesColumns(loop.cond)
         /\ Faithful(v.partitions, loop.bitmap, loop.cond)
  <1>1. /\ v'.bitmap = loop.bitmap /\ v'.partitions = v.partitions /\ v'.columns = v.columns
        /\ filtered' = v.partitions /\ ds' = ds /\ loop'.pc = "idle"
        /\ loop.pc = "filter" /\ loop.i > Len(loop.todo)
    BY DEF FilterEnd, Kept, IInv, Shape, ViewFields, Idle
  <1>2. /\ loop.todo = Todo(v.partitions) /\ loop.i \in 1..Len(loop.todo) + 1
        /\ loop.cond \in Conditions
    BY <1>1 DEF Kept, Filtering
  <1>3. Len(loop.todo) \in Nat
    BY <1>2, TodoKeys DEF Kept, Types
  <1>4. loop.i - 1 = Len(loop.todo)
    BY <1>1, <1>2, <1>3
  <1>5. /\ Parse[loop.cond] # Error
        /\ \A m \in 1..Len(Todo(v.partitions)) : Selects(loop.bitmap, Todo(v.partitions)[m], loop.cond)
    BY <1>1, <1>2, <1>4 DEF Exact, Picking
  <1>6. ComparesColumns(loop.cond)
    BY <1>2, <1>5, QueryAssumption
  <1>7. Faithful(v.partitions, loop.bitmap, loop.cond)
    BY <1>5 DEF Faithful, Kept, Types, Exact, Chosen, Measured
  <1>8. Chosen'
    BY <1>1, SameDataset DEF Exact, Chosen
  <1>9. Picked'
    BY <1>1, <1>2, <1>6, <1>7, SameDataset DEF Picked
  <1> QED BY <1>1, <1>2, <1>6, <1>7, <1>8, <1>9 DEF Exact, Picking, Copying

\* A collect starts with all rows of its columns and none of them filled.
LEMMA CollectExact ==
  ASSUME Kept, Exact, Collect
  PROVE  Exact'
  <1>1. CASE Fail
    BY <1>1, FailExact
  <1>2. CASE ~Fail
    <2> DEFINE res == [c \in Columns |-> [j \in 1..v.rows |-> 0]]
    <2>1. /\ loop' = [pc |-> "collect", todo |-> Todo(v.partitions), i |-> 1, cursor |-> 1,
                      res |-> res]
          /\ v' = v /\ ds' = ds /\ filtered' = filtered /\ v.partitions # Empty
      BY <1>2 DEF Collect
    <2>2. Chosen' /\ Picked' /\ Picking'
      BY <2>1, SameDataset DEF Exact, Chosen, Picked, Picking
    <2>3. DOMAIN res = Columns /\ \A c \in Columns : DOMAIN res[c] = 1..v.rows
      OBVIOUS
    <2> HIDE DEF res
    <2>4. loop'.res = res /\ loop'.i = 1 /\ loop'.pc = "collect"
      BY <2>1
    <2>5. Columns' = Columns
      BY <2>1 DEF Columns
    <2>6. \A f : Filled(f, loop.i - 1)'
      BY <2>4 DEF Filled
    <2> QED BY <2>1, <2>2, <2>3, <2>4, <2>5, <2>6 DEF Exact, Copying
  <1> QED BY <1>1, <1>2

\* One split of a collect: its cells go behind those of the splits before.
LEMMA CollectSplitExact ==
  ASSUME Kept, Exact, CollectSplit
  PROVE  Exact'
  <1> DEFINE k    == loop.todo[loop.i]
             todo == loop.todo
             S(h) == Set(v.bitmap[h])
             x(c) == Selected(Splitn(k, c), v.bitmap[k])
             res  == [c \in Columns |->
                       IF ~Copied(c) THEN loop.res[c]
                       ELSE Assigned(loop.res[c], loop.cursor, x(c))]
  <1>1. CASE Fail
    BY <1>1, FailExact
  <1>2. CASE ~Fail
    <2>1. /\ Fits(k)
          /\ loop' = [loop EXCEPT !.i = @ + 1, !.cursor = Nrows(k) + 1, !.res = res]
          /\ v' = v /\ ds' = ds /\ filtered' = filtered
          /\ loop.pc = "collect" /\ loop.i =< Len(todo)
      BY <1>2 DEF CollectSplit
    <2> HIDE DEF res
    <2>2. /\ loop'.pc = "collect" /\ loop'.todo = todo /\ loop'.i = loop.i + 1
          /\ loop'.res = res
      BY <2>1 DEF Kept, IInv, Shape, CollectFields
    <2>3. /\ todo = Todo(v.partitions) /\ Len(todo) \in Nat /\ loop.i \in 1..Len(todo)
          /\ v.rows \in Nat
      <3>1. todo = Todo(v.partitions) /\ loop.i \in 1..Len(todo) + 1
        BY <2>1 DEF Kept, Collecting
      <3>2. Len(todo) \in Nat
        BY <3>1, TodoKeys DEF Kept, Types
      <3> QED BY <2>1, <3>1, <3>2 DEF Kept, Types
    <2>4. Chosen' /\ Picked' /\ Picking'
      BY <2>1, <2>2, SameDataset DEF Exact, Chosen, Picked, Picking
    <2>5. /\ v.partitions # Empty /\ DOMAIN loop.res = Columns
          /\ \A c \in Columns : DOMAIN loop.res[c] = 1..v.rows
          /\ Fresh => \A f : Sums(f, todo, v.klen, Len(todo)) => Filled(f, loop.i - 1)
      BY <2>1 DEF Exact, Copying
    <2>6. DOMAIN res = Columns
      BY DEF res
    <2>7. \A c \in Columns : DOMAIN res[c] = 1..v.rows
      <3> SUFFICES ASSUME NEW c \in Columns PROVE DOMAIN res[c] = 1..v.rows
        OBVIOUS
      <3>1. res[c] = IF ~Copied(c) THEN loop.res[c] ELSE Assigned(loop.res[c], loop.cursor, x(c))
        BY DEF res
      <3>2. DOMAIN Assigned(loop.res[c], loop.cursor, x(c)) = DOMAIN loop.res[c]
        BY DEF Assigned
      <3> QED BY <2>5, <3>1, <3>2
    <2>8. ASSUME Fresh, NEW f, Sums(f, todo, v.klen, Len(todo)),
                 NEW m \in 1..loop.i, NEW c \in Columns, Copied(c), NEW j \in S(todo[m])
          PROVE  res[c][f[m - 1] + Rank(S(todo[m]), j)] = Splitn(todo[m], c)[j]
      <3> DEFINE h    == todo[m]
                 rank == Rank(S(h), j)
                 at   == f[m - 1] + rank
                 old  == loop.res[c]
                 y    == x(c)
      <3>1. loop.cursor = f[loop.i - 1] + 1
        <4>1. PICK g : /\ Sums(g, todo, v.klen, Len(todo))
                       /\ loop.cursor = g[loop.i - 1] + 1
          BY <2>1, <2>8 DEF Kept, Collecting
        <4>2. f = g
          BY <2>3, <2>8, <4>1, SumsUnique
        <4> QED BY <4>1, <4>2
      <3>2. /\ m \in 1..Len(todo) /\ m - 1 \in 0..Len(todo) /\ m \in 0..Len(todo)
            /\ loop.i - 1 \in 0..Len(todo) /\ loop.i \in 0..Len(todo)
        BY <2>3
      <3>3. \A l \in 0..Len(todo) : f[l] \in Nat /\ f[l] =< f[Len(todo)]
        BY <2>8 DEF Sums
      <3>4. \A l \in 1..Len(todo) : todo[l] \in DOMAIN v.klen /\ f[l] = f[l - 1] + v.klen[todo[l]]
        BY <2>8 DEF Sums
      <3>5. v.rows = f[Len(todo)] /\ \A l \in 1..Len(todo) : todo[l] \in DOMAIN v.bitmap
        <4>1. Covered(v.bitmap, v.klen, todo, v.rows, Len(todo))
          BY <2>3, <2>8 DEF Kept, Filtered, Fresh
        <4>2. PICK g : Sums(g, todo, v.klen, Len(todo)) /\ v.rows = g[Len(todo)]
          BY <4>1 DEF Covered
        <4>3. f = g
          BY <2>3, <2>8, <4>2, SumsUnique
        <4> QED BY <4>1, <4>2, <4>3 DEF Covered
      <3>6. v.klen[h] = Cardinality(S(h)) /\ v.bitmap[h] \in Seq(BOOLEAN)
        BY <3>2, <3>5 DEF Kept, IInv, Counted, Count, Types, BitMaps
      <3>7. rank \in 1..Cardinality(S(h)) /\ Nth(S(h), rank) = j
        <4> DEFINE T == S(h)
                   n == Len(v.bitmap[h])
        <4>1. n \in Nat /\ T \in SUBSET (1..n) /\ j \in T
          <5>1. n \in Nat /\ DOMAIN v.bitmap[h] = 1..n
            BY <3>6, LenProperties
          <5> QED BY <5>1 DEF Set
        <4> HIDE DEF T, n
        <4>2. Rank(T, j) \in 1..Cardinality(T) /\ Nth(T, Rank(T, j)) = j
          BY <4>1, NthOfRank
        <4> QED BY <4>2 DEF T
      <3>8. Cardinality(S(h)) \in Nat
        BY <3>2, <3>4, <3>6 DEF Kept, Types, Counts
      <3>9. res[c] = Assigned(old, loop.cursor, y)
        BY <2>8 DEF res
      <3>10. DOMAIN y = 1..Count(v.bitmap[k])
        BY DEF Selected
      <3>11. DOMAIN old = 1..v.rows
        BY <2>5
      <3>12. f[m] = f[m - 1] + Cardinality(S(h))
        BY <3>2, <3>4, <3>6
      <3> HIDE DEF y, old
      <3> DEFINE card == Cardinality(S(h))
      <3> HIDE DEF card, rank
      <3>13. at \in 1..v.rows /\ at =< f[m]
        <4>1. rank \in 1..card /\ card \in Nat /\ f[m] = f[m - 1] + card
          BY <3>7, <3>8, <3>12 DEF card
        <4>2. f[m - 1] \in Nat /\ f[m] \in Nat /\ f[m] =< v.rows
          BY <3>2, <3>3, <3>5
        <4> DEFINE a == f[m - 1]
                   b == f[m]
        <4>3. a \in Nat /\ b \in Nat /\ b =< v.rows /\ b = a + card
          BY <4>1, <4>2
        <4> HIDE DEF a, b
        <4>4. a + rank \in 1..v.rows /\ a + rank =< b
          BY <2>3, <4>1, <4>3
        <4> QED BY <4>4 DEF a, b
      <3>14. res[c][at] = IF at - loop.cursor + 1 \in DOMAIN y THEN y[at - loop.cursor + 1] ELSE old[at]
        BY <3>9, <3>11, <3>13 DEF Assigned
      <3>15. CASE m = loop.i
        <4>1. at - loop.cursor + 1 = rank
          <5>1. loop.cursor = f[m - 1] + 1 /\ f[m - 1] \in Nat /\ rank \in Int
            BY <3>1, <3>2, <3>3, <3>7, <3>15 DEF rank
          <5> QED BY <5>1
        <4>2. h = k
          BY <3>15
        <4>3. rank \in DOMAIN y
          BY <3>7, <3>10, <4>2 DEF rank, Count
        <4>4. y[rank] = Splitn(k, c)[Nth(S(k), rank)]
          <5>1. rank \in 1..Count(v.bitmap[k])
            BY <3>10, <4>3
          <5> QED BY <5>1 DEF y, Selected
        <4>5. Nth(S(k), rank) = j
          BY <3>7, <4>2 DEF rank
        <4>6. res[c][at] = Splitn(k, c)[j]
          BY <3>14, <4>1, <4>3, <4>4, <4>5
        <4> QED BY <4>2, <4>6 DEF rank
      <3>16. CASE m # loop.i
        <4>1. m \in 1..loop.i - 1
          BY <2>3, <3>16
        <4>2. f[m] =< f[loop.i - 1]
          <5> DEFINE n == loop.i - 1
                     g == [l \in 0..n |-> f[l]]
          <5>1. n \in Nat /\ n =< Len(todo) /\ m \in 0..n
            BY <2>3, <4>1
          <5> HIDE DEF n
          <5> DEFINE T == {a \in Nat : m + a =< n => f[m] =< f[m + a]}
          <5>2. 0 \in T
            BY <3>2, <3>3
          <5>3. ASSUME NEW a \in Nat, a \in T PROVE a + 1 \in T
            <6> SUFFICES ASSUME m + (a + 1) =< n PROVE f[m] =< f[m + (a + 1)]
              OBVIOUS
            <6> DEFINE b == m + (a + 1)
            <6>1. b \in 1..Len(todo) /\ b - 1 = m + a /\ m + a =< n /\ b \in 0..Len(todo)
                  /\ b - 1 \in 0..Len(todo)
              BY <2>3, <5>1
            <6> HIDE DEF b
            <6>2. f[b] = f[b - 1] + v.klen[todo[b]] /\ v.klen[todo[b]] \in Nat
              BY <3>4, <6>1 DEF Kept, Types, Counts
            <6>3. f[b - 1] \in Nat /\ f[m] \in Nat
              BY <3>2, <3>3, <6>1
            <6>4. f[m] =< f[b - 1]
              BY <5>3, <6>1
            <6>5. f[m] =< f[b]
              BY <6>2, <6>3, <6>4
            <6> QED BY <6>5 DEF b
          <5>4. Nat \subseteq T
            <6> HIDE DEF T
            <6> QED BY <5>2, <5>3, NatSetInduction
          <5>5. n - m \in Nat /\ m + (n - m) = n
            BY <5>1
          <5>6. f[m] =< f[n]
            BY <5>4, <5>5
          <5> QED BY <5>6 DEF n
        <4>3. at - loop.cursor + 1 \notin DOMAIN y
          <5>1. f[loop.i - 1] \in Nat /\ f[m] \in Nat /\ at \in Nat
            BY <2>3, <3>2, <3>3, <3>13
          <5>2. at =< f[loop.i - 1]
            BY <3>13, <4>2, <5>1
          <5> HIDE DEF at
          <5>3. at - loop.cursor + 1 < 1 /\ at - loop.cursor + 1 \in Int
            BY <3>1, <5>1, <5>2
          <5>4. Count(v.bitmap[k]) \in Nat
            <6>1. loop.i \in 1..Len(todo)
              BY <2>3
            <6>2. k \in DOMAIN v.bitmap
              BY <3>5, <6>1
            <6> QED BY <6>2, CountType DEF Kept, Types, BitMaps
          <5> QED BY <3>10, <5>3, <5>4
        <4>4. res[c][at] = old[at]
          BY <3>14, <4>3
        <4>5. Filled(f, loop.i - 1)
          BY <2>5, <2>8
        <4>6. loop.res[c][f[m - 1] + Rank(Set(v.bitmap[loop.todo[m]]), j)] = Splitn(loop.todo[m], c)[j]
          BY <2>8, <4>1, <4>5 DEF Filled
        <4>7. old[at] = Splitn(h, c)[j]
          BY <4>6 DEF old, rank
        <4> QED BY <4>4, <4>7 DEF rank
      <3> QED BY <3>15, <3>16
    <2>9. Copying'
      <3>1. Columns' = Columns /\ (Fresh' <=> Fresh)
        BY <2>1 DEF Columns, Fresh
      <3>2. loop'.i - 1 = loop.i
        BY <2>2, <2>3
      <3>3. ASSUME Fresh, NEW f, Sums(f, todo, v.klen, Len(todo))
            PROVE  Filled(f, loop.i - 1)'
        <4> SUFFICES ASSUME NEW m \in 1..(loop'.i - 1), NEW c \in Columns', Copied(c),
                            NEW j \in Set(v'.bitmap[loop'.todo[m]])
                     PROVE  loop'.res[c][f[m - 1] + Rank(Set(v'.bitmap[loop'.todo[m]]), j)]
                              = Splitn(loop.todo[m], c)'[j]
          BY DEF Filled
        <4>1. m \in 1..loop.i /\ c \in Columns /\ j \in S(todo[m])
          BY <2>1, <2>2, <3>1, <3>2
        <4>2. res[c][f[m - 1] + Rank(S(todo[m]), j)] = Splitn(todo[m], c)[j]
          BY <2>8, <3>3, <4>1
        <4>3. Splitn(loop.todo[m], c)' = Splitn(todo[m], c)
          BY <2>1, <2>2 DEF Splitn
        <4> QED BY <2>1, <2>2, <4>2, <4>3
      <3>4. \A f : Sums(f, loop.todo, v.klen, Len(loop.todo))' <=> Sums(f, todo, v.klen, Len(todo))
        BY <2>1, <2>2 DEF Sums
      <3> QED BY <2>1, <2>2, <2>5, <2>6, <2>7, <3>1, <3>3, <3>4 DEF Copying
    <2> QED BY <2>4, <2>9 DEF Exact
  <1> QED BY <1>1, <1>2

\* Every step of the view.
LEMMA NextExact == Kept /\ Exact /\ [Next]_vars => Exact'
  <1> SUFFICES ASSUME Kept, Exact, [Next]_vars PROVE Exact'
    OBVIOUS
  <1>0. v.columns \in Seq(Col) /\ Measured(v.partitions)
    BY DEF Exact, Chosen
  <1>1. ASSUME NEW list \in Lists, Partitions(list) PROVE Exact'
    <2>1. CASE Fail
      BY <2>1, FailExact
    <2>2. CASE ~Fail
      <3>1. /\ v' = [v EXCEPT !.partitions = Info(list)]
            /\ loop = Idle /\ UNCHANGED <<ds, loop, filtered>>
        BY <1>1, <2>2 DEF Partitions
      <3>2. v'.bitmap = v.bitmap /\ v'.columns = v.columns /\ v'.partitions = Info(list)
        BY <3>1 DEF Kept, IInv, Shape, ViewFields
      <3>3. Measured(Info(list))
        BY InfoMeasured
      <3> QED BY <1>0, <3>1, <3>2, <3>3, ChoosingExact
    <2> QED BY <2>1, <2>2
  <1>2. ASSUME NEW p \in Part, NEW q \in Part, PartitionsRange(p, q) PROVE Exact'
    <2> DEFINE list == SetToSeq({x \in Part : p =< x /\ x =< q})
    <2>1. /\ v' = [v EXCEPT !.partitions = Info(list)]
          /\ loop = Idle /\ UNCHANGED <<ds, loop, filtered>>
      BY <1>2 DEF PartitionsRange
    <2> HIDE DEF list
    <2>2. v'.bitmap = v.bitmap /\ v'.columns = v.columns /\ v'.partitions = Info(list)
      BY <2>1 DEF Kept, IInv, Shape, ViewFields
    <2>3. Measured(Info(list))
      BY InfoMeasured
    <2> QED BY <1>0, <2>1, <2>2, <2>3, ChoosingExact
  <1>3. CASE PartitionsRegex
    BY <1>3, FailExact DEF PartitionsRegex
  <1>4. ASSUME NEW columns \in Selections, Select(columns) PROVE Exact'
    <2>1. /\ v' = [v EXCEPT !.columns = columns]
          /\ loop = Idle /\ UNCHANGED <<ds, loop, filtered>>
      BY <1>4 DEF Select
    <2>2. v'.bitmap = v.bitmap /\ v'.columns = columns /\ v'.partitions = v.partitions
      BY <2>1 DEF Kept, IInv, Shape, ViewFields
    <2>3. columns \in Seq(Col)
      BY ViewAssumption
    <2> QED BY <1>0, <2>1, <2>2, <2>3, ChoosingExact
  <1>5. ASSUME NEW cond \in Conditions, Filter(cond) PROVE Exact'
    BY <1>5, FilterExact
  <1>6. CASE Collect
    BY <1>6, CollectExact
  <1>7. CASE FilterSplit
    BY <1>7, FilterSplitExact
  <1>8. CASE FilterEnd
    BY <1>8, FilterEndExact
  <1>9. CASE CollectSplit
    BY <1>9, CollectSplitExact
  <1>10. CASE CollectEnd
    BY <1>10, StillExact DEF CollectEnd, Idle
  <1>11. CASE UNCHANGED vars
    BY <1>11, UnchangedExact
  <1> QED BY <1>1, <1>2, <1>3, <1>4, <1>5, <1>6, <1>7, <1>8, <1>9, <1>10, <1>11
          DEF Next, LoopStep

\* Both halves of the invariant hold in every state of a session.
LEMMA ExactInvariance == Spec => [](Kept /\ Exact)
  <1>1. Init => Kept /\ Exact
    BY InitKept, InitExact
  <1>2. Kept /\ Exact /\ [Next]_vars => (Kept /\ Exact)'
    BY NextKept, NextExact
  <1> QED BY <1>1, <1>2, PTL DEF Spec

\* The rows a fresh collect copies a split to are in the result: collect adds
\* up the same counts, in the same order, as the filter that sized it; and a
\* split with a bitmap that selects something has its files.
THEOREM FreshCollects == Spec => []FreshCollectFailures
  <1>1. Kept /\ Exact => FreshCollectFailures
    <2> SUFFICES ASSUME Kept, Exact, Fresh, loop.pc = "collect", loop.i =< Len(loop.todo),
                        Klen(loop.todo[loop.i]) # 0,
                        \A c \in Columns : Kind[c] # "factorkey"
                 PROVE  Fits(loop.todo[loop.i])
      BY DEF FreshCollectFailures
    <2> DEFINE k == loop.todo[loop.i]
               todo == Todo(v.partitions)
    <2>1. todo \in Seq(Key) /\ Len(todo) \in Nat
      BY TodoType, LenProperties DEF Kept, Types, Key
    <2>2. loop.todo = todo /\ loop.i \in 1..Len(todo)
      BY <2>1 DEF Kept, Collecting
    <2>3. k \in Key
      BY <2>1, <2>2, LenProperties, ElementOfSeq
    <2>4. Covered(v.bitmap, v.klen, todo, v.rows, Len(todo))
      BY DEF Kept, Filtered, Fresh
    <2>5. PICK f : /\ Sums(f, todo, v.klen, Len(todo)) /\ v.rows = f[Len(todo)]
                   /\ loop.cursor = f[loop.i - 1] + 1
      BY <2>2 DEF Kept, Collecting
    <2>6. k \in DOMAIN v.bitmap
      BY <2>2, <2>4 DEF Covered
    <2>7. PICK cond \in Conditions : ComparesColumns(cond) /\ Faithful(v.partitions, v.bitmap, cond)
      BY DEF Exact, Picked, Fresh
    <2>8. Selects(v.bitmap, k, cond)
      BY <2>2, <2>7 DEF Faithful
    <2> HIDE DEF todo
    <2>9. k \in DOMAIN v.klen /\ f[loop.i] = f[loop.i - 1] + v.klen[k]
      BY <2>2, <2>5 DEF Sums
    <2> HIDE DEF k
    <2>10. Nrows(k) =< v.rows
      <3>1. v.klen[k] \in Nat
        BY <2>9 DEF Kept, Types, Counts
      <3>2. loop.i - 1 \in 0..Len(todo) /\ loop.i \in 0..Len(todo)
        BY <2>1, <2>2
      <3>3. f[loop.i - 1] \in Nat /\ f[loop.i] =< f[Len(todo)]
        BY <2>5, <3>2 DEF Sums
      <3>4. Klen(k) = v.klen[k]
        BY <2>9 DEF Klen
      <3>5. Nrows(k) = (f[loop.i - 1] + 1) + v.klen[k] - 1
        BY <2>5, <3>4 DEF Nrows
      <3>6. Nrows(k) = f[loop.i]
        BY <2>9, <3>1, <3>3, <3>5
      <3> QED BY <2>5, <3>3, <3>6
    <2>11. Klen(k) # 0
      BY DEF k
    <2>12. k[2] >= 1 /\ DOMAIN v.bitmap[k] = 1..SplitRows(k)
      <3>1. ds \in Datasets /\ cond \in Expr
        BY ViewAssumption DEF Kept, Types
      <3> QED BY <2>3, <2>7, <2>8, <3>1, SelectsRows
    <2>13. SplitRows(k) > 0
      <3>1. Count(v.bitmap[k]) # 0
        BY <2>6, <2>9, <2>11 DEF Kept, IInv, Counted, Klen
      <3>2. Set(v.bitmap[k]) # {}
        BY <3>1, FS_EmptySet DEF Count
      <3>3. 1..SplitRows(k) # {}
        BY <2>12, <3>2 DEF Set
      <3>4. SplitRows(k) \in Nat
        BY <2>3, <2>12, SplitRowsType DEF Kept, Types
      <3> QED BY <3>3, <3>4
    <2>14. ASSUME NEW c \in Columns PROVE Readable(k, c)
      <3>1. c \in Col
        BY DEF Exact, Chosen, Columns, ToSet
      <3>2. Len(ds[k[1]][c]) = RowCount(k[1])
        BY <2>3, <3>1, RowCountType DEF Kept, Types, Key
      <3> QED BY <2>12, <2>13, <3>2 DEF Readable, HasFile, SplitRows
    <2>15. Fits(k)
      BY <2>6, <2>9, <2>10, <2>11, <2>14 DEF Fits
    <2> QED BY <2>15 DEF k
  <1> QED BY <1>1, ExactInvariance, PTL

-----------------------------------------------------------------------------
(* Views implement queries.                                                 *)

\* A view that has not been filtered has picked nothing.
LEMMA InitQuery == Init => Q!Init
  <1> SUFFICES ASSUME Init PROVE Q!Init
    OBVIOUS
  <1>1. /\ ds \in Datasets /\ v.partitions = <<>> /\ v.columns = <<>> /\ v.rows = 0
        /\ outcome = Ok /\ filtered = <<>>
    BY DEF Init, Empty, NoColumns
  <1>2. Names(v.partitions) = <<>> /\ Names(filtered) = <<>>
    BY <1>1 DEF Names
  <1>3. [i \in DOMAIN filtered |-> PickedRows(filtered[i])] = <<>>
    BY <1>1
  <1>4. Columns = Col
    BY <1>1 DEF Columns, NoColumns
  <1> QED BY <1>1, <1>2, <1>3, <1>4 DEF Q!Init, Q!Nothing, Q!Ok, Ok

\* A step of a loop that does not return is no step of the query.
LEMMA StutterQuery == UNCHANGED <<ds, v, outcome, filtered>> => UNCHANGED Q!vars
  BY DEF Q!vars, Names, Columns, PickedRows

\* An operation that stops with an error is a failed query.
LEMMA FailQuery == Fail => Q!Fail
  BY DEF Fail, Q!Fail, Q!Failed, Failed, Names, Columns, PickedRows

\* Partitions are chosen.
LEMMA ChooseQuery ==
  ASSUME Kept, NEW list \in Seq(Part),
         v' = [v EXCEPT !.partitions = Info(list)],
         outcome' = Ok, UNCHANGED <<ds, loop, filtered>>
  PROVE  Q!Choose(list)
  <1>1. /\ v'.bitmap = v.bitmap /\ v'.columns = v.columns /\ v'.rows = v.rows
        /\ v'.partitions = Info(list)
    BY DEF Kept, IInv, Shape, ViewFields
  <1>2. Names(v.partitions)' = Sorted(list)
    <2>1. Names(Info(list)) = Sorted(list)
      <3>1. Names(Info(list)) = [i \in DOMAIN list |-> Sorted(list)[i]]
        BY DEF Names, Info
      <3>2. Sorted(list) = [i \in DOMAIN list |-> Sorted(list)[i]]
        BY DEF Sorted
      <3> QED BY <3>1, <3>2
    <2> QED BY <1>1, <2>1 DEF Names
  <1>3. list \in Seq(Nat)
    BY ViewAssumption, SeqMonotonic
  <1>4. Q!InOrder(Sorted(list), list)
    BY <1>3, SortedInOrder
  <1>5. Q!ToSet(list) \subseteq DOMAIN ds
    <2>1. DOMAIN ds = Part
      BY ViewAssumption DEF Kept, Types
    <2>2. ToSet(list) \subseteq Part
      BY LenProperties, ElementOfSeq DEF ToSet
    <2> QED BY <2>1, <2>2, SameCount
  <1>6. Columns' = Columns
    BY <1>1 DEF Columns
  <1>7. \A info : PickedRows(info)' = PickedRows(info)
    BY <1>1 DEF PickedRows
  <1>8. Names(filtered)' = Names(filtered)
    BY DEF Names
  <1> QED BY <1>1, <1>2, <1>4, <1>5, <1>6, <1>7, <1>8 DEF Q!Choose, Q!Ok, Ok

\* The partitions of a range, as a list.
LEMMA RangeList ==
  ASSUME NEW S \in SUBSET Part
  PROVE  SetToSeq(S) \in Seq(Part) /\ Q!SetToSeq(S) = SetToSeq(S)
  <1> DEFINE list == SetToSeq(S)
             n    == Cardinality(S)
  <1>1. IsFiniteSet(S)
    BY ViewAssumption, FS_Subset
  <1>2. n \in Nat /\ ExistsBijection(1..n, S)
    BY <1>1, FS_CardinalityType
  <1>3. PICK f \in [1..n -> S] : \A a, b \in 1..n : f[a] = f[b] => a = b
    BY <1>2 DEF ExistsBijection, Bijection, Injection, Surjection, IsInjective
  <1>4. list \in [1..n -> S]
    <2>1. \E g \in [1..n -> S] : IsInjective(g)
      BY <1>3 DEF IsInjective
    <2> QED BY <2>1 DEF SetToSeq
  <1>5. Q!SetToSeq(S) = list
    BY SameCount DEF Q!SetToSeq, SetToSeq, Q!IsInjective, IsInjective
  <1> HIDE DEF list, n
  <1>6. list = [i \in 1..n |-> list[i]] /\ \A i \in 1..n : list[i] \in Part
    BY <1>4
  <1>7. [i \in 1..n |-> list[i]] \in Seq(Part)
    <2>1. n \in Nat
      BY <1>2
    <2> QED BY <1>6, <2>1, IsASeq
  <1>8. list \in Seq(Part)
    BY <1>6, <1>7
  <1> QED BY <1>5, <1>8 DEF list

\* What Query calls picked is what the bitmaps of the view pick.
LEMMA PickedIsPick ==
  [on |-> Names(filtered), rows |-> [i \in DOMAIN filtered |-> PickedRows(filtered[i])],
   nrow |-> v.rows] = Pick(filtered, v.bitmap, v.rows)
  BY DEF Pick, PickedRows

\* Columns are chosen.
LEMMA SelectQuery ==
  ASSUME Kept, Exact', NEW columns, Select(columns)
  PROVE  Q!Project
  <1>1. /\ v'.bitmap = v.bitmap /\ v'.rows = v.rows /\ v'.partitions = v.partitions
        /\ ds' = ds /\ filtered' = filtered /\ outcome' = Ok
    BY DEF Select, Kept, IInv, Shape, ViewFields
  <1>2. v'.columns \in Seq(Col)
    BY DEF Exact, Chosen
  <1>3. Columns' \subseteq Col
    <2>1. ToSet(v'.columns) \subseteq Col
      <3> DEFINE s == v'.columns
      <3> HIDE DEF s
      <3>1. s \in Seq(Col)
        BY <1>2 DEF s
      <3>2. ToSet(s) \subseteq Col
        BY <3>1, LenProperties, ElementOfSeq DEF ToSet
      <3> QED BY <3>2 DEF s
    <2> QED BY <2>1 DEF Columns
  <1>4. \A info : PickedRows(info)' = PickedRows(info)
    BY <1>1 DEF PickedRows
  <1>5. Names(filtered)' = Names(filtered) /\ Names(v.partitions)' = Names(v.partitions)
    BY <1>1 DEF Names
  <1> QED BY <1>1, <1>3, <1>4, <1>5 DEF Q!Project, Q!Ok, Ok

\* The counts that a loop has added up are those of the bitmaps.
LEMMA SumsAreBitSums ==
  ASSUME NEW info, NEW bitmap, NEW klen, Counted(bitmap, klen), NEW f,
         Sums(f, Todo(info), klen, Len(Todo(info))),
         \A m \in 1..Len(Todo(info)) : Todo(info)[m] \in DOMAIN bitmap
  PROVE  BitSums(f, info, bitmap)
  BY DEF BitSums, Sums, Counted

\* The end of a filter.
LEMMA FilterQuery ==
  ASSUME Kept, Exact, FilterEnd
  PROVE  loop.cond \in {c \in Conditions : ComparesColumns(c)} /\ Q!Filter(loop.cond)
  <1> DEFINE info == v.partitions
             bitmap == loop.bitmap
             pick == Pick(info, bitmap, loop.rows)
             len  == Len(Todo(info))
  <1>1. /\ v'.bitmap = bitmap /\ v'.klen = loop.klen /\ v'.rows = loop.rows
        /\ v'.partitions = info /\ v'.columns = v.columns
        /\ filtered' = info /\ ds' = ds /\ outcome' = Ok
        /\ loop.pc = "filter" /\ loop.i > Len(loop.todo)
    BY DEF FilterEnd, Kept, IInv, Shape, ViewFields, Idle
  <1>2. /\ loop.cond \in Conditions /\ ComparesColumns(loop.cond)
        /\ Faithful(info, bitmap, loop.cond)
    BY FilterEndExact
  <1>3. ds \in Datasets /\ loop.cond \in Expr
    BY <1>2, ViewAssumption DEF Kept, Types
  <1>4. /\ loop.todo = Todo(info) /\ loop.i \in 1..len + 1 /\ len \in Nat
    BY <1>1, TodoKeys DEF Kept, Types, Filtering
  <1>5. loop.i - 1 = len
    BY <1>1, <1>4
  <1>6. Covered(bitmap, loop.klen, Todo(info), loop.rows, len)
    BY <1>1, <1>4, <1>5 DEF Kept, Filtering
  <1>7. PICK f : Sums(f, Todo(info), loop.klen, len) /\ loop.rows = f[len]
    BY <1>6 DEF Covered
  <1>8. Counted(bitmap, loop.klen)
    BY <1>1 DEF Kept, IInv
  <1> HIDE DEF info, bitmap
  <1>9. BitSums(f, info, bitmap)
    BY <1>6, <1>7, <1>8, SumsAreBitSums DEF Covered
  <1>10. Fitted(info, bitmap)
    BY <1>2, <1>3, FaithfulFitted
  <1>11. Cardinality(Q!Rows(pick)) = loop.rows
    <2>1. Cardinality(Q!Rows(pick)) = f[len]
      BY <1>3, <1>9, <1>10, PickCount
    <2> QED BY <1>7, <2>1
  <1>12. \A i \in DOMAIN info : Q!Picks(loop.cond, Names(info)[i], pick.rows[i])
    BY <1>2, <1>3, FaithfulPicks
  <1>13. [on |-> Names(filtered), rows |-> [i \in DOMAIN filtered |-> PickedRows(filtered[i])],
          nrow |-> v.rows]' = pick
    BY <1>1 DEF Pick, PickedRows, Names
  <1>14. DOMAIN pick.rows = DOMAIN info /\ pick.on = Names(info) /\ DOMAIN Names(info) = DOMAIN info
         /\ pick.nrow = loop.rows
    BY DEF Pick, Names
  <1>15. Columns' = Columns /\ Names(v.partitions)' = Names(v.partitions)
    BY <1>1 DEF Columns, Names, info
  <1>16. Q!Cardinality(Q!Rows(pick)) = loop.rows
    BY <1>11, SameCount
  <1>17. info = v.partitions
    BY DEF info
  <1>18. Q!Rows([on |-> Names(filtered), rows |-> [i \in DOMAIN filtered |-> PickedRows(filtered[i])],
          nrow |-> v.rows])' = Q!Rows(pick)
    BY <1>13 DEF Q!Rows
  <1> HIDE DEF pick
  <1>19. Q!Filter(loop.cond)
    BY <1>1, <1>12, <1>13, <1>14, <1>15, <1>16, <1>17, <1>18 DEF Q!Filter, Q!Ok, Ok
  <1> QED BY <1>2, <1>19

\* A view that is on the partitions of its filter, by their names, is fresh.
LEMMA SameNamesFresh ==
  ASSUME Kept, Exact, v.partitions # Empty, Names(v.partitions) = Names(filtered)
  PROVE  Fresh
  <1> DEFINE P == v.partitions
             F == filtered
  <1>1. P \in Seq(Places) /\ F \in Seq(Places) /\ Measured(P) /\ Measured(F)
    BY DEF Kept, Types, Exact, Chosen
  <1> HIDE DEF P, F
  <1>2. DOMAIN P = DOMAIN F /\ \A i \in DOMAIN P : P[i].partition = F[i].partition
    <2>1. Names(P) = Names(F)
      BY DEF P, F
    <2>2. DOMAIN Names(P) = DOMAIN P /\ DOMAIN Names(F) = DOMAIN F
      BY DEF Names
    <2>3. \A i \in DOMAIN P : Names(P)[i] = P[i].partition
      BY DEF Names
    <2>4. \A i \in DOMAIN F : Names(F)[i] = F[i].partition
      BY DEF Names
    <2> QED BY <2>1, <2>2, <2>3, <2>4
  <1>3. \A i \in DOMAIN P : P[i] = F[i]
    <2> SUFFICES ASSUME NEW i \in DOMAIN P PROVE P[i] = F[i]
      OBVIOUS
    <2>1. P[i] \in Places /\ F[i] \in Places
      BY <1>1, <1>2, LenProperties, ElementOfSeq
    <2>2. P[i].splits = F[i].splits /\ P[i].partition = F[i].partition
      BY <1>1, <1>2 DEF Measured
    <2> DEFINE a == P[i]
               b == F[i]
    <2> HIDE DEF a, b
    <2>3. a = [partition |-> a.partition, splits |-> a.splits]
          /\ b = [partition |-> b.partition, splits |-> b.splits]
      BY <2>1 DEF a, b, Places
    <2>4. a = b
      BY <2>2, <2>3 DEF a, b
    <2> QED BY <2>4 DEF a, b
  <1>4. P = F
    <2>1. P = [i \in DOMAIN P |-> P[i]] /\ F = [i \in DOMAIN F |-> F[i]]
      BY <1>1, LenProperties
    <2> QED BY <1>2, <1>3, <2>1
  <1> QED BY <1>4 DEF Fresh, P, F

\* What a collect hands over is delivered.
LEMMA CollectDelivers ==
  ASSUME Kept, Exact, loop.pc = "collect", loop.i > Len(loop.todo),
         Names(v.partitions) = Names(filtered), NEW c \in Columns, Copied(c)
  PROVE  Q!Delivers(loop.res[c], c)
  <1> DEFINE info == filtered
             bitmap == v.bitmap
             pick == Pick(info, bitmap, v.rows)
             todo == Todo(info)
             len  == Len(todo)
             R    == Q!Rows(pick)
             cells == loop.res[c]
  <1>1. v.partitions # Empty /\ DOMAIN cells = 1..v.rows
    BY DEF Exact, Copying
  <1>2. Fresh /\ filtered = v.partitions
    BY <1>1, SameNamesFresh DEF Fresh
  <1>3. PICK cond \in Conditions : ComparesColumns(cond) /\ Faithful(info, bitmap, cond)
    BY <1>2 DEF Exact, Picked, Fresh
  <1>4. ds \in Datasets /\ cond \in Expr /\ info \in Seq(Places) /\ c \in Col
    <2>1. v.columns \in Seq(Col)
      BY DEF Exact, Chosen
    <2> DEFINE s == v.columns
    <2> HIDE DEF s
    <2>2. ToSet(s) \subseteq Col
      BY <2>1, LenProperties, ElementOfSeq DEF ToSet, s
    <2>3. c \in Col
      BY <2>2 DEF Columns, s
    <2> QED BY <2>3, ViewAssumption DEF Kept, Types
  <1>5. Fitted(info, bitmap)
    BY <1>3, <1>4, FaithfulFitted
  <1>6. PICK at : Walk(at, info)
    BY <1>5, TodoWalk DEF Fitted
  <1>7. len \in Nat /\ loop.todo = todo /\ loop.i - 1 = len
    <2>1. len \in Nat
      BY <1>4, TodoKeys
    <2>2. loop.todo = todo /\ loop.i \in 1..len + 1
      BY <1>2 DEF Kept, Collecting
    <2> QED BY <2>1, <2>2
  <1>8. PICK f : Sums(f, todo, v.klen, len) /\ v.rows = f[len]
    BY <1>2, <1>7 DEF Kept, Collecting
  <1>9. BitSums(f, info, bitmap)
    <2>1. Counted(bitmap, v.klen)
      BY DEF Kept, IInv
    <2>2. \A m \in 1..len : todo[m] \in DOMAIN bitmap
      BY <1>2 DEF Kept, Filtered, Covered, Fresh
    <2> QED BY <1>8, <2>1, <2>2, SumsAreBitSums
  <1>10. Filled(f, len)
    BY <1>2, <1>7, <1>8 DEF Exact, Copying
  <1>11. R = Piled(Marks(info, bitmap, at), len)
    BY <1>5, <1>6, RowsAreMarks
  <1>12. ASSUME NEW row \in R
         PROVE  cells[Cardinality(UpTo(R, row))] = ds[Names(info)[row[1]]][c][row[2]]
    <2>1. PICK m \in 1..len : row \in Marks(info, bitmap, at)[m]
      BY <1>11 DEF Piled
    <2> DEFINE k == todo[m]
    <2>2. PICK j \in Set(bitmap[k]) : row = <<at[m][1], First(k) + j>>
      BY <2>1 DEF Marks, Shifted
    <2> DEFINE n == v.rows
    <2>9. Fitted(info, bitmap) /\ Walk(at, info) /\ BitSums(f, info, bitmap)
          /\ m \in 1..Len(Todo(info)) /\ j \in Set(bitmap[Todo(info)[m]])
          /\ row = <<at[m][1], First(Todo(info)[m]) + j>>
          /\ R = Q!Rows(Pick(info, bitmap, n)) /\ k = Todo(info)[m]
      BY <1>5, <1>6, <1>9, <2>1, <2>2
    <2>3. Cardinality(UpTo(R, row)) = f[m - 1] + Rank(Set(bitmap[k]), j)
      <3> HIDE DEF n, info, bitmap, R, k
      <3>1. Cardinality(UpTo(Q!Rows(Pick(info, bitmap, n)),
                             <<at[m][1], First(Todo(info)[m]) + j>>))
              = f[m - 1] + Rank(Set(bitmap[Todo(info)[m]]), j)
        BY <1>4, <2>9, PlaceOfMark, SMTT(60)
      <3> QED BY <2>9, <3>1
    <2>4. cells[f[m - 1] + Rank(Set(bitmap[k]), j)] = Splitn(k, c)[j]
      BY <1>7, <1>10 DEF Filled
    <2>5. k \in Key /\ k[2] >= 1 /\ j \in 1..SplitRows(k)
      BY <1>4, <1>5, StepType
    <2>6. Splitn(k, c)[j] = ds[k[1]][c][First(k) + j]
      <3> HIDE DEF k
      <3> QED BY <1>4, <2>5, SplitCells
    <2>7. k[1] = Names(info)[at[m][1]]
      <3>1. at[m][1] \in DOMAIN info /\ k = <<info[at[m][1]].partition, at[m][2]>>
        BY <1>6 DEF Walk
      <3> QED BY <3>1 DEF Names
    <2>8. row[1] = at[m][1] /\ row[2] = First(k) + j
      BY <2>2
    <2> HIDE DEF k, R, cells, info, bitmap
    <2> QED BY <2>3, <2>4, <2>6, <2>7, <2>8
  <1> DEFINE picked == [on |-> Names(filtered),
                        rows |-> [i \in DOMAIN filtered |-> PickedRows(filtered[i])],
                        nrow |-> v.rows]
  <1>13. picked = pick
    BY PickedIsPick
  <1>14. \A row : Q!Place(row) = Cardinality(UpTo(R, row))
    <2> SUFFICES ASSUME NEW row PROVE Q!Place(row) = Cardinality(UpTo(R, row))
      OBVIOUS
    <2>1. Q!Place(row) = Q!Cardinality(UpTo(Q!Rows(picked), row))
      BY DEF Q!Place, UpTo
    <2> HIDE DEF picked, pick, R
    <2>2. Q!Rows(picked) = R
      BY <1>13 DEF R
    <2> QED BY <2>1, <2>2, SameCount
  <1>15. picked.nrow = v.rows /\ picked.on = Names(info)
    OBVIOUS
  <1>16. Q!Rows(picked) = R
    <2> HIDE DEF picked, pick
    <2> QED BY <1>13 DEF R
  <1>17. \A row \in Q!Rows(picked) : cells[Q!Place(row)] = ds[picked.on[row[1]]][c][row[2]]
    <2> HIDE DEF picked, R, cells
    <2> QED BY <1>12, <1>14, <1>15, <1>16
  <1>18. DOMAIN cells = 1..picked.nrow
    BY <1>1
  <1> HIDE DEF cells, R
  <1>19. Q!Delivers(cells, c)
    BY <1>17, <1>18 DEF Q!Delivers
  <1> QED BY <1>19 DEF cells

\* A collect that reaches its end hands over what the query delivers.
LEMMA CollectQuery == Kept /\ Exact /\ CollectEnd => Q!Collect
  <1> SUFFICES ASSUME Kept, Exact, CollectEnd PROVE Q!Collect
    OBVIOUS
  <1>1. /\ loop.pc = "collect" /\ loop.i > Len(loop.todo)
        /\ outcome' = [status |-> "ok", res |-> loop.res]
        /\ v' = v /\ ds' = ds /\ filtered' = filtered
    BY DEF CollectEnd
  <1>2. "res" \in DOMAIN outcome' /\ outcome'.res = loop.res
    BY <1>1
  <1>3. DOMAIN loop.res = Columns
    BY <1>1 DEF Exact, Copying
  <1>4. ASSUME Names(v.partitions) = Names(filtered), NEW c \in Columns, Copied(c)
        PROVE  Q!Delivers(loop.res[c], c)
    BY <1>1, <1>4, CollectDelivers
  <1>5. Columns' = Columns /\ Names(v.partitions)' = Names(v.partitions)
        /\ Names(filtered)' = Names(filtered)
    BY <1>1 DEF Columns, Names
  <1>6. \A info : PickedRows(info)' = PickedRows(info)
    BY <1>1 DEF PickedRows
  <1> QED BY <1>1, <1>2, <1>3, <1>4, <1>5, <1>6 DEF Q!Collect

\* Every step of a view is one of its query, or none.
LEMMA NextQuery == Kept /\ Exact /\ Exact' /\ [Next]_vars => [Q!Next]_Q!vars
  <1> SUFFICES ASSUME Kept, Exact, Exact', [Next]_vars PROVE [Q!Next]_Q!vars
    OBVIOUS
  <1>0. CASE Fail
    BY <1>0, FailQuery DEF Q!Next
  <1>1. ASSUME NEW list \in Lists, Partitions(list), ~Fail PROVE Q!Next
    <2>1. /\ ToSet(list) \subseteq Part
          /\ v' = [v EXCEPT !.partitions = Info(list)]
          /\ outcome' = Ok /\ UNCHANGED <<ds, loop, filtered>>
      BY <1>1 DEF Partitions
    <2>2. list \in Seq(Nat) /\ Len(list) \in Nat /\ DOMAIN list = 1..Len(list)
      BY ViewAssumption, LenProperties
    <2>3. list \in Seq(Part)
      <3>1. list = [i \in 1..Len(list) |-> list[i]]
        BY <2>2
      <3>2. \A i \in 1..Len(list) : list[i] \in Part
        BY <2>1, <2>2 DEF ToSet
      <3> QED BY <2>2, <3>1, <3>2, IsASeq
    <2>4. Q!Choose(list)
      BY <2>1, <2>3, ChooseQuery
    <2> QED BY <2>4 DEF Q!Next
  <1>2. ASSUME NEW p \in Part, NEW q \in Part, PartitionsRange(p, q) PROVE Q!Next
    <2> DEFINE S == {x \in Part : p =< x /\ x =< q}
               list == SetToSeq(S)
    <2>1. /\ v' = [v EXCEPT !.partitions = Info(list)]
          /\ outcome' = Ok /\ UNCHANGED <<ds, loop, filtered>>
      BY <1>2 DEF PartitionsRange
    <2>2. DOMAIN ds = Part
      BY ViewAssumption DEF Kept, Types
    <2>3. list \in Seq(Part) /\ Q!SetToSeq(S) = list
      <3> HIDE DEF S
      <3>1. S \in SUBSET Part
        BY DEF S
      <3> QED BY <3>1, RangeList
    <2> HIDE DEF list
    <2>4. Q!Choose(list)
      BY <2>1, <2>3, ChooseQuery
    <2>5. Q!ChooseRange(p, q)
      BY <2>2, <2>3, <2>4 DEF Q!ChooseRange
    <2> QED BY <2>2, <2>5 DEF Q!Next
  <1>3. CASE PartitionsRegex
    BY <1>3, FailQuery DEF PartitionsRegex, Q!Next
  <1>4. ASSUME NEW columns, Select(columns) PROVE Q!Next
    BY <1>4, SelectQuery DEF Q!Next
  <1>5. ASSUME NEW cond \in Conditions, Filter(cond), ~Fail PROVE UNCHANGED Q!vars
    BY <1>5, StutterQuery DEF Filter
  <1>6. CASE Collect /\ ~Fail
    BY <1>6, StutterQuery DEF Collect
  <1>7. CASE FilterSplit /\ ~Fail
    BY <1>7, StutterQuery DEF FilterSplit
  <1>8. CASE FilterEnd
    BY <1>8, FilterQuery DEF Q!Next
  <1>9. CASE CollectSplit /\ ~Fail
    BY <1>9, StutterQuery DEF CollectSplit
  <1>10. CASE CollectEnd
    BY <1>10, CollectQuery DEF Q!Next
  <1>11. CASE UNCHANGED vars
    BY <1>11, StutterQuery DEF vars
  <1> QED BY <1>0, <1>1, <1>2, <1>3, <1>4, <1>5, <1>6, <1>7, <1>8, <1>9, <1>10, <1>11
          DEF Next, LoopStep

\* Views implement queries: for every dataset, whatever is chosen, filtered
\* and collected in whatever order and whatever fails on the way, the last
\* filter that returned has picked the rows that satisfy its condition, where
\* the kernels decide it, and a collect on its partitions delivers their
\* cells, each at the place its row has among them (filter, collect, sview.R).
THEOREM ViewsAreQueries == Spec => ImplementsQuery
  <1>1. Init => Q!Init
    BY InitQuery
  <1>2. Kept /\ Exact /\ (Kept /\ Exact)' /\ [Next]_vars => [Q!Next]_Q!vars
    BY NextQuery
  <1>3. Spec => Q!Spec
    BY <1>1, <1>2, ExactInvariance, PTL DEF Spec, Q!Spec
  <1> QED BY <1>3 DEF ImplementsQuery
=============================================================================
