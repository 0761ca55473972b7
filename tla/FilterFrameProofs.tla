-------------------------- MODULE FilterFrameProofs --------------------------
(***************************************************************************)
(* A call of filter, for any columns, data, view and condition.            *)
(*                                                                         *)
(* The loops keep their state in the frame the columns are loaded into, so *)
(* the inductive invariant says of every variable what it holds, or that a *)
(* column of its name is among those compared (Variables, Placed).  While  *)
(* no column is called s, p or vec, the frame shows each column as its     *)
(* vector or as something no comparison accepts; a bitmap that comes out   *)
(* of it is then the one that comes out of the frame of the vectors alone  *)
(* (Recorded), for which EvalRight says which rows it has.  And a frame in *)
(* which nothing is overwritten is one in which EvalBits gives a bitmap,   *)
(* so a call fails only for a reason.                                      *)
(***************************************************************************)
EXTENDS FilterFrame, ConditionProofs

-----------------------------------------------------------------------------
(* Variables, splits and vectors.                                           *)

\* An assignment of a vector or a bitmap, or of something else.
LEMMA AssignedOK ==
  ASSUME NEW f, NEW name, NEW x, ValueOK(x), \A n \in DOMAIN f : ValueOK(f[n])
  PROVE  \A n \in DOMAIN Let(f, name, x) : ValueOK(Let(f, name, x)[n])
  <1> DEFINE g == Let(f, name, x)
  <1>1. /\ DOMAIN g = DOMAIN f \cup {name} /\ g[name] = x
        /\ \A y \in DOMAIN f : y # name => g[y] = f[y]
    BY DEF Let
  <1> HIDE DEF g
  <1>2. \A n \in DOMAIN g : ValueOK(g[n])
    BY <1>1
  <1> QED BY <1>2 DEF g

\* How many splits partition p has.
Splits(p) == PartitionInfo(Rows(p), Rps).splits

\* A partition has as many rows in one column as in any other.
LEMMA RowsType ==
  ASSUME NEW p \in DOMAIN Data, NEW c \in Col
  PROVE  /\ Data[p][c] \in Seq(Cell) /\ Len(Data[p][c]) = Rows(p)
         /\ Rows(p) \in Nat /\ Rows(p) =< IntMax /\ Splits(p) \in Int
  <1> DEFINE b == CHOOSE x \in Col : TRUE
  <1>1. b \in Col
    BY FrameAssumption
  <1> HIDE DEF b
  <1>2. Data[p][c] \in Seq(Cell) /\ Data[p][b] \in Seq(Cell) /\ Len(Data[p][c]) = Len(Data[p][b])
        /\ Len(Data[p][b]) =< IntMax
    BY <1>1, FrameAssumption
  <1>3. Rows(p) = Len(Data[p][b])
    BY DEF Rows, b
  <1>4. Rows(p) \in Nat
    BY <1>2, <1>3, LenProperties
  <1>5. Splits(p) \in Int
    <2> DEFINE n == Rows(p)
               r == ToInt(ToInt(n) - 1)
    <2>1. n \in Int /\ Rps \in Nat \ {0} /\ IntMax \in Nat \ {0}
      BY <1>4, FrameAssumption, IntMaxAssumption
    <2> HIDE DEF n
    <2>2. ToInt(n) \in Int
      BY <2>1 DEF ToInt
    <2>3. r \in Int
      <3> DEFINE u == ToInt(n) - 1
      <3>1. u \in Int
        BY <2>2
      <3> HIDE DEF u
      <3>2. ToInt(u) \in Int
        BY <2>1, <3>1 DEF ToInt
      <3> QED BY <3>2 DEF u
    <2>4. Splits(p) = Quot(r, Rps) + 1
      BY DEF Splits, PartitionInfo, PartitionRows, n
    <2> HIDE DEF r
    <2>5. Quot(r, Rps) \in Int
      BY <2>1, <2>3 DEF Quot
    <2> QED BY <2>4, <2>5
  <1> QED BY <1>2, <1>3, <1>4, <1>5

\* How many rows a split has.
Width(key) == Len(CellsOf(key[1], key[2], CHOOSE c \in Col : TRUE))

\* A column of a split: as long as any other.
LEMMA SplitVector ==
  ASSUME NEW p \in DOMAIN Data, NEW s \in Int, NEW c \in Col
  PROVE  /\ Len(CellsOf(p, s, c)) = Width(<<p, s>>)
         /\ DOMAIN CellsOf(p, s, c) = 1..Width(<<p, s>>)
         /\ Width(<<p, s>>) \in Nat
  <1> DEFINE first == (s - 1) * Rps
             n     == RowsInSplit(Rows(p), Rps, s - 1)
             x(d)  == SubSeq(Data[p][d], first + 1, first + n)
             b     == CHOOSE d \in Col : TRUE
  <1>1. Rows(p) \in Nat /\ Rps \in Nat \ {0} /\ IntMax \in Nat \ {0}
    BY RowsType, FrameAssumption, IntMaxAssumption
  <1>2. n \in Int
    <2> DEFINE i == s - 1
    <2>1. i \in Int
      OBVIOUS
    <2> HIDE DEF i
    <2>2. RowsInSplit(Rows(p), Rps, i) \in Int
      BY <1>1, <2>1 DEF RowsInSplit, ToInt, Quot, Rem
    <2> QED BY <2>2 DEF i
  <1>3. first \in Int
    BY <1>1
  <1>4. \A d : CellsOf(p, s, d) = x(d)
    BY DEF CellsOf
  <1>5. b \in Col
    BY FrameAssumption
  <1> HIDE DEF first, n, b
  <1> DEFINE w == IF first + 1 =< first + n THEN (first + n) - (first + 1) + 1 ELSE 0
  <1>6. w \in Nat
    BY <1>2, <1>3
  <1>7. ASSUME NEW d \in Col PROVE Len(x(d)) = w /\ DOMAIN x(d) = 1..w
    <2> DEFINE cells == Data[p][d]
               S == {cells[i] : i \in Int}
               y == SubSeq(cells, first + 1, first + n)
    <2>1. first + 1 \in Int /\ first + n \in Int /\ \A i \in first + 1..first + n : cells[i] \in S
      BY <1>2, <1>3
    <2> HIDE DEF S, cells
    <2>2. y \in Seq(S) /\ Len(y) = w
      BY <2>1, SubSeqProperties
    <2> HIDE DEF y, w
    <2>3. DOMAIN y = 1..w
      BY <2>2, LenProperties
    <2> QED BY <2>2, <2>3 DEF y, cells
  <1> HIDE DEF w, x
  <1>8. Width(<<p, s>>) = w
    BY <1>4, <1>5, <1>7 DEF Width, b
  <1> QED BY <1>4, <1>6, <1>7, <1>8

\* What splitn returns is the cells, NULL or an error.
LEMMA SplitnOK ==
  ASSUME NEW p \in DOMAIN Data, NEW s \in Int, NEW c \in Col
  PROVE  /\ ValueOK(Splitn(p, s, c))
         /\ Splitn(p, s, c) = Error \/ Splitn(p, s, c).is \in {"vec", "null"}
         /\ Splitn(p, s, c).is \notin {"bits", "string"}
         /\ Splitn(p, s, c).is = "vec" => Splitn(p, s, c) = Vec(Class[c], CellsOf(p, s, c))
  <1> DEFINE x == Splitn(p, s, c)
             v == Vec(Class[c], CellsOf(p, s, c))
  <1>1. x \in {v, Null, Error}
    BY DEF Splitn
  <1>2. v.is = "vec" /\ ValueOK(v)
    <2>1. DOMAIN CellsOf(p, s, c) = 1..Width(<<p, s>>) /\ Width(<<p, s>>) \in Nat
      BY SplitVector
    <2> QED BY <2>1 DEF Vec, ValueOK, Numbered
  <1> HIDE DEF v, x
  <1>3. /\ ValueOK(x) /\ (x = Error \/ x.is \in {"vec", "null"})
        /\ x.is \notin {"bits", "string"} /\ (x.is = "vec" => x = v)
    BY <1>1, <1>2 DEF Null, Error, ValueOK
  <1> QED BY <1>3 DEF v, x

\* A split that a loop over the splits of a partition visits has rows, if the
\* partition has.
LEMMA VisitedHasRows ==
  ASSUME NEW p \in DOMAIN Data, Rows(p) # 0, NEW s \in ToSet(Colon(1, Splits(p)))
  PROVE  s \in 1..Splits(p) /\ FileRows(Rows(p), Rps, s - 1) > 0
  <1> DEFINE n == Rows(p)
             m == Splits(p)
             v == Colon(1, m)
  <1>1. n \in Nat \ {0} /\ n =< IntMax /\ Rps \in Nat \ {0}
    <2>1. PICK c : c \in Col
      BY FrameAssumption
    <2> QED BY <2>1, RowsType, FrameAssumption
  <1>2. m = PartitionInfo(n, Rps).splits
    BY DEF Splits
  <1>0. ToSet(v) = {v[j] : j \in DOMAIN v} /\ s \in ToSet(v)
    BY DEF ToSet
  <1> HIDE DEF n, m
  <1>3. m \in Nat \ {0} /\ \A t \in 1..m : FileRows(n, Rps, t - 1) > 0
    BY <1>1, <1>2, SplitHasRows
  <1>4. DOMAIN v = 1..Len(v) /\ \A j \in 1..Len(v) : v[j] \in Int /\ (m >= 1 => v[j] \in 1..m)
    <2>1. m \in Int
      BY <1>3
    <2> QED BY <2>1, OneColon
  <1> HIDE DEF v
  <1>5. s \in 1..m
    <2>1. PICK j \in DOMAIN v : s = v[j]
      BY <1>0
    <2> QED BY <1>3, <1>4, <2>1
  <1> QED BY <1>3, <1>5 DEF n, m

\* The steps of the loops: a split of a chosen partition each, and except for
\* the first of a partition the one before is of the same partition.
LEMMA TodoType ==
  ASSUME chosen \in Lists
  PROVE  /\ Len(Todo) \in Nat /\ DOMAIN Todo = 1..Len(Todo)
         /\ \A m \in 1..Len(Todo) :
              /\ Todo[m] = <<Todo[m][1], Todo[m][2]>>
              /\ Todo[m][1] \in DOMAIN Data /\ Todo[m][1] \in ToSet(chosen)
              /\ Todo[m][2] \in Int /\ Todo[m][2] \in ToSet(Colon(1, Splits(Todo[m][1])))
              /\ Todo[m][2] # 1 => m - 1 \in 1..Len(Todo) /\ Todo[m - 1][1] = Todo[m][1]
  <1> DEFINE S == (DOMAIN Data) \X Int
             nums(i) == Colon(1, Splits(chosen[i]))
             runs == [i \in DOMAIN chosen |-> [j \in DOMAIN nums(i) |-> <<chosen[i], nums(i)[j]>>]]
             len == Len(chosen)
             flat == FlattenSeq(runs)
  <1>1. chosen \in Seq(DOMAIN Data)
    BY FrameAssumption
  <1>2. len \in Nat /\ DOMAIN chosen = 1..len /\ \A i \in 1..len : chosen[i] \in DOMAIN Data
    BY <1>1, LenProperties, ElementOfSeq
  <1>3. ASSUME NEW i \in 1..len
        PROVE  /\ runs[i] \in Seq(S) /\ Len(runs[i]) = Len(nums(i)) /\ Len(nums(i)) \in Nat
               /\ nums(i)[1] = 1 /\ DOMAIN nums(i) = 1..Len(nums(i))
               /\ \A j \in 1..Len(nums(i)) : nums(i)[j] \in Int /\ runs[i][j] = <<chosen[i], nums(i)[j]>>
    <2> DEFINE p == chosen[i]
               v == Colon(1, Splits(p))
               n == Len(v)
               r == [j \in DOMAIN v |-> <<p, v[j]>>]
    <2>1. p \in DOMAIN Data
      BY <1>2
    <2>2. Splits(p) \in Int
      <3> DEFINE c == CHOOSE x \in Col : TRUE
      <3>1. c \in Col
        BY FrameAssumption
      <3> HIDE DEF c, p
      <3> QED BY <2>1, <3>1, RowsType
    <2>3. runs[i] = r /\ nums(i) = v
      BY <1>2
    <2>4. n \in Nat /\ DOMAIN v = 1..n /\ v[1] = 1 /\ \A j \in 1..n : v[j] \in Int
      <3> HIDE DEF p
      <3> QED BY <2>2, OneColon
    <2> HIDE DEF p, v, n
    <2>5. \A j \in 1..n : <<p, v[j]>> \in S
      BY <2>1, <2>4
    <2> HIDE DEF S
    <2>6. r = [j \in 1..n |-> <<p, v[j]>>]
      BY <2>4
    <2>7. [j \in 1..n |-> <<p, v[j]>>] \in Seq(S)
      BY <2>4, <2>5, IsASeq
    <2>8. r \in Seq(S) /\ DOMAIN r = 1..n
      BY <2>6, <2>7
    <2>9. Len(r) = n
      <3> HIDE DEF r
      <3> QED BY <2>4, <2>8, LenProperties
    <2>10. \A j \in 1..n : r[j] = <<p, v[j]>>
      BY <2>6
    <2> HIDE DEF r, runs, nums
    <2>11. n = Len(nums(i)) /\ p = chosen[i]
      BY <2>3 DEF n, p
    <2> QED BY <2>3, <2>4, <2>8, <2>9, <2>10, <2>11
  <1>4. runs = [i \in 1..len |-> runs[i]] /\ Todo = flat
    BY <1>2 DEF Todo, Splits
  <1> HIDE DEF runs, len, S, nums
  <1>5. runs \in Seq(Seq(S)) /\ Len(runs) = len
    <2>1. \A i \in 1..len : runs[i] \in Seq(S)
      BY <1>3
    <2>2. [i \in 1..len |-> runs[i]] \in Seq(Seq(S))
      BY <1>2, <2>1, IsASeq
    <2>3. DOMAIN runs = 1..len
      BY <1>4
    <2>4. runs \in Seq(Seq(S))
      BY <1>4, <2>2
    <2> QED BY <1>2, <2>3, <2>4, LenProperties
  <1>6. flat \in Seq(S)
    BY <1>5, RunsInFlat
  <1>7. PICK at : Origin(at, runs, len, flat)
    BY <1>5, FlattenedOrigin
  <1> HIDE DEF flat
  <1>8. Len(flat) \in Nat /\ DOMAIN flat = 1..Len(flat)
    BY <1>6, LenProperties
  <1>9. ASSUME NEW m \in 1..Len(flat)
        PROVE  /\ at[m][1] \in 1..len /\ at[m][2] \in 1..Len(runs[at[m][1]])
               /\ flat[m] = <<chosen[at[m][1]], nums(at[m][1])[at[m][2]]>>
               /\ Len(runs[at[m][1]]) = Len(nums(at[m][1]))
               /\ at[m] = <<at[m][1], at[m][2]>>
    <2> DEFINE i == at[m][1]
               s == at[m][2]
    <2>1. i \in 1..len /\ s \in 1..Len(runs[i]) /\ flat[m] = runs[i][s] /\ at[m] \in Nat \X Nat
      BY <1>7 DEF Origin
    <2> HIDE DEF i, s
    <2>2. Len(runs[i]) = Len(nums(i)) /\ runs[i][s] = <<chosen[i], nums(i)[s]>>
      BY <1>3, <2>1
    <2>3. at[m] = <<i, s>>
      BY <2>1 DEF i, s
    <2> QED BY <2>1, <2>2, <2>3 DEF i, s
  <1>10. ASSUME NEW m \in 1..Len(flat), at[m][2] # 1
         PROVE  m - 1 \in 1..Len(flat) /\ flat[m - 1][1] = flat[m][1]
    <2> DEFINE i == at[m][1]
               s == at[m][2]
    <2>1. i \in 1..len /\ s \in 1..Len(runs[i])
      BY <1>9
    <2>2. Len(runs[i]) \in Nat
      BY <1>3, <2>1, LenProperties
    <2>3. s - 1 \in 1..Len(runs[i])
      <3>1. s # 1
        BY <1>10
      <3> HIDE DEF i, s
      <3> QED BY <2>1, <2>2, <3>1
    <2>4. PICK l \in 1..Len(flat) : at[l] = <<i, s - 1>>
      BY <1>7, <2>1, <2>3 DEF Origin
    <2>5. at[l][1] = i /\ at[l][2] = s - 1
      BY <2>4
    <2>6. \A u, v \in 1..Len(flat) :
            u < v => at[u][1] < at[v][1] \/ (at[u][1] = at[v][1] /\ at[u][2] < at[v][2])
      BY <1>7 DEF Origin
    <2>7. \A u \in 1..Len(flat) : at[u][1] \in Int /\ at[u][2] \in Int
      BY <1>7 DEF Origin
    <2>8. l < m
      <3>1. ~ (m < l)
        BY <2>5, <2>6, <2>7
      <3>2. m # l
        BY <2>5, <2>7
      <3> QED BY <1>8, <3>1, <3>2
    <2>9. l = m - 1
      <3> SUFFICES ASSUME l < m - 1 PROVE FALSE
        BY <1>8, <2>8
      <3>1. m - 1 \in 1..Len(flat) /\ l < m - 1 /\ m - 1 < m
        BY <1>8, <2>8
      <3> DEFINE x == at[m - 1][1]
                 y == at[m - 1][2]
      <3>2. x \in Int /\ y \in Int /\ i \in Int /\ s \in Int
        BY <2>7, <3>1
      <3>3. i < x \/ (i = x /\ s - 1 < y)
        BY <2>5, <2>6, <3>1
      <3>4. x < i \/ (x = i /\ y < s)
        BY <2>6, <3>1
      <3> HIDE DEF x, y, i, s
      <3> QED BY <3>2, <3>3, <3>4
    <2>10. flat[l][1] = chosen[i] /\ flat[m][1] = chosen[i]
      BY <1>9, <2>5
    <2> QED BY <2>9, <2>10
  <1>11. ASSUME NEW m \in 1..Len(flat)
         PROVE  /\ flat[m] = <<flat[m][1], flat[m][2]>>
                /\ flat[m][1] \in DOMAIN Data /\ flat[m][1] \in ToSet(chosen)
                /\ flat[m][2] \in Int /\ flat[m][2] \in ToSet(Colon(1, Splits(flat[m][1])))
                /\ flat[m][2] # 1 => m - 1 \in 1..Len(flat) /\ flat[m - 1][1] = flat[m][1]
    <2> DEFINE i == at[m][1]
               j == at[m][2]
               t == nums(i)[j]
    <2>1. /\ i \in 1..len /\ j \in 1..Len(nums(i)) /\ flat[m] = <<chosen[i], t>>
      BY <1>9
    <2>2. j # 1 => m - 1 \in 1..Len(flat) /\ flat[m - 1][1] = flat[m][1]
      BY <1>10
    <2> HIDE DEF i, j
    <2>3. t \in Int /\ (t # 1 => j # 1) /\ j \in DOMAIN nums(i)
      BY <1>3, <2>1
    <2>4. t \in ToSet(Colon(1, Splits(chosen[i])))
      BY <2>3 DEF ToSet, nums
    <2> HIDE DEF t
    <2>5. flat[m][1] = chosen[i] /\ flat[m][2] = t
      BY <2>1
    <2>6. chosen[i] \in DOMAIN Data /\ chosen[i] \in ToSet(chosen)
      BY <1>2, <2>1 DEF ToSet
    <2>7. flat[m] = <<flat[m][1], flat[m][2]>>
      BY <2>1, <2>5
    <2> QED BY <2>2, <2>3, <2>4, <2>5, <2>6, <2>7
  <1> QED BY <1>4, <1>8, <1>11

-----------------------------------------------------------------------------
(* The inductive invariant.                                                 *)

\* The condition as it is evaluated.
Cond == Parse[expr]

Shape ==
  /\ expr \in Filters /\ chosen \in Lists
  /\ pc \in {"parse", "split", "load", "done"}
  /\ k \in 1..Len(Todo) + 1
  /\ pc = "load" => k =< Len(Todo)
  /\ pc = "parse" => k = 1 /\ bitmap = <<>>
  /\ cols \in Seq(Col) /\ (pc = "load" => ToSet(cols) \subseteq Compared)
  /\ \A key \in DOMAIN bitmap : bitmap[key] \in Seq(BOOLEAN)
  /\ status \in {"none", "ok", "error"}
  /\ status = "none" <=> pc # "done"
  /\ status = "ok" => k = Len(Todo) + 1

\* What filter's own variables hold; a column of the same name may have taken
\* the place of one.
Variables ==
  /\ \A n \in DOMAIN frame : ValueOK(frame[n])
  /\ pc \in {"split", "load"} =>
       /\ {".v", "parsed", "cols", "rows"} \subseteq DOMAIN frame
       /\ frame[".v"] = View \/ ".v" \in Compared
       /\ frame["parsed"] = Tree(Cond) \/ ("parsed" \in Compared /\ frame["parsed"].is # "tree")
       /\ frame["cols"] = Names(NamesIn[Cond]) \/ ("cols" \in Compared /\ frame["cols"].is # "names")
       /\ k > 1 \/ pc = "load" =>
            /\ "p" \in DOMAIN frame
            /\ frame["p"].is = "string" => frame["p"].string \in DOMAIN Data
       /\ pc = "load" =>
            /\ "s" \in DOMAIN frame
            /\ frame["s"].is = "number" => frame["s"].number \in Int

\* What the variable of a column holds once the column is loaded.
Shown(c) ==
  \/ frame[c] = Splitn(Todo[k][1], Todo[k][2], c)
  \/ c = "col" /\ frame[c].is = "string"
  \/ c = "vec" /\ \E d \in Compared : frame[c] = Splitn(Todo[k][1], Todo[k][2], d)

\* Where the loops are, and what is loaded, unless a column is called s or p.
Placed ==
  Compared \cap {"s", "p"} = {} =>
    /\ pc = "load" =>
         /\ frame["p"] = String(Todo[k][1]) /\ frame["s"] = Number(Todo[k][2])
         /\ \A c \in Compared \ ToSet(cols) : c \in DOMAIN frame /\ Shown(c)
    /\ pc = "split" /\ k > 1 => frame["p"] = String(Todo[k - 1][1])

\* What the condition gives for a split when every column is its vector.
Cells(key)   == [c \in Col |-> CellsOf(key[1], key[2], c)]
IdealOf(key) == Eval(Ideal(Class, Cells(key)), Cond)

\* The bitmaps of the splits that are done, and their count.
Recorded ==
  Compared \cap {"s", "p", "vec"} = {} =>
    /\ DOMAIN bitmap = {Todo[m] : m \in 1..k - 1}
    /\ \A key \in DOMAIN bitmap : IdealOf(key).is = "bits" /\ IdealOf(key).bits = bitmap[key]
    /\ IsFiniteSet(Marked(k - 1))
    /\ "rows" \notin Compared /\ pc # "parse" /\ status # "error" =>
         "rows" \in DOMAIN frame /\ frame["rows"] = Number(Cardinality(Marked(k - 1)))

IInv == Shape /\ Variables /\ Placed /\ Recorded

\* The condition and the view are those of the call.
LEMMA SameCall ==
  ASSUME expr' = expr, chosen' = chosen
  PROVE  /\ Todo' = Todo /\ Compared' = Compared /\ Cond' = Cond
         /\ \A key : IdealOf(key)' = IdealOf(key)
BY DEF Todo, Compared, Cond, IdealOf, Cells, CellsOf, Rows

\* The names compared are columns.
LEMMA ComparedType ==
  ASSUME Shape
  PROVE  /\ expr \in Expr /\ NamesIn[Cond] \in Seq(Col) /\ ToSet(NamesIn[Cond]) = Compared
         /\ Compared \subseteq Col
  <1>1. expr \in Expr
    BY FrameAssumption DEF Shape
  <1>2. NamesIn[Cond] \in Seq(Col)
    BY <1>1, NamesDef DEF Cond
  <1>3. ToSet(NamesIn[Cond]) = Compared
    BY DEF Compared, Cond
  <1> DEFINE names == NamesIn[Cond]
  <1> HIDE DEF names
  <1>4. \A i \in DOMAIN names : names[i] \in Col
    BY <1>2, LenProperties, ElementOfSeq DEF names
  <1>5. ToSet(names) \subseteq Col
    BY <1>4 DEF ToSet
  <1> QED BY <1>1, <1>2, <1>3, <1>5 DEF names

\* A call begins.
LEMMA InitIInv == Init => IInv
  <1> SUFFICES ASSUME Init PROVE IInv
    OBVIOUS
  <1> USE DEF Init
  <1>1. Len(Todo) \in Nat
    BY TodoType
  <1>2. 1 \in 1..Len(Todo) + 1
    BY <1>1
  <1>3. DOMAIN <<>> = {}
    OBVIOUS
  <1>4. Shape
    BY <1>2, <1>3, EmptySeq DEF Shape
  <1>5. Variables /\ Placed
    BY <1>3 DEF Variables, Placed
  <1>6. 1..k - 1 = {}
    BY DEF Init
  <1>7. Marked(k - 1) = {} /\ {Todo[m] : m \in 1..k - 1} = {}
    BY <1>6 DEF Marked
  <1>8. IsFiniteSet({})
    BY FS_EmptySet
  <1>9. DOMAIN bitmap = {}
    OBVIOUS
  <1>10. pc = "parse"
    OBVIOUS
  <1> HIDE DEF Init
  <1>11. Recorded
    BY <1>7, <1>8, <1>9, <1>10 DEF Recorded
  <1> QED BY <1>4, <1>5, <1>11 DEF IInv

\* A call that fails keeps what it has done.
LEMMA FailIInv == IInv /\ Fail /\ pc # "done" => IInv'
  <1> SUFFICES ASSUME IInv, Fail, pc # "done" PROVE IInv'
    OBVIOUS
  <1>1. /\ Todo' = Todo /\ Compared' = Compared /\ \A key : IdealOf(key)' = IdealOf(key)
    BY SameCall DEF Fail
  <1>2. Shape'
    BY <1>1 DEF IInv, Shape, Fail
  <1>3. Variables' /\ Placed'
    BY DEF IInv, Variables, Placed, Fail
  <1>4. \A n : Marked(n)' = Marked(n)
    BY <1>1 DEF Marked, Set, Fail
  <1>5. Recorded'
    BY <1>1, <1>4 DEF IInv, Recorded, Fail
  <1> QED BY <1>2, <1>3, <1>5 DEF IInv

\* Parsing sets up the variables.
LEMMA ParseIInv ==
  ASSUME IInv, ParseFilter, Cond # Error
  PROVE  IInv'
  <1> DEFINE f1 == Let(frame, ".v", View)
             f2 == Let(f1, "parsed", Tree(Cond))
             f3 == Let(f2, "cols", Names(NamesIn[Cond]))
             f4 == Let(f3, "rows", Number(0))
  <1>1. /\ pc = "parse" /\ pc' = "split" /\ frame' = f4
        /\ UNCHANGED <<expr, chosen, k, cols, bitmap, status>>
    BY DEF ParseFilter, Cond
  <1>2. /\ Todo' = Todo /\ Compared' = Compared /\ Cond' = Cond
        /\ \A key : IdealOf(key)' = IdealOf(key)
    BY <1>1, SameCall
  <1>3. ValueOK(View) /\ ValueOK(Tree(Cond)) /\ ValueOK(Names(NamesIn[Cond])) /\ ValueOK(Number(0))
    BY DEF ValueOK, View, Tree, Names, Number
  <1>4. \A n \in DOMAIN f4 : ValueOK(f4[n])
    <2>1. \A n \in DOMAIN frame : ValueOK(frame[n])
      BY DEF IInv, Variables
    <2>2. \A n \in DOMAIN f1 : ValueOK(f1[n])
      BY <1>3, <2>1, AssignedOK
    <2> HIDE DEF f1
    <2>3. \A n \in DOMAIN f2 : ValueOK(f2[n])
      BY <1>3, <2>2, AssignedOK
    <2> HIDE DEF f2
    <2>4. \A n \in DOMAIN f3 : ValueOK(f3[n])
      BY <1>3, <2>3, AssignedOK
    <2> HIDE DEF f3
    <2> QED BY <1>3, <2>4, AssignedOK
  <1>5. /\ {".v", "parsed", "cols", "rows"} \subseteq DOMAIN f4
        /\ f4[".v"] = View /\ f4["parsed"] = Tree(Cond) /\ f4["cols"] = Names(NamesIn[Cond])
        /\ f4["rows"] = Number(0)
    BY DEF Let
  <1> HIDE DEF f4
  <1>6. k = 1 /\ bitmap = <<>> /\ status = "none"
    BY <1>1 DEF IInv, Shape
  <1>7. Shape'
    BY <1>1, <1>2, <1>6 DEF IInv, Shape
  <1>8. Variables'
    BY <1>1, <1>2, <1>4, <1>5, <1>6 DEF Variables
  <1>9. Placed'
    BY <1>1, <1>6 DEF Placed
  <1>10. Recorded'
    <2>1. 1..k' - 1 = {} /\ k' = 1
      BY <1>1, <1>6
    <2>2. Marked(0)' = {} /\ {Todo[m]' : m \in 1..k' - 1} = {} /\ 1 - 1 = 0
      BY <2>1 DEF Marked
    <2>3. IsFiniteSet({}) /\ Cardinality({}) = 0
      BY FS_EmptySet
    <2>4. DOMAIN bitmap' = {}
      BY <1>1, <1>6
    <2>5. Marked(k - 1)' = {}
      BY <2>1 DEF Marked
    <2> QED BY <1>1, <1>5, <2>1, <2>3, <2>4, <2>5 DEF Recorded
  <1> QED BY <1>7, <1>8, <1>9, <1>10 DEF IInv

\* The loops go to the next split.
LEMMA NextSplitIInv ==
  ASSUME IInv, NextSplit, frame["cols"].is = "names"
  PROVE  IInv'
  <1> DEFINE p == Todo[k][1]
             s == Todo[k][2]
             f == IF s = 1 THEN Let(frame, "p", String(p)) ELSE frame
             g == Let(f, "s", Number(s))
  <1>1. /\ pc = "split" /\ k =< Len(Todo) /\ pc' = "load"
        /\ frame' = g /\ cols' = frame["cols"].names
        /\ UNCHANGED <<expr, chosen, k, bitmap, status>>
    BY DEF NextSplit
  <1>2. /\ Todo' = Todo /\ Compared' = Compared /\ Cond' = Cond
        /\ \A key : IdealOf(key)' = IdealOf(key)
    BY <1>1, SameCall
  <1>3. Shape /\ Variables /\ Placed /\ Recorded
    BY DEF IInv
  <1>4. /\ expr \in Expr /\ NamesIn[Cond] \in Seq(Col) /\ ToSet(NamesIn[Cond]) = Compared
    BY <1>3, ComparedType
  <1>5. /\ Len(Todo) \in Nat /\ k \in 1..Len(Todo) /\ p \in DOMAIN Data /\ s \in Int
        /\ s # 1 => k > 1 /\ Todo[k - 1][1] = p
    <2>1. Len(Todo) \in Nat /\ k \in 1..Len(Todo)
      BY <1>1, <1>3, TodoType DEF Shape
    <2>2. /\ p \in DOMAIN Data /\ s \in Int
          /\ s # 1 => k - 1 \in 1..Len(Todo) /\ Todo[k - 1][1] = p
      BY <1>3, <2>1, TodoType DEF Shape
    <2> HIDE DEF p, s
    <2> QED BY <2>1, <2>2
  <1> HIDE DEF p, s
  <1>6. cols' = NamesIn[Cond]
    <2>1. frame["cols"] = Names(NamesIn[Cond])
      BY <1>1, <1>3 DEF Variables
    <2> QED BY <1>1, <2>1 DEF Names
  <1>7. ValueOK(String(p)) /\ ValueOK(Number(s))
    BY DEF ValueOK, String, Number
  <1>8. \A n \in DOMAIN g : ValueOK(g[n])
    <2>1. \A n \in DOMAIN frame : ValueOK(frame[n])
      BY <1>3 DEF Variables
    <2>2. \A n \in DOMAIN f : ValueOK(f[n])
      <3>1. CASE s = 1
        BY <1>7, <2>1, <3>1, AssignedOK
      <3>2. CASE s # 1
        BY <2>1, <3>2
      <3> QED BY <3>1, <3>2
    <2> HIDE DEF f
    <2> QED BY <1>7, <2>2, AssignedOK
  <1>9. /\ DOMAIN frame \subseteq DOMAIN g /\ "s" \in DOMAIN g /\ g["s"] = Number(s)
        /\ \A y \in DOMAIN frame \ {"p", "s"} : g[y] = frame[y]
        /\ s = 1 => "p" \in DOMAIN g /\ g["p"] = String(p)
        /\ s # 1 => g["p"] = frame["p"] \/ "p" \notin DOMAIN frame
    <2>1. /\ DOMAIN g = DOMAIN f \cup {"s"} /\ g["s"] = Number(s)
          /\ \A y \in DOMAIN f : y # "s" => g[y] = f[y]
      BY DEF Let
    <2>2. /\ s = 1 => /\ DOMAIN f = DOMAIN frame \cup {"p"} /\ f["p"] = String(p)
                      /\ \A y \in DOMAIN frame : y # "p" => f[y] = frame[y]
          /\ s # 1 => f = frame
      BY DEF Let
    <2> HIDE DEF f, g
    <2> QED BY <2>1, <2>2
  <1> HIDE DEF g
  <1>10. /\ {".v", "parsed", "cols", "rows"} \subseteq DOMAIN g
         /\ g[".v"] = frame[".v"] /\ g["parsed"] = frame["parsed"] /\ g["cols"] = frame["cols"]
         /\ g["rows"] = frame["rows"]
    BY <1>1, <1>3, <1>9 DEF Variables
  <1>11. /\ "p" \in DOMAIN g
         /\ g["p"].is = "string" => g["p"].string \in DOMAIN Data
    <2>1. CASE s = 1
      BY <1>5, <1>9, <2>1 DEF String
    <2>2. CASE s # 1
      <3>1. "p" \in DOMAIN frame /\ (frame["p"].is = "string" => frame["p"].string \in DOMAIN Data)
        BY <1>1, <1>3, <1>5, <2>2 DEF Variables
      <3> QED BY <1>9, <2>2, <3>1
    <2> QED BY <2>1, <2>2
  <1>12. Shape'
    BY <1>1, <1>2, <1>3, <1>4, <1>5, <1>6 DEF Shape
  <1>13. Variables'
    <2>1. g["s"].is = "number" => g["s"].number \in Int
      BY <1>5, <1>9 DEF Number
    <2> QED BY <1>1, <1>2, <1>3, <1>8, <1>9, <1>10, <1>11, <2>1 DEF Variables
  <1>14. Placed'
    <2> SUFFICES ASSUME Compared \cap {"s", "p"} = {}
                 PROVE  /\ g["p"] = String(p) /\ g["s"] = Number(s)
                        /\ Compared \ ToSet(cols') = {}
      BY <1>1, <1>2 DEF Placed, p, s
    <2>1. CASE s = 1
      BY <1>4, <1>6, <1>9, <2>1
    <2>2. CASE s # 1
      <3>1. frame["p"] = String(p)
        BY <1>1, <1>3, <1>5, <2>2 DEF Placed
      <3>2. "p" \in DOMAIN frame
        BY <1>1, <1>3, <1>5, <2>2 DEF Variables
      <3> QED BY <1>4, <1>6, <1>9, <2>2, <3>1, <3>2
    <2> QED BY <2>1, <2>2
  <1>15. Recorded'
    <2>1. \A n : Marked(n)' = Marked(n)
      BY <1>1, <1>2 DEF Marked, Set
    <2> QED BY <1>1, <1>2, <1>3, <1>10, <2>1 DEF Recorded
  <1> QED BY <1>12, <1>13, <1>14, <1>15 DEF IInv

\* A variable that is taken as an int is one.
LEMMA Int1Type ==
  ASSUME NEW x, x.is = "number" => x.number \in Int
  PROVE  Int1(x) \in Int
  <1>1. ASSUME NEW y PROVE Quot(AsInt(y), 2) \in Int
    <2>1. \A z \in Int : Quot(z, 2) \in Int
      BY DEF Quot
    <2>2. AsInt(y) \in Int
      <3>1. NAInt \in Int
        BY IntMaxAssumption DEF NAInt
      <3>2. y \in Int => 2 * Quot(y, 2) \in Int
        BY <2>1
      <3> QED BY <3>1, <3>2 DEF AsInt
    <2> HIDE DEF AsInt
    <2> QED BY <2>1, <2>2
  <1>2. CASE x.is = "number"
    BY <1>2 DEF Int1
  <1>3. CASE x.is = "vec" /\ Len(x.cells) = 1
    BY <1>1, <1>3 DEF Int1
  <1>4. CASE x.is # "number" /\ ~(x.is = "vec" /\ Len(x.cells) = 1)
    BY <1>4 DEF Int1
  <1> QED BY <1>2, <1>3, <1>4

\* A column is loaded.
LEMMA LoadIInv ==
  ASSUME IInv, Load, status' = status
  PROVE  IInv'
  <1> DEFINE c == Head(cols)
             f == Let(frame, "col", String(c))
             x == Splitn(f["p"].string, Int1(f["s"]), c)
             h == Let(f, "vec", x)
             g == Let(h, c, x)
  <1>1. Shape /\ Variables /\ Placed /\ Recorded
    BY DEF IInv
  <1>2. /\ pc = "load" /\ cols # <<>> /\ f[".v"] = View /\ f["p"].is = "string" /\ IsInt(f["s"])
        /\ x # Error /\ frame' = g /\ cols' = Tail(cols)
        /\ UNCHANGED <<expr, chosen, pc, k, bitmap, status>>
    <2>1. status = "none"
      BY <1>1 DEF Load, Shape
    <2>2. ~Fail
      BY <2>1 DEF Fail
    <2> QED BY <2>2 DEF Load
  <1>3. /\ Todo' = Todo /\ Compared' = Compared /\ Cond' = Cond
        /\ \A key : IdealOf(key)' = IdealOf(key)
    BY <1>2, SameCall
  <1>4. /\ c \in Col /\ c \in Compared /\ Tail(cols) \in Seq(Col)
        /\ ToSet(cols) = {c} \cup ToSet(Tail(cols))
    <2>1. /\ cols \in Seq(Col) /\ cols # <<>> /\ ToSet(cols) \subseteq Compared
      BY <1>1, <1>2 DEF Shape
    <2>2. /\ c \in Col /\ Tail(cols) \in Seq(Col) /\ c = cols[1]
          /\ Len(cols) \in Nat /\ Len(cols) # 0 /\ DOMAIN cols = 1..Len(cols)
          /\ Len(Tail(cols)) = Len(cols) - 1
          /\ \A i \in 1..Len(cols) - 1 : Tail(cols)[i] = cols[i + 1]
      BY <2>1, HeadTailProperties, LenProperties, EmptySeq
    <2> DEFINE y == Tail(cols)
               n == Len(cols)
    <2>3. DOMAIN y = 1..n - 1
      BY <2>2, LenProperties
    <2> HIDE DEF y, n, c
    <2>4. ToSet(cols) = {cols[i] : i \in 1..n} /\ ToSet(y) = {y[i] : i \in 1..n - 1}
      BY <2>2, <2>3 DEF ToSet, n
    <2>5. n \in Nat \ {0} /\ c = cols[1] /\ \A i \in 1..n - 1 : y[i] = cols[i + 1]
      BY <2>2 DEF n, y
    <2>6. {cols[i] : i \in 1..n} = {c} \cup {y[i] : i \in 1..n - 1}
      <3>1. \A i \in 1..n : i = 1 \/ (i - 1 \in 1..n - 1 /\ (i - 1) + 1 = i)
        BY <2>5
      <3>2. \A i \in 1..n - 1 : i + 1 \in 1..n
        BY <2>5
      <3>3. 1 \in 1..n
        BY <2>5
      <3> QED BY <2>5, <3>1, <3>2, <3>3
    <2>7. ToSet(cols) = {c} \cup ToSet(y)
      BY <2>4, <2>6
    <2> QED BY <2>1, <2>2, <2>7 DEF y
  <1> HIDE DEF c
  <1>5. /\ {".v", "parsed", "cols", "rows", "p", "s"} \subseteq DOMAIN frame
        /\ frame["p"].is = "string" => frame["p"].string \in DOMAIN Data
        /\ frame["s"].is = "number" => frame["s"].number \in Int
    BY <1>1, <1>2 DEF Variables
  <1>6. f["p"] = frame["p"] /\ f["s"] = frame["s"] /\ f[".v"] = frame[".v"]
    BY <1>5 DEF Let
  <1>7. ValueOK(x) /\ x.is \in {"vec", "null"}
    <2>1. f["p"].string \in DOMAIN Data
      BY <1>2, <1>5, <1>6
    <2>2. Int1(f["s"]) \in Int
      BY <1>5, <1>6, Int1Type
    <2> HIDE DEF f
    <2> QED BY <1>2, <1>4, <2>1, <2>2, SplitnOK
  <1>8. \A n \in DOMAIN g : ValueOK(g[n])
    <2>1. \A n \in DOMAIN frame : ValueOK(frame[n])
      BY <1>1 DEF Variables
    <2>2. ValueOK(String(c))
      BY DEF ValueOK, String
    <2>3. \A n \in DOMAIN f : ValueOK(f[n])
      BY <2>1, <2>2, AssignedOK
    <2> HIDE DEF f, x
    <2>4. \A n \in DOMAIN h : ValueOK(h[n])
      BY <1>7, <2>3, AssignedOK
    <2> HIDE DEF h
    <2> QED BY <1>7, <2>4, AssignedOK
  <1>9. /\ DOMAIN g = DOMAIN frame \cup {"col", "vec", c}
        /\ g[c] = x /\ g["vec"] = x
        /\ c # "col" => g["col"] = String(c)
        /\ \A y \in DOMAIN frame \ {"col", "vec", c} : g[y] = frame[y]
    <2> HIDE DEF x
    <2>1. /\ DOMAIN f = DOMAIN frame \cup {"col"} /\ f["col"] = String(c)
          /\ \A y \in DOMAIN frame : y # "col" => f[y] = frame[y]
      BY DEF Let
    <2> HIDE DEF f
    <2>2. /\ DOMAIN h = DOMAIN f \cup {"vec"} /\ h["vec"] = x
          /\ \A y \in DOMAIN f : y # "vec" => h[y] = f[y]
      BY DEF Let
    <2> HIDE DEF h
    <2>3. /\ DOMAIN g = DOMAIN h \cup {c} /\ g[c] = x
          /\ \A y \in DOMAIN h : y # c => g[y] = h[y]
      BY DEF Let
    <2> HIDE DEF g
    <2> QED BY <2>1, <2>2, <2>3
  <1> HIDE DEF g
  <1>10. Shape'
    <2>1. ToSet(Tail(cols)) \subseteq Compared
      BY <1>1, <1>2, <1>4 DEF Shape
    <2> QED BY <1>1, <1>2, <1>3, <1>4, <2>1 DEF Shape
  <1> HIDE DEF f, h
  <1>12. Variables'
    <2>0. /\ frame[".v"] = View \/ ".v" \in Compared
          /\ frame["parsed"] = Tree(Cond) \/ ("parsed" \in Compared /\ frame["parsed"].is # "tree")
          /\ frame["cols"] = Names(NamesIn[Cond]) \/ ("cols" \in Compared /\ frame["cols"].is # "names")
      BY <1>1, <1>2 DEF Variables
    <2>1. {".v", "parsed", "cols", "rows", "p", "s"} \subseteq DOMAIN g
      BY <1>5, <1>9
    <2>2. g[".v"] = View \/ ".v" \in Compared
      BY <1>4, <1>5, <1>9, <2>0
    <2>3. g["parsed"] = Tree(Cond) \/ ("parsed" \in Compared /\ g["parsed"].is # "tree")
      BY <1>4, <1>5, <1>7, <1>9, <2>0
    <2>4. g["cols"] = Names(NamesIn[Cond]) \/ ("cols" \in Compared /\ g["cols"].is # "names")
      BY <1>4, <1>5, <1>7, <1>9, <2>0
    <2>5. g["p"].is = "string" => g["p"].string \in DOMAIN Data
      BY <1>4, <1>5, <1>7, <1>9
    <2>6. g["s"].is = "number" => g["s"].number \in Int
      BY <1>4, <1>5, <1>7, <1>9
    <2> QED BY <1>2, <1>3, <1>8, <2>1, <2>2, <2>3, <2>4, <2>5, <2>6 DEF Variables
  <1>13. Placed'
    <2> SUFFICES ASSUME Compared \cap {"s", "p"} = {}
                 PROVE  /\ g["p"] = String(Todo[k][1]) /\ g["s"] = Number(Todo[k][2])
                        /\ \A d \in Compared \ ToSet(Tail(cols)) : d \in DOMAIN g /\ Shown(d)'
      BY <1>2, <1>3 DEF Placed
    <2>1. /\ frame["p"] = String(Todo[k][1]) /\ frame["s"] = Number(Todo[k][2])
          /\ \A d \in Compared \ ToSet(cols) : d \in DOMAIN frame /\ Shown(d)
      BY <1>1, <1>2 DEF Placed
    <2>2. c # "p" /\ c # "s"
      BY <1>4
    <2>3. g["p"] = String(Todo[k][1]) /\ g["s"] = Number(Todo[k][2])
      BY <1>5, <1>9, <2>1, <2>2
    <2>4. x = Splitn(Todo[k][1], Todo[k][2], c)
      BY <1>6, <2>1 DEF x, String, Number, Int1
    <2> HIDE DEF x
    <2>5. ASSUME NEW d \in Compared \ ToSet(Tail(cols)) PROVE d \in DOMAIN g /\ Shown(d)'
      <3>1. CASE d = c
        BY <1>2, <1>3, <1>9, <2>4, <3>1 DEF Shown
      <3>2. CASE d # c /\ d = "col"
        BY <1>2, <1>9, <3>2 DEF Shown, String
      <3>3. CASE d # c /\ d = "vec"
        BY <1>2, <1>3, <1>4, <1>9, <2>4, <3>3 DEF Shown
      <3>4. CASE d # c /\ d \notin {"col", "vec"}
        <4>1. d \in DOMAIN frame /\ Shown(d)
          BY <1>4, <2>1, <3>4
        <4>2. g[d] = frame[d] /\ d \in DOMAIN g
          BY <1>9, <3>4, <4>1
        <4> QED BY <1>2, <1>3, <3>4, <4>1, <4>2 DEF Shown
      <3> QED BY <3>1, <3>2, <3>3, <3>4
    <2> QED BY <2>3, <2>5
  <1>14. Recorded'
    <2>1. \A n : Marked(n)' = Marked(n)
      BY <1>2, <1>3 DEF Marked, Set
    <2>2. "rows" \notin Compared => g["rows"] = frame["rows"] /\ "rows" \in DOMAIN g
      BY <1>4, <1>5, <1>9
    <2> QED BY <1>1, <1>2, <1>3, <2>1, <2>2 DEF Recorded
  <1> QED BY <1>10, <1>12, <1>13, <1>14 DEF IInv

\* Only the condition can have given a bitmap.
LEMMA EvaluatedOK ==
  ASSUME IInv, pc = "load"
  PROVE  /\ ValueOK(Evaluated)
         /\ Evaluated.is = "bits" => Evaluated = Eval(frame, Cond)
  <1>1. expr \in Expr
    BY ComparedType DEF IInv
  <1>2. frame["parsed"] = Tree(Cond) \/ frame["parsed"].is # "tree"
    BY DEF IInv, Variables
  <1>3. CASE frame["parsed"] = Tree(Cond)
    <2>1. Evaluated = Eval(frame, Cond)
      BY <1>3 DEF Evaluated, Tree
    <2>2. ValueOK(Eval(frame, Cond))
      BY <1>1, EvalOK DEF IInv, Variables, Cond
    <2> QED BY <2>1, <2>2
  <1>4. CASE frame["parsed"].is # "tree"
    <2>1. Evaluated = Error
      BY <1>4 DEF Evaluated
    <2> QED BY <2>1 DEF Error, ValueOK
  <1> QED BY <1>2, <1>3, <1>4

\* A bitmap that is recorded is the one of the columns themselves.
LEMMA EvaluatedIdeal ==
  ASSUME IInv, pc = "load", cols = <<>>, Compared \cap {"s", "p", "vec"} = {},
         Evaluated.is = "bits"
  PROVE  IdealOf(Todo[k]) = Evaluated
  <1> DEFINE key == Todo[k]
             X == Cells(key)
  <1>1. Shape /\ Variables /\ Placed
    BY DEF IInv
  <1>2. expr \in Expr /\ ToSet(NamesIn[Cond]) = Compared /\ Compared \subseteq Col
    BY <1>1, ComparedType
  <1>3. k \in 1..Len(Todo) /\ chosen \in Lists
    BY <1>1, TodoType DEF Shape
  <1>4. key[1] \in DOMAIN Data /\ key[2] \in Int
    BY <1>3, TodoType
  <1>5. ToSet(<<>>) = {}
    BY DEF ToSet
  <1>6. Shows(frame, Class, X, Compared)
    <2> SUFFICES ASSUME NEW c \in Compared
                 PROVE  /\ c \in DOMAIN frame /\ frame[c].is # "bits"
                        /\ frame[c].is = "vec" => frame[c] = Vec(Class[c], X[c])
      BY DEF Shows
    <2>1. c \in DOMAIN frame /\ Shown(c) /\ c # "vec" /\ c \in Col
      BY <1>1, <1>2, <1>5 DEF Placed
    <2>2. CASE frame[c] = Splitn(key[1], key[2], c)
      <3>1. X[c] = CellsOf(key[1], key[2], c)
        BY <2>1 DEF Cells
      <3> HIDE DEF X, key
      <3>2. frame[c].is # "bits" /\ (frame[c].is = "vec" => frame[c] = Vec(Class[c], X[c]))
        BY <1>4, <2>1, <2>2, <3>1, SplitnOK
      <3> QED BY <2>1, <3>2
    <2>3. CASE frame[c].is = "string"
      BY <2>1, <2>3
    <2> QED BY <2>1, <2>2, <2>3 DEF Shown
  <1>7. Evaluated = Eval(frame, Parse[expr])
    BY EvaluatedOK DEF Cond
  <1>8. NamesWithin(Parse[expr], Compared)
    BY <1>2 DEF NamesWithin, Cond
  <1> HIDE DEF X
  <1>9. Eval(Ideal(Class, X), Parse[expr]) = Eval(frame, Parse[expr])
    BY <1>2, <1>6, <1>7, <1>8, EvalIdeal
  <1> QED BY <1>7, <1>9 DEF IdealOf, Cond, X

\* One more split is counted.
LEMMA MarkedNext ==
  ASSUME NEW n \in Nat, NEW B, NEW T, IsFiniteSet(T),
         IsFiniteSet(UNION {{m} \X B[m] : m \in 1..n}), B[n + 1] = T
  PROVE  LET old == UNION {{m} \X B[m] : m \in 1..n}
             new == UNION {{m} \X B[m] : m \in 1..n + 1}
         IN  /\ IsFiniteSet(new) /\ Cardinality(new) = Cardinality(old) + Cardinality(T)
             /\ Cardinality(old) \in Nat /\ Cardinality(T) \in Nat
  <1> DEFINE old == UNION {{m} \X B[m] : m \in 1..n}
             new == UNION {{m} \X B[m] : m \in 1..n + 1}
             P == {n + 1} \X T
  <1>1. 1..n + 1 = (1..n) \cup {n + 1}
    OBVIOUS
  <1>2. new = old \cup P
    BY <1>1
  <1>3. old \cap P = {}
    <2> SUFFICES ASSUME NEW r \in old, r \in P PROVE FALSE
      OBVIOUS
    <2>1. PICK m \in 1..n : r \in {m} \X B[m]
      OBVIOUS
    <2>2. r[1] = m /\ r[1] = n + 1
      BY <2>1
    <2> QED BY <2>2
  <1>4. IsFiniteSet({n + 1}) /\ Cardinality({n + 1}) = 1
    BY FS_Singleton
  <1>5. IsFiniteSet(P) /\ Cardinality(P) = 1 * Cardinality(T)
    BY <1>4, FS_Product
  <1>6. Cardinality(T) \in Nat /\ Cardinality(old) \in Nat
    BY FS_CardinalityType
  <1> HIDE DEF old, new, P
  <1>7. IsFiniteSet(old)
    BY DEF old
  <1>8. Cardinality(old \cap P) = 0
    BY <1>3, FS_EmptySet
  <1>9. IsFiniteSet(new) /\ Cardinality(new) = Cardinality(old) + Cardinality(P) - Cardinality(old \cap P)
    BY <1>2, <1>5, <1>7, FS_Union
  <1>10. Cardinality(P) = Cardinality(T)
    BY <1>5, <1>6
  <1>11. Cardinality(new) = Cardinality(old) + Cardinality(T)
    BY <1>6, <1>8, <1>9, <1>10
  <1> QED BY <1>6, <1>9, <1>11 DEF old, new

\* The bits set in a bitmap can be counted.
LEMMA SetFinite ==
  ASSUME NEW bits \in Seq(BOOLEAN)
  PROVE  IsFiniteSet(Set(bits)) /\ Popcount(bits) = Cardinality(Set(bits))
  <1>1. Len(bits) \in Nat /\ DOMAIN bits = 1..Len(bits)
    BY LenProperties
  <1> DEFINE n == Len(bits)
  <1> HIDE DEF n
  <1>2. IsFiniteSet(1..n)
    <2>1. 1 \in Int /\ n \in Int
      BY <1>1 DEF n
    <2> QED BY <2>1, FS_Interval
  <1>3. Set(bits) \in SUBSET (1..n)
    BY <1>1 DEF Set, n
  <1>4. IsFiniteSet(Set(bits))
    BY <1>2, <1>3, FS_Subset
  <1> QED BY <1>4 DEF Popcount

\* The number of rows after a split.
LEMMA PlusOK ==
  ASSUME NEW x, NEW n, ValueOK(x)
  PROVE  ValueOK(Plus(x, n))
  <1>1. CASE x.is = "number"
    BY <1>1 DEF Plus, Number, ValueOK
  <1>2. CASE x.is = "vec"
    <2> DEFINE y == [j \in DOMAIN x.cells |-> x.cells[j] + 2 * n]
    <2>1. Plus(x, n) = Vec(x.class, y)
      BY <1>2 DEF Plus
    <2>2. DOMAIN y = DOMAIN x.cells
      OBVIOUS
    <2> HIDE DEF y
    <2> QED BY <1>2, <2>1, <2>2 DEF Vec, ValueOK, Numbered
  <1>3. CASE x.is \notin {"number", "vec"}
    <2>1. Plus(x, n) = Vec("integer", <<>>)
      BY <1>3 DEF Plus
    <2>2. DOMAIN <<>> = 1..0
      OBVIOUS
    <2> QED BY <2>1, <2>2 DEF Vec, ValueOK, Numbered
  <1> QED BY <1>1, <1>2, <1>3

\* A split is evaluated and its bitmap recorded.
LEMMA EvalSplitIInv ==
  ASSUME IInv, EvalSplit, status' = status
  PROVE  IInv'
  <1> DEFINE e == Evaluated
             n == Popcount(e.bits)
             f == Let(frame, "b", e)
             h == Let(f, "k", String(Key))
             r == Plus(frame["rows"], n)
             g == Let(h, "rows", r)
  <1>1. Shape /\ Variables /\ Placed /\ Recorded
    BY DEF IInv
  <1>2. /\ pc = "load" /\ cols = <<>> /\ Recordable /\ pc' = "split" /\ k' = k + 1
        /\ bitmap' = Let(bitmap, Key, e.bits) /\ frame' = g
        /\ UNCHANGED <<expr, chosen, cols, status>>
    <2>1. status = "none"
      BY <1>1 DEF EvalSplit, Shape
    <2>2. ~Fail
      BY <2>1 DEF Fail
    <2> QED BY <2>2 DEF EvalSplit
  <1>3. /\ Todo' = Todo /\ Compared' = Compared /\ Cond' = Cond
        /\ \A key : IdealOf(key)' = IdealOf(key)
    BY <1>2, SameCall
  <1>4. e.is = "bits" /\ ValueOK(e) /\ e.bits \in Seq(BOOLEAN)
    BY <1>2, EvaluatedOK DEF Recordable, ValueOK
  <1>5. {".v", "parsed", "cols", "rows", "p", "s"} \subseteq DOMAIN frame
    BY <1>1, <1>2 DEF Variables
  <1>6. /\ Len(Todo) \in Nat /\ k \in 1..Len(Todo) /\ (k + 1) - 1 = k
        /\ Todo[k] = <<Todo[k][1], Todo[k][2]>>
    <2>1. Len(Todo) \in Nat /\ k \in 1..Len(Todo)
      BY <1>1, <1>2, TodoType DEF Shape
    <2> QED BY <1>1, <2>1, TodoType DEF Shape
  <1> HIDE DEF e
  <1>7. \A y \in DOMAIN g : ValueOK(g[y])
    <2>1. ValueOK(String(Key)) /\ ValueOK(frame["rows"])
      BY <1>1, <1>5 DEF Variables, ValueOK, String
    <2>2. ValueOK(r)
      <3> HIDE DEF n
      <3> QED BY <2>1, PlusOK
    <2>3. \A y \in DOMAIN frame : ValueOK(frame[y])
      BY <1>1 DEF Variables
    <2>4. \A y \in DOMAIN f : ValueOK(f[y])
      BY <1>4, <2>3, AssignedOK
    <2> HIDE DEF f, r
    <2>5. \A y \in DOMAIN h : ValueOK(h[y])
      BY <2>1, <2>4, AssignedOK
    <2> HIDE DEF h
    <2> QED BY <2>2, <2>5, AssignedOK
  <1>8. /\ DOMAIN frame \subseteq DOMAIN g /\ g["rows"] = r
        /\ \A y \in DOMAIN frame \ {"b", "k", "rows"} : g[y] = frame[y]
    <2> HIDE DEF r
    <2> QED BY DEF Let
  <1> HIDE DEF g
  <1>9. Shape'
    <2>1. \A key \in DOMAIN bitmap' : bitmap'[key] \in Seq(BOOLEAN)
      BY <1>1, <1>2, <1>4 DEF Shape, Let
    <2>2. k' \in 1..Len(Todo') + 1
      BY <1>2, <1>3, <1>6
    <2> QED BY <1>1, <1>2, <1>3, <2>1, <2>2 DEF Shape
  <1>10. Variables'
    <2>1. /\ {".v", "parsed", "cols", "rows", "p"} \subseteq DOMAIN g
          /\ g[".v"] = frame[".v"] /\ g["parsed"] = frame["parsed"] /\ g["cols"] = frame["cols"]
          /\ g["p"] = frame["p"]
      BY <1>5, <1>8
    <2> QED BY <1>1, <1>2, <1>3, <1>7, <2>1 DEF Variables
  <1>11. Placed'
    <2>1. g["p"] = frame["p"]
      BY <1>5, <1>8
    <2> QED BY <1>1, <1>2, <1>3, <1>6, <2>1 DEF Placed
  <1>12. Recorded'
    <2> SUFFICES ASSUME Compared \cap {"s", "p", "vec"} = {} PROVE Recorded'
      BY <1>3 DEF Recorded
    <2>1. /\ DOMAIN bitmap = {Todo[m] : m \in 1..k - 1}
          /\ \A key \in DOMAIN bitmap : IdealOf(key).is = "bits" /\ IdealOf(key).bits = bitmap[key]
          /\ IsFiniteSet(Marked(k - 1))
          /\ "rows" \notin Compared => frame["rows"] = Number(Cardinality(Marked(k - 1)))
      <3>1. pc # "parse" /\ status # "error"
        BY <1>1, <1>2 DEF Shape
      <3> QED BY <1>1, <3>1 DEF Recorded
    <2>2. IdealOf(Todo[k]) = e
      BY <1>2, <1>4, EvaluatedIdeal DEF e
    <2>3. Key = Todo[k]
      <3>1. frame["p"] = String(Todo[k][1]) /\ frame["s"] = Number(Todo[k][2])
        BY <1>1, <1>2 DEF Placed
      <3>2. Key = <<Todo[k][1], Todo[k][2]>>
        BY <3>1 DEF Key, String, Number, Int1
      <3> QED BY <1>6, <3>2
    <2>4. /\ DOMAIN bitmap' = DOMAIN bitmap \cup {Todo[k]} /\ bitmap'[Todo[k]] = e.bits
          /\ \A key \in DOMAIN bitmap : key # Todo[k] => bitmap'[key] = bitmap[key]
      BY <1>2, <2>3 DEF Let
    <2>5. \A key \in DOMAIN bitmap' : IdealOf(key).is = "bits" /\ IdealOf(key).bits = bitmap'[key]
      BY <1>4, <2>1, <2>2, <2>4
    <2>6. DOMAIN bitmap' = {Todo[m] : m \in 1..k}
      <3>1. 1..k = (1..k - 1) \cup {k}
        BY <1>6
      <3>2. {Todo[m] : m \in 1..k} = {Todo[m] : m \in 1..k - 1} \cup {Todo[k]}
        BY <3>1
      <3> QED BY <2>1, <2>4, <3>2
    <2>7. \A m \in 1..k - 1 : bitmap'[Todo[m]] = bitmap[Todo[m]]
      <3> SUFFICES ASSUME NEW m \in 1..k - 1 PROVE bitmap'[Todo[m]] = bitmap[Todo[m]]
        OBVIOUS
      <3>1. Todo[m] \in DOMAIN bitmap
        BY <2>1
      <3>2. Todo[m] \in DOMAIN bitmap'
        BY <2>4, <3>1
      <3> QED BY <2>1, <2>5, <3>1, <3>2
    <2> DEFINE B == [m \in 1..k |-> Set(bitmap'[Todo[m]])]
               d == k - 1
               new == UNION {{m} \X Set(bitmap'[Todo[m]]) : m \in 1..k}
    <2>8. d \in Nat /\ d + 1 = k /\ d = k - 1
      BY <1>6
    <2>9. \A m \in 1..k : B[m] = Set(bitmap'[Todo[m]])
      OBVIOUS
    <2>10. new = UNION {{m} \X B[m] : m \in 1..d + 1}
      <3> HIDE DEF d
      <3>1. {{m} \X Set(bitmap'[Todo[m]]) : m \in 1..k} = {{m} \X B[m] : m \in 1..k}
        BY <2>9
      <3> QED BY <2>8, <3>1
    <2>11. Marked(d) = UNION {{m} \X B[m] : m \in 1..d}
      <3> HIDE DEF d
      <3>1. \A m \in 1..d : m \in 1..k - 1 /\ m \in 1..k
        BY <2>8, <1>6
      <3>2. \A m \in 1..d : Set(bitmap[Todo[m]]) = B[m]
        BY <2>7, <3>1
      <3>3. {{m} \X Set(bitmap[Todo[m]]) : m \in 1..d} = {{m} \X B[m] : m \in 1..d}
        BY <3>2
      <3> QED BY <3>3 DEF Marked
    <2> DEFINE T == Set(e.bits)
    <2>12. IsFiniteSet(T) /\ n = Cardinality(T)
      BY <1>4, SetFinite
    <2>13. B[d + 1] = T
      BY <1>6, <2>4, <2>8, <2>9
    <2>14. Marked(k - 1)' = new
      <3>1. k' - 1 = k
        BY <1>2, <1>6
      <3>2. Marked(k - 1)' = UNION {{m} \X Set(bitmap'[Todo[m]]) : m \in 1..k' - 1}
        BY <1>3 DEF Marked
      <3> QED BY <3>1, <3>2
    <2> HIDE DEF B, d, T, n, new
    <2>15. IsFiniteSet(UNION {{m} \X B[m] : m \in 1..d})
      BY <2>1, <2>8, <2>11
    <2>16. /\ IsFiniteSet(new) /\ Cardinality(new) = Cardinality(Marked(d)) + n
           /\ Cardinality(Marked(d)) \in Nat /\ n \in Nat
      <3> DEFINE u == UNION {{m} \X B[m] : m \in 1..d}
                 w == UNION {{m} \X B[m] : m \in 1..d + 1}
      <3>1. /\ IsFiniteSet(w) /\ Cardinality(w) = Cardinality(u) + Cardinality(T)
            /\ Cardinality(u) \in Nat /\ Cardinality(T) \in Nat
        <4>1. d \in Nat /\ IsFiniteSet(T) /\ IsFiniteSet(u) /\ B[d + 1] = T
          BY <2>8, <2>12, <2>13, <2>15
        <4> QED BY <4>1, MarkedNext
      <3>2. new = w /\ Marked(d) = u
        BY <2>10, <2>11
      <3> HIDE DEF u, w
      <3> QED BY <2>12, <3>1, <3>2
    <2>17. "rows" \notin Compared => g["rows"] = Number(Cardinality(new))
      <3> SUFFICES ASSUME "rows" \notin Compared PROVE g["rows"] = Number(Cardinality(new))
        OBVIOUS
      <3>1. frame["rows"] = Number(Cardinality(Marked(d)))
        BY <2>1, <2>8
      <3>2. r = Number(Cardinality(Marked(d)) + n)
        BY <3>1 DEF Plus, Number
      <3> QED BY <1>8, <2>16, <3>2
    <2>18. DOMAIN bitmap' = {Todo'[m] : m \in 1..k' - 1}
      <3>1. k' - 1 = k
        BY <1>2, <1>6
      <3> QED BY <1>3, <2>6, <3>1
    <2>19. "rows" \in DOMAIN g
      BY <1>5, <1>8
    <2> QED BY <1>2, <1>3, <2>5, <2>14, <2>16, <2>17, <2>18, <2>19 DEF Recorded
  <1> QED BY <1>9, <1>10, <1>11, <1>12 DEF IInv

\* A call returns.
LEMMA EndIInv ==
  ASSUME IInv, End
  PROVE  IInv'
  <1>1. /\ pc = "split" /\ k > Len(Todo) /\ status' = "ok" /\ pc' = "done"
        /\ UNCHANGED <<expr, chosen, k, cols, frame, bitmap>>
    BY DEF End
  <1>2. /\ Todo' = Todo /\ Compared' = Compared /\ \A key : IdealOf(key)' = IdealOf(key)
    BY <1>1, SameCall
  <1>3. Shape /\ Variables /\ Placed /\ Recorded
    BY DEF IInv
  <1>4. k = Len(Todo) + 1
    <2>1. Len(Todo) \in Nat
      BY <1>3, TodoType DEF Shape
    <2> QED BY <1>1, <1>3, <2>1 DEF Shape
  <1>5. Shape'
    BY <1>1, <1>2, <1>3, <1>4 DEF Shape
  <1>6. Variables' /\ Placed'
    BY <1>1, <1>3 DEF Variables, Placed
  <1>7. \A n : Marked(n)' = Marked(n)
    BY <1>1, <1>2 DEF Marked, Set
  <1>8. pc # "parse" /\ status # "error"
    BY <1>1, <1>3 DEF Shape
  <1>9. Recorded'
    BY <1>1, <1>2, <1>3, <1>7, <1>8 DEF Recorded
  <1> QED BY <1>5, <1>6, <1>9 DEF IInv

\* Every step keeps the invariant, the failing ones included.
LEMMA NextIInv == IInv /\ [Next]_vars => IInv'
  <1> SUFFICES ASSUME IInv, [Next]_vars PROVE IInv'
    OBVIOUS
  <1>1. status = "none" <=> pc # "done"
    BY DEF IInv, Shape
  <1>2. CASE Fail /\ pc # "done"
    BY <1>2, FailIInv
  <1>3. CASE ParseFilter
    <2>1. CASE Cond = Error
      BY <1>2, <1>3, <2>1 DEF ParseFilter, Cond
    <2>2. CASE Cond # Error
      BY <1>3, <2>2, ParseIInv
    <2> QED BY <2>1, <2>2
  <1>9. CASE NoPartitions
    BY <1>2, <1>9 DEF NoPartitions
  <1>4. CASE NextSplit
    <2>1. CASE frame["cols"].is # "names"
      BY <1>2, <1>4, <2>1 DEF NextSplit
    <2>2. CASE frame["cols"].is = "names"
      BY <1>4, <2>2, NextSplitIInv
    <2> QED BY <2>1, <2>2
  <1>5. CASE Load
    <2>1. pc # "done" /\ (Fail \/ status' = status)
      BY <1>5 DEF Load
    <2> QED BY <1>2, <1>5, <2>1, LoadIInv
  <1>6. CASE EvalSplit
    <2>1. pc # "done" /\ (Fail \/ status' = status)
      BY <1>6 DEF EvalSplit
    <2> QED BY <1>2, <1>6, <2>1, EvalSplitIInv
  <1>7. CASE End
    BY <1>7, EndIInv
  <1>8. CASE UNCHANGED vars
    <2>1. /\ pc' = pc /\ k' = k /\ cols' = cols /\ frame' = frame /\ bitmap' = bitmap
          /\ status' = status /\ expr' = expr /\ chosen' = chosen
      BY <1>8 DEF vars
    <2>2. /\ Todo' = Todo /\ Compared' = Compared /\ Cond' = Cond
          /\ \A key : IdealOf(key)' = IdealOf(key)
      BY <2>1, SameCall
    <2>3. \A n : Marked(n)' = Marked(n)
      BY <2>1, <2>2 DEF Marked, Set
    <2>4. Shape' /\ Variables'
      BY <2>1, <2>2 DEF IInv, Shape, Variables
    <2>5. \A c : Shown(c)' = Shown(c)
      BY <2>1, <2>2 DEF Shown
    <2>6. Placed'
      BY <2>1, <2>2, <2>5 DEF IInv, Placed
    <2>7. Recorded'
      BY <2>1, <2>2, <2>3 DEF IInv, Recorded
    <2> QED BY <2>4, <2>6, <2>7 DEF IInv
  <1> QED BY <1>3, <1>4, <1>5, <1>6, <1>7, <1>8, <1>9 DEF Next

\* The inductive invariant holds throughout.
THEOREM Invariance == Spec => []IInv
BY InitIInv, NextIInv, PTL DEF Spec

-----------------------------------------------------------------------------
(* What follows from the invariant.                                         *)

\* Every variable has its type.
THEOREM TypeCorrect == Spec => []TypeOK
  <1>1. IInv => TypeOK
    <2> SUFFICES ASSUME IInv PROVE TypeOK
      OBVIOUS
    <2>1. Shape
      BY DEF IInv
    <2>2. ToSet(cols) \subseteq Col
      <3>1. cols \in Seq(Col)
        BY <2>1 DEF Shape
      <3>2. \A i \in DOMAIN cols : cols[i] \in Col
        BY <3>1, LenProperties, ElementOfSeq
      <3> QED BY <3>2 DEF ToSet
    <2> QED BY <2>1, <2>2 DEF Shape, TypeOK
  <1> QED BY <1>1, Invariance, PTL

\* The bitmap recorded for a split is the one of the rows that satisfy the
\* condition, as far as the kernels decide it.
LEMMA BitmapRight ==
  ASSUME IInv, Constants = {}, NEW key, key \in ToSet(Todo),
         NEW b \in Seq(BOOLEAN), IdealOf(key).is = "bits", IdealOf(key).bits = b
  PROVE  /\ Len(b) = Width(key)
         /\ \A j \in DOMAIN b : DecidedRow(key, j) => (b[j] <=> Truth(expr, Row(key, j)))
  <1> DEFINE X == Cells(key)
             f == Ideal(Class, X)
  <1>1. expr \in Expr /\ Compared \subseteq Col /\ NamesWithin(Cond, Compared)
    BY ComparedType DEF IInv, NamesWithin, Compared, Cond
  <1>2. key = <<key[1], key[2]>> /\ key[1] \in DOMAIN Data /\ key[2] \in Int
    <2>1. chosen \in Lists
      BY DEF IInv, Shape
    <2>2. PICK m \in DOMAIN Todo : key = Todo[m]
      BY DEF ToSet
    <2> QED BY <2>1, <2>2, TodoType
  <1>3. \A c \in Col : X[c] = CellsOf(key[1], key[2], c)
    BY DEF Cells
  <1>4. \A c \in Col : DOMAIN X[c] = 1..Width(key) /\ Len(X[c]) = Width(key) /\ Width(key) \in Nat
    BY <1>2, <1>3, SplitVector
  <1> HIDE DEF X
  <1>5. DOMAIN f = Col /\ \A c \in Col : f[c] = Vec(Class[c], X[c])
    BY DEF Ideal
  <1> HIDE DEF f
  <1>6. Shows(f, Class, X, Compared)
    BY <1>1, <1>5 DEF Shows, Vec
  <1>7. \A c \in DOMAIN f : ValueOK(f[c])
    BY <1>4, <1>5 DEF Vec, ValueOK, Numbered
  <1>8. Right(f, Class, X, Compared, expr)
    BY <1>1, <1>6, <1>7, EvalRight
  <1>9. Legal(X, Compared, Parse[expr])
    <2>1. \A a \in Comparisons[Parse[expr]] : a.args[1].is # "const"
      BY DEF Constants
    <2>2. \A c, d \in Compared : Len(X[c]) = Len(X[d])
      BY <1>1, <1>4
    <2> QED BY <1>1, <2>1, <2>2 DEF Legal, Cond
  <1>10. Eval(f, Parse[expr]).is = "bits" /\ Eval(f, Parse[expr]).bits = b
    BY DEF IdealOf, Cond, f, X
  <1>11. BitsMean(Class, X, expr, Parse[expr], b) /\ BitsCover(f, X, Compared, Parse[expr], b)
    BY <1>8, <1>9, <1>10 DEF Right
  <1>12. \A a \in Comparisons[Parse[expr]] : a.args[1].name \in Col
    BY <1>1, <1>11 DEF BitsCover
  <1>13. Len(b) = Width(key)
    <2>1. PICK a \in Comparisons[Parse[expr]] : DOMAIN b = DOMAIN X[a.args[1].name]
      BY <1>11 DEF BitsCover
    <2>2. DOMAIN b = 1..Width(key) /\ Width(key) \in Nat
      BY <1>4, <1>12, <2>1
    <2> QED BY <2>2, LenProperties
  <1>14. ASSUME NEW j \in DOMAIN b, DecidedRow(key, j)
         PROVE  b[j] <=> Truth(expr, Row(key, j))
    <2>1. \A a \in Comparisons[Parse[expr]] : Clear(Class, X, a, j)
      BY <1>3, <1>12, <1>14 DEF DecidedRow, Clear
    <2>2. RowAt(X, j) = Row(key, j)
      BY <1>3 DEF RowAt, Row
    <2> QED BY <1>11, <2>1, <2>2 DEF BitsMean
  <1> QED BY <1>13, <1>14

\* A filter that returns has recorded, for every split of the view, a bitmap in
\* which every row the kernels decide is set exactly if it satisfies the
\* condition, and has counted the set rows.
THEOREM ReturnsWhatWasAsked == Spec => []ReturnsExact
  <1>1. IInv => ReturnsExact
    <2> SUFFICES ASSUME IInv, status = "ok", Constants = {},
                        Compared \cap {"rows", "s", "p", "vec"} = {}
                 PROVE  /\ DOMAIN bitmap = ToSet(Todo)
                        /\ \A key \in DOMAIN bitmap :
                             /\ Len(bitmap[key]) = Width(key)
                             /\ \A j \in DOMAIN bitmap[key] :
                                  DecidedRow(key, j) => (bitmap[key][j] <=> Truth(expr, Row(key, j)))
                        /\ frame["rows"] = Number(Cardinality(Marked(Len(Todo))))
      BY DEF ReturnsExact, Width
    <2>1. Shape /\ Recorded
      BY DEF IInv
    <2>2. DOMAIN Todo = 1..Len(Todo) /\ k - 1 = Len(Todo) /\ pc = "done"
      <3>1. chosen \in Lists /\ k = Len(Todo) + 1 /\ pc = "done"
        BY <2>1 DEF Shape
      <3>2. Len(Todo) \in Nat /\ DOMAIN Todo = 1..Len(Todo)
        BY <3>1, TodoType
      <3> QED BY <3>1, <3>2
    <2>3. /\ DOMAIN bitmap = {Todo[m] : m \in 1..k - 1}
          /\ \A key \in DOMAIN bitmap : IdealOf(key).is = "bits" /\ IdealOf(key).bits = bitmap[key]
          /\ frame["rows"] = Number(Cardinality(Marked(k - 1)))
      BY <2>1, <2>2 DEF Recorded
    <2>4. DOMAIN bitmap = ToSet(Todo)
      BY <2>2, <2>3 DEF ToSet
    <2>5. ASSUME NEW key \in DOMAIN bitmap
          PROVE  /\ Len(bitmap[key]) = Width(key)
                 /\ \A j \in DOMAIN bitmap[key] :
                      DecidedRow(key, j) => (bitmap[key][j] <=> Truth(expr, Row(key, j)))
      <3>1. bitmap[key] \in Seq(BOOLEAN)
        BY <2>1 DEF Shape
      <3> QED BY <2>3, <2>4, <3>1, BitmapRight
    <2> QED BY <2>2, <2>3, <2>4, <2>5
  <1> QED BY <1>1, Invariance, PTL

-----------------------------------------------------------------------------
(* When a filter fails.                                                     *)

\* The reasons FailsOnlyFor lists.
Reason ==
  LET t == Parse[expr]
  IN  \/ t = Error \/ Unfit[t]
      \/ chosen = <<>>
      \/ \E p \in ToSet(chosen) : Rows(p) = 0 \/ \E c \in Compared : <<p, c>> \in Lost
      \/ \E c \in Compared : Class[c] \notin VecClass
      \/ \E a \in Comparisons[t] :
           \/ a.args[1].is # "name"
           \/ a.args[2].is # "const"
           \/ /\ a.fn = "op_le"
              /\ Class[a.args[1].name] # "double" \/ a.args[1].name = "vec"
      \/ Compared \cap {"s", "p", "col", "cols", "parsed", ".v"} # {}

\* A step of the loops over partitions with rows and files has a file.
LEMMA VisitedHasFile ==
  ASSUME chosen \in Lists, NEW m \in 1..Len(Todo), NEW c \in Compared, ~Reason
  PROVE  Todo[m][2] >= 1 /\ HasFile(Todo[m][1], Todo[m][2], c)
  <1>1. /\ Todo[m][1] \in DOMAIN Data /\ Todo[m][1] \in ToSet(chosen)
        /\ Todo[m][2] \in ToSet(Colon(1, Splits(Todo[m][1])))
    BY TodoType
  <1>2. Rows(Todo[m][1]) # 0 /\ <<Todo[m][1], c>> \notin Lost
    BY <1>1 DEF Reason
  <1> DEFINE p == Todo[m][1]
             s == Todo[m][2]
  <1> HIDE DEF p, s
  <1>3. s \in 1..Splits(p) /\ FileRows(Rows(p), Rps, s - 1) > 0
    BY <1>1, <1>2, VisitedHasRows DEF p, s
  <1>4. s >= 1 /\ HasFile(p, s, c)
    BY <1>2, <1>3 DEF HasFile, p
  <1> QED BY <1>4 DEF p, s

\* Without a reason to fail the loaded frame is one the condition is apt for.
LEMMA LoadedApt ==
  ASSUME IInv, pc = "load", cols = <<>>, ~Reason
  PROVE  Apt(frame, Compared, Width(Todo[k]), Cond)
  <1> DEFINE key == Todo[k]
             n   == Width(key)
  <1>1. Shape /\ Placed
    BY DEF IInv
  <1>2. expr \in Expr /\ Compared \subseteq Col /\ NamesWithin(Cond, Compared)
    BY <1>1, ComparedType DEF NamesWithin, Compared, Cond
  <1>3. /\ key = <<key[1], key[2]>> /\ key[1] \in DOMAIN Data /\ key[2] \in Int
        /\ \A c \in Compared : key[2] >= 1 /\ HasFile(key[1], key[2], c)
    <2>1. k \in 1..Len(Todo) /\ chosen \in Lists
      BY <1>1, TodoType DEF Shape
    <2> QED BY <2>1, TodoType, VisitedHasFile
  <1>4. ToSet(<<>>) = {}
    BY DEF ToSet
  <1>5. Compared \cap {"s", "p", "col", "cols", "parsed", ".v"} = {}
    BY DEF Reason
  <1>6. \A c \in Compared : Class[c] \in VecClass
    BY DEF Reason
  <1>7. \A d \in Compared : LET x == Splitn(key[1], key[2], d) IN
          x.is = "vec" /\ x.class = Class[d] /\ x.class \in VecClass /\ DOMAIN x.cells = 1..n
    <2> SUFFICES ASSUME NEW d \in Compared, NEW x, x = Splitn(key[1], key[2], d)
                 PROVE  x.is = "vec" /\ x.class = Class[d] /\ x.class \in VecClass /\ DOMAIN x.cells = 1..n
      OBVIOUS
    <2>1. DOMAIN CellsOf(key[1], key[2], d) = 1..n
      BY <1>2, <1>3, SplitVector
    <2>2. x = Vec(Class[d], CellsOf(key[1], key[2], d))
      <3>1. Class[d] \in Mapped
        BY <1>6 DEF Mapped, VecClass
      <3>2. ~(key[2] < 1) /\ HasFile(key[1], key[2], d)
        <4> HIDE DEF key
        <4> QED BY <1>3
      <3> HIDE DEF key
      <3> QED BY <3>1, <3>2 DEF Splitn
    <2> QED BY <1>6, <2>1, <2>2 DEF Vec
  <1>8. ASSUME NEW c \in Compared
        PROVE  /\ c \in DOMAIN frame /\ frame[c].is = "vec" /\ frame[c].class \in VecClass
               /\ DOMAIN frame[c].cells = 1..n
               /\ c # "vec" => frame[c].class = Class[c]
    <2>1. c \in DOMAIN frame /\ Shown(c) /\ c # "col"
      BY <1>1, <1>4, <1>5 DEF Placed
    <2>2. CASE frame[c] = Splitn(key[1], key[2], c)
      BY <1>7, <2>1, <2>2
    <2>3. CASE c = "vec" /\ \E d \in Compared : frame[c] = Splitn(key[1], key[2], d)
      BY <1>7, <2>1, <2>3
    <2> QED BY <2>1, <2>2, <2>3 DEF Shown
  <1> HIDE DEF n
  <1>9. ASSUME NEW a \in Comparisons[Cond]
        PROVE  /\ a.args[1].is = "name" /\ a.args[2].is = "const"
               /\ a.fn = "op_le" /\ a.args[1].name \in Compared =>
                    frame[a.args[1].name].class = "double"
    <2>1. /\ a.args[1].is = "name" /\ a.args[2].is = "const"
          /\ ~(a.fn = "op_le" /\ (Class[a.args[1].name] # "double" \/ a.args[1].name = "vec"))
      BY <1>9 DEF Reason, Cond
    <2> QED BY <1>8, <2>1
  <1>10. ~Unfit[Cond]
    BY DEF Reason, Cond
  <1> QED BY <1>2, <1>8, <1>9, <1>10 DEF Apt, n

\* A split of a filter without a reason to fail is evaluated and recorded.
LEMMA EvalSplitFails == IInv /\ EvalSplit /\ status' = "error" => Reason
  <1> SUFFICES ASSUME IInv, EvalSplit, status' = "error", ~Reason PROVE FALSE
    OBVIOUS
  <1>1. Shape /\ Variables /\ Placed
    BY DEF IInv
  <1>2. pc = "load" /\ cols = <<>> /\ (MayBeRefused \/ ~Recordable)
    BY <1>1 DEF EvalSplit, Shape
  <1>3. Compared \cap {"s", "p", "col", "cols", "parsed", ".v"} = {}
    BY DEF Reason
  <1>4. ~MayBeRefused
    BY DEF MayBeRefused, Reason
  <1>5. Evaluated = Eval(frame, Cond)
    <2>1. frame["parsed"] = Tree(Cond)
      BY <1>1, <1>2, <1>3 DEF Variables
    <2> QED BY <2>1 DEF Evaluated, Tree
  <1>6. Evaluated.is = "bits"
    <2>1. expr \in Expr /\ Compared \in SUBSET Col
      BY <1>1, ComparedType
    <2>2. Apt(frame, Compared, Width(Todo[k]), Cond)
      BY <1>2, LoadedApt
    <2>3. Width(Todo[k]) \in Nat
      <3> DEFINE key == Todo[k]
                 c   == CHOOSE d \in Col : TRUE
      <3>1. k \in 1..Len(Todo) /\ chosen \in Lists
        BY <1>1, <1>2, TodoType DEF Shape
      <3>2. key = <<key[1], key[2]>> /\ key[1] \in DOMAIN Data /\ key[2] \in Int
        BY <3>1, TodoType
      <3>3. c \in Col
        BY FrameAssumption
      <3> HIDE DEF key, c
      <3>4. Width(key) \in Nat
        BY <3>2, <3>3, SplitVector
      <3> QED BY <3>4 DEF key
    <2> QED BY <1>5, <2>1, <2>2, <2>3, EvalBits DEF Cond
  <1>7. frame["p"].is = "string" /\ IsInt(frame["s"]) /\ frame[".v"] = View
    BY <1>1, <1>2, <1>3 DEF Placed, Variables, String, Number, IsInt
  <1>8. OneKey
    BY <1>7 DEF OneKey
  <1> QED BY <1>2, <1>4, <1>6, <1>7, <1>8 DEF Recordable

\* A filter whose condition names no partition key fails for no other reason
\* than those listed, also on a view of no partitions, on partitions with no rows
\* or lost files, and with columns of any class (filter_.sview).
THEOREM FailsForReasons == Spec => []FailsOnlyFor
  <1> DEFINE Blamed == status = "error" => Reason
  <1>1. Init => Blamed
    BY DEF Init
  <1>2. IInv /\ Blamed /\ [Next]_vars => Blamed'
    <2> SUFFICES ASSUME IInv, Blamed, [Next]_vars, status' = "error", status # "error" PROVE Reason'
      <3>1. UNCHANGED vars => Reason' = Reason
        BY DEF vars, Reason, Compared, Rows
      <3>2. IInv /\ status = "error" => ~Next
        <4>1. IInv /\ status = "error" => pc = "done"
          BY DEF IInv, Shape
        <4>2. Next => pc # "done"
          BY DEF Next, ParseFilter, NoPartitions, NextSplit, Load, EvalSplit, End
        <4> QED BY <4>1, <4>2
      <3>3. UNCHANGED vars => status' = status
        BY DEF vars
      <3> QED BY <3>1, <3>2, <3>3
    <2>1. Next
      BY DEF vars
    <2>2. expr' = expr /\ chosen' = chosen
      BY <2>1 DEF Next, ParseFilter, NoPartitions, NextSplit, Load, EvalSplit, End, Fail
    <2>3. Reason' = Reason
      BY <2>2 DEF Reason, Compared, Rows
    <2>4. Shape /\ Variables /\ Placed
      BY DEF IInv
    <2>5. CASE ParseFilter
      BY <2>3, <2>5 DEF ParseFilter, Reason
    <2>10. CASE NoPartitions
      BY <2>3, <2>10 DEF NoPartitions, Reason
    <2>6. CASE NextSplit
      <3>1. pc = "split" /\ frame["cols"].is # "names"
        BY <2>6 DEF NextSplit
      <3>2. "cols" \in Compared
        BY <2>4, <3>1 DEF Variables, Names
      <3> QED BY <2>3, <3>2 DEF Reason
    <2>7. CASE Load
      <3> DEFINE c == Head(cols)
                 f == Let(frame, "col", String(c))
                 x == Splitn(f["p"].string, Int1(f["s"]), c)
      <3>1. /\ pc = "load" /\ cols # <<>>
            /\ ~(f[".v"] = View /\ f["p"].is = "string" /\ IsInt(f["s"])) \/ x = Error
        BY <2>7 DEF Load
      <3>2. {".v", "p", "s"} \subseteq DOMAIN frame
        BY <2>4, <3>1 DEF Variables
      <3>3. f[".v"] = frame[".v"] /\ f["p"] = frame["p"] /\ f["s"] = frame["s"]
        BY <3>2 DEF Let
      <3> SUFFICES ASSUME ~Reason PROVE FALSE
        BY <2>3
      <3>4. /\ frame["p"] = String(Todo[k][1]) /\ frame["s"] = Number(Todo[k][2])
            /\ frame[".v"] = View
        BY <2>4, <3>1 DEF Variables, Placed, Reason
      <3> HIDE DEF f
      <3>5. x = Error
        BY <3>1, <3>3, <3>4 DEF String, Number, IsInt
      <3>6. x = Splitn(Todo[k][1], Todo[k][2], c)
        BY <3>3, <3>4 DEF String, Number, Int1
      <3>7. c \in Compared
        <4>1. cols \in Seq(Col) /\ ToSet(cols) \subseteq Compared
          BY <2>4, <3>1 DEF Shape
        <4>2. 1 \in DOMAIN cols /\ Head(cols) = cols[1]
          BY <3>1, <4>1, HeadTailProperties, LenProperties, EmptySeq
        <4> QED BY <4>1, <4>2 DEF ToSet
      <3>8. HasFile(Todo[k][1], Todo[k][2], c)
        <4>1. k \in 1..Len(Todo) /\ chosen \in Lists
          BY <2>4, <3>1, TodoType DEF Shape
        <4> HIDE DEF c
        <4> QED BY <3>7, <4>1, VisitedHasFile
      <3> HIDE DEF c, x
      <3> QED BY <3>5, <3>6, <3>8 DEF Splitn, Null, Error, Vec
    <2>8. CASE EvalSplit
      BY <2>3, <2>8, EvalSplitFails
    <2>9. ~End
      BY DEF End
    <2> QED BY <2>1, <2>5, <2>6, <2>7, <2>8, <2>9, <2>10 DEF Next
  <1>3. Blamed <=> FailsOnlyFor
    BY DEF FailsOnlyFor, Reason
  <1> HIDE DEF Blamed
  <1>4. Spec => []Blamed
    BY <1>1, <1>2, Invariance, PTL DEF Spec
  <1> QED BY <1>3, <1>4, PTL

=============================================================================
