----------------------------- MODULE FilterFrame -----------------------------
(***************************************************************************)
(* One call of filter, statement by statement.  The loop over the splits   *)
(* loads every column of the condition with assign(col, vec), that is into *)
(* a variable of filter's own frame named after the column, and evaluates  *)
(* the parsed condition in that frame.  So a column can take the place of  *)
(* one of filter's variables, and the other way round: frame holds both.   *)
(***************************************************************************)
EXTENDS FilterParse

CONSTANTS
  Class,     \* class of each column; "character" is a type splitn does not map
  Data,      \* cells of each partition and column
  Lost,      \* (partition, column) pairs whose files, or levels, are gone
  Lists,     \* the partitions a view may be on, in order
  Rps,       \* rows per split
  Filters    \* conditions a user may write

\* What split_vector maps a file as.
Mapped == {"integer", "double", "factor", "logical", "Date", "POSIXct"}

\* More rows than an int holds are SplitWalk's subject.
ASSUME FrameAssumption ==
  /\ Class \in [Col -> Mapped \cup {"character"}]
  /\ Filters \subseteq Expr
  /\ Rps \in Nat \ {0}
  /\ Col # {}
  /\ \A p \in DOMAIN Data : Data[p] \in [Col -> Seq(Cell)]
  /\ \A p \in DOMAIN Data, b, c \in Col :
       Len(Data[p][b]) = Len(Data[p][c]) /\ Len(Data[p][b]) =< IntMax
  /\ Lists \subseteq Seq(DOMAIN Data)

VARIABLES
  expr,      \* the condition
  chosen,    \* the partitions of the view
  pc,        \* the statement: "parse", "split", "load", "eval", "done"
  k,         \* position in the splits of the chosen partitions
  cols,      \* what is left of the loop over the columns
  frame,     \* the variables of filter
  bitmap,    \* .v$bitmap
  status     \* how the call ended: "none" while it runs

vars == <<expr, chosen, pc, k, cols, frame, bitmap, status>>

Rows(p) == Len(Data[p][CHOOSE c \in Col : TRUE])

\* (partition, split) pairs in the order of the two outer loops
Todo == FlattenSeq([i \in DOMAIN chosen |->
          LET splits == Colon(1, PartitionInfo(Rows(chosen[i]), Rps).splits)
          IN  [s \in DOMAIN splits |-> <<chosen[i], splits[s]>>]])

View       == [is |-> "view"]
Tree(t)    == [is |-> "tree", tree |-> t]
Names(n)   == [is |-> "names", names |-> n]
String(x)  == [is |-> "string", string |-> x]
Number(n)  == [is |-> "number", number |-> n]

\* Assignment to variables of the frame; later ones win.
Let(f, name, x) == [y \in DOMAIN f \cup {name} |-> IF y = name THEN x ELSE f[y]]

\* A frame variable taken as an int, or 0: a number, or a vector of one.
Int1(x) == CASE x.is = "number" -> x.number
             [] x.is = "vec" /\ Len(x.cells) = 1 -> Quot(AsInt(x.cells[1]), 2)
             [] OTHER -> 0

IsInt(x) == x.is = "number" \/ (x.is = "vec" /\ Len(x.cells) = 1)

\* The cells of split s of a column.
CellsOf(p, s, c) ==
  SubSeq(Data[p][c], (s - 1) * Rps + 1, (s - 1) * Rps + RowsInSplit(Rows(p), Rps, s - 1))

\* sdscreate has written a file for it, and it is still there.
HasFile(p, s, c) == <<p, c>> \notin Lost /\ FileRows(Rows(p), Rps, s - 1) > 0

\* ds$splitn(p, s, c).  Without a file the buffer is NULL, on which no class
\* can be set; there is no split below the first.
Splitn(p, s, c) ==
  IF Class[c] \notin Mapped \/ s < 1 THEN Null
  ELSE IF HasFile(p, s, c) THEN Vec(Class[c], CellsOf(p, s, c))
  ELSE IF Class[c] \in {"integer", "double"} THEN Null ELSE Error

Init ==
  /\ expr \in Filters /\ chosen \in Lists
  /\ pc = "parse" /\ k = 1 /\ cols = <<>>
  /\ frame = <<>> /\ bitmap = <<>>
  /\ status = "none"

Fail ==
  /\ status' = "error" /\ pc' = "done"
  /\ UNCHANGED <<expr, chosen, k, cols, frame, bitmap>>

\* parse_filter and columns_from_filter
ParseFilter ==
  /\ pc = "parse"
  /\ IF Parse[expr] = Error THEN Fail
     ELSE /\ frame' = Let(Let(Let(Let(frame, ".v", View), "parsed", Tree(Parse[expr])),
                             "cols", Names(NamesIn[Parse[expr]])), "rows", Number(0))
          /\ pc' = "split"
          /\ UNCHANGED <<expr, chosen, k, cols, bitmap, status>>

\* for (i in 1:nrow(.v$partitions)), when there are none
NoPartitions == pc = "split" /\ chosen = <<>> /\ Fail

\* The heads of the loops over partitions and splits: p, s, and the columns
\* the inner loop is to run over, numbers if cols is no longer the names.
NextSplit ==
  /\ pc = "split" /\ k =< Len(Todo)
  /\ LET s == Todo[k][2]
         f == IF s = 1 THEN Let(frame, "p", String(Todo[k][1])) ELSE frame
     IN  IF frame["cols"].is # "names" THEN Fail
         ELSE /\ frame' = Let(f, "s", Number(s))
              /\ cols' = frame["cols"].names
              /\ pc' = "load"
              /\ UNCHANGED <<expr, chosen, k, bitmap, status>>

\* col is the next name; vec <- splitn(p, s, col); assign(col, vec)
Load ==
  /\ pc = "load" /\ cols # <<>>
  /\ LET c == Head(cols)
         f == Let(frame, "col", String(c))
         x == Splitn(f["p"].string, Int1(f["s"]), c)
     IN  IF ~(f[".v"] = View /\ f["p"].is = "string" /\ IsInt(f["s"])) \/ x = Error THEN Fail
         ELSE /\ frame' = Let(Let(f, "vec", x), c, x)
              /\ cols' = Tail(cols)
              /\ UNCHANGED <<expr, chosen, pc, k, bitmap, status>>

\* b <- eval(parsed)
Evaluated ==
  IF frame["parsed"].is = "tree" THEN Eval(frame, frame["parsed"].tree) ELSE Error

\* k <- sdataframe_key(p, s): one key, unless p or s is a longer vector.
Key == <<IF frame["p"].is = "string" THEN frame["p"].string ELSE 0,
         Int1(frame["s"])>>
OneKey == frame["p"].is = "vec" => Len(frame["p"].cells) = 1

\* .v$bitmap[[k]] <- b
Recordable ==
  Evaluated.is = "bits" /\ OneKey /\ IsInt(frame["s"]) /\ frame[".v"] = View

Set(bits)      == {j \in DOMAIN bits : bits[j]}
Popcount(bits) == Cardinality(Set(bits))

\* rows + .v$klen[[k]]: elementwise when rows is a vector, nothing when it is
\* NULL.
Plus(x, n) ==
  CASE x.is = "number" -> Number(x.number + n)
    [] x.is = "vec"    -> Vec(x.class, [j \in DOMAIN x.cells |-> x.cells[j] + 2 * n])
    [] OTHER           -> Vec("integer", <<>>)

\* A vector that is not a mapped column may be misaligned for the kernels.
MayBeRefused == \E t \in Comparisons[Parse[expr]] : t.args[1].is = "const"

EvalSplit ==
  /\ pc = "load" /\ cols = <<>>
  /\ \/ /\ Recordable
        /\ bitmap' = Let(bitmap, Key, Evaluated.bits)
        /\ frame' = Let(Let(Let(frame, "b", Evaluated), "k", String(Key)),
                        "rows", Plus(frame["rows"], Popcount(Evaluated.bits)))
        /\ k' = k + 1 /\ pc' = "split"
        /\ UNCHANGED <<expr, chosen, cols, status>>
     \/ (MayBeRefused \/ ~Recordable) /\ Fail

\* .v$rows <- rows
End ==
  /\ pc = "split" /\ chosen # <<>> /\ k > Len(Todo)
  /\ status' = "ok" /\ pc' = "done"
  /\ UNCHANGED <<expr, chosen, k, cols, frame, bitmap>>

Next == ParseFilter \/ NoPartitions \/ NextSplit \/ Load \/ EvalSplit \/ End

Spec == Init /\ [][Next]_vars

-----------------------------------------------------------------------------
(* Properties *)

TypeOK ==
  /\ expr \in Filters /\ chosen \in Lists
  /\ pc \in {"parse", "split", "load", "done"}
  /\ k \in 1..Len(Todo) + 1
  /\ ToSet(cols) \subseteq Col
  /\ \A key \in DOMAIN bitmap : bitmap[key] \in Seq(BOOLEAN)
  /\ status \in {"none", "ok", "error"}

Compared == ToSet(NamesIn[Parse[expr]])

\* The comparisons that compare no column.
Constants == {t \in Comparisons[Parse[expr]] : t.args[1].is = "const"}

\* Row j of a split, as a function from columns to cells.
Row(key, j) == [c \in Col |-> CellsOf(key[1], key[2], c)[j]]

DecidedRow(key, j) ==
  \A t \in Comparisons[Parse[expr]] :
    LET c == t.args[1].name
        x == CellsOf(key[1], key[2], c)
    IN  Decided(Class[c], Len(x), j, x[j], t.args[2].value)

\* The rows marked in the first n splits of the loop.
Marked(n) == UNION {{m} \X Set(bitmap[Todo[m]]) : m \in 1..n}

\* A filter that returns has one bitmap of the right length for every split,
\* in which every decided row is set exactly if it satisfies the condition as
\* it was written, and has counted the rows: unless it compares constants
\* only, or a column that is called rows, s, p or vec.  Names like cols, col,
\* parsed and .v never give a wrong answer, at worst none.
ReturnsExact ==
  status = "ok" /\ Constants = {} /\ Compared \cap {"rows", "s", "p", "vec"} = {} =>
    /\ DOMAIN bitmap = ToSet(Todo)
    /\ \A key \in DOMAIN bitmap :
         /\ Len(bitmap[key]) = Len(CellsOf(key[1], key[2], CHOOSE c \in Col : TRUE))
         /\ \A j \in DOMAIN bitmap[key] :
              DecidedRow(key, j) => (bitmap[key][j] <=> Truth(expr, Row(key, j)))
    /\ frame["rows"] = Number(Cardinality(Marked(Len(Todo))))

\* The reasons for which a filter fails, partition keys aside: an operator or
\* a name the parser does not know, a parenthesis, a condition or an operand of
\* & and | that compares nothing; a view on no partition, or on one that has no
\* rows or has lost a file; a column on both sides, a comparison of constants,
\* a column op_* has no method for, like a date, <= on anything but doubles as
\* it is after parsing, or on a column called vec, which may hold ints by then;
\* or a column called s, p, col, cols, parsed or .v.
FailsOnlyFor ==
  status = "error" =>
    LET t == Parse[expr]
    IN  \/ t = Error \/ Unfit[t]
        \/ chosen = <<>>
        \/ \E p \in ToSet(chosen) : Rows(p) = 0 \/ \E c \in Compared : <<p, c>> \in Lost
        \/ \E c \in Compared : Class[c] \notin VecClass
        \/ \E a \in Comparisons[t] :
             \/ a.args[1].is # "name"
             \/ a.args[2].is # "const"
             \/ /\ a.fn = "op_le"
                /\ Class[a.args[1].name] # "double" \/ a.args[1].name = "vec"
        \/ Compared \cap {"s", "p", "col", "cols", "parsed", ".v"} # {}

=============================================================================
