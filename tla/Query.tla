-------------------------------- MODULE Query --------------------------------
(***************************************************************************)
(* What a view promises its user, with no splits, bitmaps or cursors: a    *)
(* query is on a list of partitions, a filter picks rows of them, and      *)
(* collect answers with the cells of the rows that are picked.             *)
(***************************************************************************)
EXTENDS FiniteSets, SequencesExt

CONSTANTS
  Col,              \* names of the columns
  Lists,            \* lists of partitions a user may name
  Conditions,       \* conditions a user may write
  Tables,           \* contents: the cells of each partition and column
  Truth(_, _),      \* Truth(condition, row)
  Sure(_, _, _),    \* Sure(condition, table of a partition, row number): the
                    \* condition is decided for the row, not left open
  Delivered(_)      \* columns whose cells are delivered

VARIABLES
  table,     \* the cells of each partition and column
  on,        \* the list of partitions the query is on
  columns,   \* the columns asked for
  picked,    \* what the last filter that returned has picked
  answer     \* how the last operation ended, and what a collect returned

vars == <<table, on, columns, picked, answer>>

Ok     == [status |-> "ok"]
Failed == [status |-> "error"]

Nothing == [on |-> <<>>, rows |-> <<>>, nrow |-> 0]

\* The rows of a partition.
RowsOf(p)  == DOMAIN table[p][CHOOSE c \in Col : TRUE]
Row(p, j) == [c \in Col |-> table[p][c][j]]

Init ==
  /\ table \in Tables
  /\ on = <<>> /\ columns = Col
  /\ picked = Nothing
  /\ answer = Ok

\* s is the list in order.
InOrder(s, list) ==
  /\ DOMAIN s = DOMAIN list
  /\ \A i, j \in DOMAIN s : i < j => s[i] =< s[j]
  /\ \A p \in ToSet(list) :
       Cardinality({i \in DOMAIN s : s[i] = p}) = Cardinality({i \in DOMAIN list : list[i] = p})

\* The partitions of a list, or those from first to last, in their order.
Choose(list) ==
  /\ ToSet(list) \subseteq DOMAIN table
  /\ InOrder(on', list)
  /\ answer' = Ok
  /\ UNCHANGED <<table, columns, picked>>

ChooseRange(first, last) ==
  Choose(SetToSeq({p \in DOMAIN table : first =< p /\ p =< last}))

Project ==
  /\ columns' \subseteq Col
  /\ answer' = Ok
  /\ UNCHANGED <<table, on, picked>>

\* For the i-th partition of the list: rows of it, the sure ones exactly
\* those that satisfy the condition.
Picks(cond, p, rows) ==
  /\ rows \subseteq RowsOf(p)
  /\ \A j \in RowsOf(p) : Sure(cond, table[p], j) => (j \in rows <=> Truth(cond, Row(p, j)))

\* Every row of a pick, as its partition's place in the list and its number.
Rows(pick) == UNION {{i} \X pick.rows[i] : i \in DOMAIN pick.on}

Filter(cond) ==
  /\ picked'.on = on
  /\ DOMAIN picked'.rows = DOMAIN on
  /\ \A i \in DOMAIN on : Picks(cond, on[i], picked'.rows[i])
  /\ picked'.nrow = Cardinality(Rows(picked'))
  /\ answer' = Ok
  /\ UNCHANGED <<table, on, columns>>

\* The place of a picked row: how many there are up to it.
Place(row) ==
  Cardinality({r \in Rows(picked) : r[1] < row[1] \/ (r[1] = row[1] /\ r[2] =< row[2])})

\* cells are the picked cells of a column, in the order of the table.
Delivers(cells, c) ==
  /\ DOMAIN cells = 1..picked.nrow
  /\ \A row \in Rows(picked) : cells[Place(row)] = table[picked.on[row[1]]][c][row[2]]

\* Only a query that is still on the partitions it was filtered on has an
\* answer that means anything.
Collect ==
  /\ "res" \in DOMAIN answer' /\ DOMAIN answer'.res = columns
  /\ on = picked.on => \A c \in columns : Delivered(c) => Delivers(answer'.res[c], c)
  /\ UNCHANGED <<table, on, columns, picked>>

\* Every operation may fail, and then has changed nothing.
Fail ==
  /\ answer' = Failed
  /\ UNCHANGED <<table, on, columns, picked>>

Next ==
  \/ \E list \in Lists : Choose(list)
  \/ \E p, q \in DOMAIN table : ChooseRange(p, q)
  \/ Project \/ Collect \/ Fail
  \/ \E cond \in Conditions : Filter(cond)

Spec == Init /\ [][Next]_vars

=============================================================================
