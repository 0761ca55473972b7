------------------------------ MODULE MCDataframe ------------------------------
(* Schemas with two keys and every kind of column, separators of one and of *)
(* two characters, and schemas whose ncols does not fit their columns.      *)
EXTENDS Dataframe

Column(name, type, attributes) == [colname |-> name, coltype |-> type, attributes |-> attributes]

MCColumns ==
  <<Column("Note", "character", ""), Column("Year", "int32", "pkey"), Column("Dist", "int32", ""),
    Column("Month", "int32", "pkey0p2"), Column("Dest", "factor", "")>>

Cut(n) == SubSeq(MCColumns, 1, n)

\* A key that is a factor, a column twice, a factor with no levels.
Other ==
  <<Column("Dist", "int32", ""), Column("Species", "factor", "pkey"), Column("Day", "date", ""),
    Column("Dist", "double", ""), Column("Year", "int32", "pkey")>>

File(n, cols, sep) == [ncols |-> n, columns |-> cols, separator |-> sep]

MCSchemas ==
  {File(5, MCColumns, <<"-">>), File(5, MCColumns, <<"-", "_">>), File(5, Other, <<"-">>),
   File(3, <<Column("Dist", "int32", ""), Column("Code", "factor", ""), Column("Lost", "int32", "")>>, <<":">>),
   File(4, <<Column("Lost", "int32", ""), Column("Dist", "int32", ""), Column("Gone", "date", "")>>, <<"-">>),
   File(4, Cut(3), <<"-">>), File(2, Cut(3), <<"-">>), File(-1, Cut(3), <<"-">>), File(0, <<>>, <<"-">>)}

\* Values with a separator or a colon in them, empty ones, one that is no
\* number; no rows, a partial split, a full one and one more row.
Partition(values, rows) == [values |-> values, rows |-> rows]

MCPartitions ==
  {Partition(<< <<"08">>, <<"1">> >>, 3), Partition(<< <<"08">>, <<"x">> >>, 2),
   Partition(<< <<"a", "-", "1">>, <<"08">> >>, 1), Partition(<< <<>>, <<"1">> >>, 0),
   Partition(<< <<"x", "_">>, <<"08">> >>, 2), Partition(<< <<"08", ":", "1">> >>, 2),
   Partition(<< <<"1">> >>, 3)}

MCSymbol    == {"08", "1", "a", "x", "-", "_", ":"}
MCNumberOf  == "08" :> 8 @@ "1" :> 1
MCStrangers == {""}
MCLost      == {"Lost", "Gone"}
MCNoLevels  == {"Code"}
MCAsked     == {0, 1, 2, 6}
=============================================================================
