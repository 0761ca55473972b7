------------------------------- MODULE Dataframe -------------------------------
(***************************************************************************)
(* One SDataframe: what the constructor makes of a schema, looking up      *)
(* names, and asking for a split of a column by index, by name, by "p:s",  *)
(* or for all columns of it.  The two maps of names are std::map, which    *)
(* operator[] fills with whatever is looked up.                            *)
(*                                                                         *)
(* The name of a partition and the separator are sequences of symbols; a   *)
(* symbol is one character, or a run of characters that no tokenizer here  *)
(* takes apart.  A result says where the cells of a vector are from.       *)
(***************************************************************************)
EXTENDS SplitGeometry, SequencesExt, FiniteSets

CONSTANTS
  Symbol,      \* symbols that names of partitions are made of
  Schemas,     \* schema files: [ncols, columns, separator]
  Partitions,  \* [values of the keys, rows]
  Strangers,   \* names of columns no schema has
  Lost,        \* columns whose files are missing
  NoLevels,    \* factors whose file of levels is missing
  Rps,         \* rows per split
  NumberOf,    \* symbols that are numbers, with the int they stand for
  Asked        \* split numbers and column indexes that are asked for

VectorType == {"int32", "double", "logical", "factor", "date", "datetime"}
PKey       == {"pkey", "pkey0p2"}

\* NA_integer_ is the least int.
NA == -IntMax - 1

ASSUME DataframeAssumption ==
  /\ \A f \in Schemas :
       /\ f.ncols \in Int
       /\ f.columns \in Seq([colname : STRING, coltype : STRING, attributes : STRING])
       /\ f.separator \in Seq(Symbol) \ {<<>>}
  /\ \A p \in Partitions : p.values \in Seq(Seq(Symbol)) /\ p.rows \in Nat
  /\ Rps \in Nat \ {0}
  /\ NumberOf \in [DOMAIN NumberOf -> Int \ {NA}] /\ DOMAIN NumberOf \subseteq Symbol
  /\ ":" \in Symbol \ DOMAIN NumberOf
  /\ Asked \subseteq Int \ {NA}

\* The values of the keys with the separator between them.
Join(values, separator) ==
  LET join[k \in 0..Len(values)] ==
        IF k = 0 THEN <<>>
        ELSE IF k = 1 THEN values[1]
        ELSE join[k - 1] \o separator \o values[k]
  IN  join[Len(values)]

\* Partitions are directories of a dataset: no two of them have one name.
ASSUME OneDirectory ==
  \A f \in Schemas : \A p, q \in Partitions :
    Len(p.values) = Len(q.values) /\ Join(p.values, f.separator) = Join(q.values, f.separator) => p = q

VARIABLES
  schema,        \* the schema file
  status,        \* "new", "open", "error" or "undefined"
  columns,       \* columns_
  colnameindex,  \* colnameindex_
  keyindex,      \* keyindex_
  reply          \* the last call and its result

vars == <<schema, status, columns, colnameindex, keyindex, reply>>

Null      == [is |-> "null"]
Error     == [is |-> "error"]
Undefined == [is |-> "undefined"]
Got(x)    == [is |-> "value", value |-> x]
NoReply   == [call |-> [op |-> "none"], res |-> Null]

Init ==
  /\ schema \in Schemas
  /\ status = "new"
  /\ columns = <<>> /\ colnameindex = <<>> /\ keyindex = <<>>
  /\ reply = NoReply

-----------------------------------------------------------------------------
(* The constructor.                                                         *)

\* SdsColumndef(): what resize puts where the schema has no entry.
NoColumn == [colname |-> "", coltype |-> "", attributes |-> ""]

IsKeyColumn(col) == col.attributes \in PKey

\* Mutant: one column too far.
OffsetNext(i) == i + 1

\* ++offset at the i-th column
Offset(i) == i

\* Mutant: keys are counted with the other columns.
KeyOffsetOfAll(cols, i) == i

\* ++keyOffset at the i-th column
KeyOffset(cols, i) == Cardinality({j \in 1..i : IsKeyColumn(cols[j])})

\* map[name] = ... for each of some columns in order: the last one stays.
LastOf(cols, ids, name) == Max({i \in ids : cols[i].colname = name})
NamesOf(cols, ids)    == {cols[i].colname : i \in ids}

Construct(cols) ==
  LET all  == DOMAIN cols
      keys == {i \in all : IsKeyColumn(cols[i])}
  IN  /\ columns' = cols
      /\ colnameindex' = [n \in NamesOf(cols, all) |-> Offset(LastOf(cols, all, n))]
      /\ keyindex' = [n \in NamesOf(cols, keys) |-> KeyOffset(cols, LastOf(cols, keys, n))]

\* A negative ncols is too large for resize; more entries than ncols are
\* written past the end of the vector.
Open ==
  /\ status = "new"
  /\ IF schema.ncols < 0 \/ schema.ncols < Len(schema.columns)
     THEN /\ status' = IF schema.ncols < 0 THEN "error" ELSE "undefined"
          /\ UNCHANGED <<columns, colnameindex, keyindex>>
     ELSE /\ status' = "open"
          /\ Construct([i \in 1..schema.ncols |->
               IF i \in DOMAIN schema.columns THEN schema.columns[i] ELSE NoColumn])
  /\ UNCHANGED <<schema, reply>>

-----------------------------------------------------------------------------
(* Names and keys.                                                          *)

\* operator[]: a name that is not there is inserted, with index 0.
Looked(map, name) ==
  [n \in DOMAIN map \cup {name} |-> IF n \in DOMAIN map THEN map[n] ELSE 0]

\* One more symbol at the end of the last piece.
Longer(pieces, x) == [pieces EXCEPT ![Len(pieces)] = Append(@, x)]

\* strsplit: a text cut at the symbols of a set.
Pieces(text, cuts) ==
  LET pieces[i \in 0..Len(text)] ==
        IF i = 0 THEN << <<>> >>
        ELSE IF text[i] \in cuts THEN Append(pieces[i - 1], <<>>)
        ELSE Longer(pieces[i - 1], text[i])
  IN  pieces[Len(text)]

\* Mutant: boost::keep_empty_tokens.
TokensWithEmpty(text) == Pieces(text, ToSet(schema.separator))

\* boost::char_separator: every character of the separator separates, and
\* a token starts at the first symbol that does not.
Tokens(text) ==
  LET cuts == ToSet(schema.separator)
      tokens[i \in 0..Len(text)] ==
        IF i = 0 THEN <<>>
        ELSE IF text[i] \in cuts THEN tokens[i - 1]
        ELSE IF i > 1 /\ text[i - 1] \notin cuts THEN Longer(tokens[i - 1], text[i])
        ELSE Append(tokens[i - 1], <<text[i]>>)
  IN  tokens[Len(text)]

\* The directory of a partition, as sdscreate names it.
Text(p) == Join(p.values, schema.separator)

\* columnValueFromPartitionKey(key, col), the map being as looked up.
ColumnValue(map, key, name) ==
  LET index == map[name]
  IN  IF index \in DOMAIN Tokens(key) THEN Tokens(key)[index] ELSE <<>>

-----------------------------------------------------------------------------
(* A split of a column; s is zero-based from here.                          *)

Rows(p, s) == RowsInSplit(p.rows, Rps, s)

\* std::stoi throws on a text that does not start with a number.
KeyColumn(p, s, col) ==
  LET value == ColumnValue(keyindex, Text(p), col.colname)
  IN  CASE col.coltype # "int32" -> Null
        [] col.coltype = "int32" /\ value # <<>> /\ value[1] \in DOMAIN NumberOf ->
             [is |-> "key", value |-> NumberOf[value[1]], len |-> Rows(p, s)]
        [] OTHER -> Error

HasFile(p, s, col) ==
  col.colname \notin Lost /\ FileRows(p.rows, Rps, s) > 0

\* SdsPartitionCols::split.  Without a file the buffer is NULL: that is what
\* a bare column returns, and what no class can be set on.
ColumnSplit(p, s, col) ==
  CASE IsKeyColumn(col) -> KeyColumn(p, s, col)
    [] ~IsKeyColumn(col) /\ col.coltype \notin VectorType -> Null
    [] ~IsKeyColumn(col) /\ col.coltype \in VectorType ->
         IF HasFile(p, s, col) /\ ~(col.coltype = "factor" /\ col.colname \in NoLevels)
         THEN [is |-> "mapped", file |-> <<p, col.colname, s>>, class |-> col.coltype,
               len |-> Rows(p, s)]
         ELSE IF col.coltype \in {"int32", "double"} THEN Null ELSE Error

\* The partitions of this dataset: as many values as keys, and one at least.
Keys == Cardinality({i \in DOMAIN schema.columns : IsKeyColumn(schema.columns[i])})
Mine == {p \in Partitions : Len(p.values) = Max({1, Keys})}

\* A partition that is in no dataset.
NoPartition == [values |-> <<>>, rows |-> 0]

\* Mutant: the number R gave.
DownBy0(n) == n

\* "R is 1 based"
Down(n) == n - 1

\* SDataframe::split: opens the partition first, and has no upper bounds.  There
\* is no int below NA.
SplitAt(p, s, column) ==
  IF p \notin Mine THEN Error
  ELSE IF NA \in {s, column} THEN Undefined
  ELSE IF Down(column) < 0 \/ Down(s) < 0 THEN Null
  ELSE IF Down(column) >= Len(columns) THEN Undefined
  ELSE ColumnSplit(p, Down(s), columns[Down(column) + 1])

-----------------------------------------------------------------------------
(* The calls.                                                               *)

\* A call can be made: R code has taken the result of the one before.
Ready == status = "open" /\ reply = NoReply

Take ==
  /\ reply # NoReply
  /\ reply' = NoReply
  /\ UNCHANGED <<schema, status, columns, colnameindex, keyindex>>

Answer(call, res) ==
  /\ reply' = [call |-> call, res |-> res]
  /\ status' = IF res = Undefined THEN "undefined" ELSE status
  /\ UNCHANGED <<schema, columns>>

ColIndex(name) ==
  /\ Ready
  /\ colnameindex' = Looked(colnameindex, name)
  /\ Answer([op |-> "col_index", name |-> name], Got(colnameindex'[name]))
  /\ UNCHANGED keyindex

KeyIndex(name) ==
  /\ Ready
  /\ keyindex' = Looked(keyindex, name)
  /\ Answer([op |-> "key_index", name |-> name], Got(keyindex'[name]))
  /\ UNCHANGED colnameindex

\* partitions_column_value(key, name)
PartitionsColumnValue(p, name) ==
  /\ Ready
  /\ keyindex' = Looked(keyindex, name)
  /\ Answer([op |-> "value", p |-> p, name |-> name],
            Got(ColumnValue(keyindex', Text(p), name)))
  /\ UNCHANGED colnameindex

Split(p, s, column) ==
  /\ Ready
  /\ Answer([op |-> "split", p |-> p, s |-> s, column |-> column], SplitAt(p, s, column))
  /\ UNCHANGED <<colnameindex, keyindex>>

\* splitn: an unknown column is NULL before the partition is opened.
Splitn(asked, p, s, name) ==
  /\ Ready
  /\ colnameindex' = Looked(colnameindex, name)
  /\ Answer(asked, IF colnameindex'[name] > 0 THEN SplitAt(p, s, colnameindex'[name]) ELSE Null)
  /\ UNCHANGED keyindex

SplitByName(p, s, name) == Splitn([op |-> "splitn", p |-> p, s |-> s, name |-> name], p, s, name)

\* x["p:s", name], with the text of sdataframe_key: the parts before and after
\* the first colon.  A second part that is no number becomes NA.
Bracket(p, t, name) ==
  LET parts == Pieces(Text(p) \o <<":", t>>, {":"})
      named == {q \in Mine : Text(q) = parts[1]}
  IN  Splitn([op |-> "[", p |-> p, s |-> NumberOf[t], name |-> name],
             IF named = {} THEN NoPartition ELSE CHOOSE q \in named : TRUE,
             IF Len(parts[2]) = 1 /\ parts[2][1] \in DOMAIN NumberOf
             THEN NumberOf[parts[2][1]] ELSE NA,
             name)

\* names(df)[o] <- name
Named(names, o, name) == [i \in DOMAIN names \cup {o} |-> IF i = o THEN name ELSE names[i]]

\* Mutant: o is advanced for the columns that are left out, too.
AddColumnAlways(df, name, v) ==
  [vectors |-> IF v = Null THEN df.vectors ELSE Append(df.vectors, v),
   names |-> IF v = Null THEN df.names ELSE Named(df.names, df.o, name),
   o |-> df.o + 1]

\* cbind(df, v) and the name of the column, for a vector that is not NULL
AddColumn(df, name, v) ==
  IF v = Null THEN df
  ELSE [vectors |-> Append(df.vectors, v), names |-> Named(df.names, df.o, name), o |-> df.o + 1]

\* as_data_frame_split: for (i in 1:ncol), which is 1, 0 without columns.
AsDataFrameSplit(p, s) ==
  /\ Ready
  /\ LET vs == {SplitAt(p, s, i) : i \in ToSet(Colon(1, Len(columns)))}
         df[i \in 0..Len(columns)] ==
           IF i = 0 THEN [vectors |-> <<>>, names |-> <<>>, o |-> 1]
           ELSE AddColumn(df[i - 1], columns[i].colname, SplitAt(p, s, i))
         all == df[Len(columns)]
     IN  Answer([op |-> "frame", p |-> p, s |-> s],
                IF Undefined \in vs THEN Undefined
                ELSE IF Error \in vs THEN Error
                ELSE [is |-> "frame", vectors |-> all.vectors, names |-> all.names])
  /\ UNCHANGED <<colnameindex, keyindex>>

Called == {schema.columns[i].colname : i \in DOMAIN schema.columns} \cup Strangers

Next ==
  \/ Open \/ Take
  \/ \E name \in Called : ColIndex(name) \/ KeyIndex(name)
  \/ \E p \in Mine, name \in Called : PartitionsColumnValue(p, name)
  \/ \E p \in Mine \cup {NoPartition}, s \in Asked :
       \/ \E column \in Asked : Split(p, s, column)
       \/ \E name \in Called : SplitByName(p, s, name)
       \/ AsDataFrameSplit(p, s)
  \/ \E p \in Mine, t \in DOMAIN NumberOf, name \in Called : Bracket(p, t, name)

Spec == Init /\ [][Next]_vars

-----------------------------------------------------------------------------
(* Properties *)

TypeOK ==
  /\ schema \in Schemas
  /\ status \in {"new", "open", "error", "undefined"}
  /\ \A n \in DOMAIN colnameindex : colnameindex[n] \in 0..Len(columns)
  /\ \A n \in DOMAIN keyindex : keyindex[n] \in 0..Len(columns)

KeyColumns == {i \in DOMAIN columns : IsKeyColumn(columns[i])}

\* The place among the keys of the last key column of a name.
KeyRank(name) == Cardinality({j \in KeyColumns : j =< LastOf(columns, KeyColumns, name)})

\* Whatever has been looked up before, known and unknown names in any order,
\* a name still finds the last column of that name and the place of that key
\* among the keys, and a name that is no column finds nothing.
IndexExact ==
  status = "open" =>
    /\ \A i \in DOMAIN columns :
         /\ columns[i].colname \in DOMAIN colnameindex
         /\ colnameindex[columns[i].colname] >= i
    /\ \A n \in DOMAIN colnameindex :
         colnameindex[n] # 0 => columns[colnameindex[n]].colname = n
    /\ \A n \in NamesOf(columns, KeyColumns) :
         n \in DOMAIN keyindex /\ keyindex[n] = KeyRank(n)
    /\ \A n \in DOMAIN keyindex : keyindex[n] # 0 => n \in NamesOf(columns, KeyColumns)

\* A value that the tokenizer leaves whole.
Plain(value) == value # <<>> /\ ToSet(value) \cap ToSet(schema.separator) = {}

\* The value of the k-th key column is the k-th value the name of the partition
\* was made from, as long as no value of it is empty or has a character of the
\* separator in it, be the separator one character or several.
KeyValueExact ==
  LET call == reply.call
  IN  call.op = "value" /\ (\A value \in Range(call.p.values) : Plain(value)) =>
        reply.res.value = IF call.name \in NamesOf(columns, KeyColumns)
                          THEN call.p.values[KeyRank(call.name)] ELSE <<>>

\* The rows of a (one-based) split of a partition.
RowsOf(p, s) == IF s < 1 THEN 0 ELSE FileRows(p.rows, Rps, s - 1)

\* A vector has the rows of its split, if the rows of the partition fit an int.
FullLength(v, p, s) == p.rows =< IntMax => v.len = RowsOf(p, s)

\* What a split of a column is when it is a vector: the column's own file, or
\* the value of the key.
IsMapped(v, col, p, s) ==
  v.file = <<p, col.colname, s - 1>> /\ v.class = col.coltype /\ FullLength(v, p, s)

IsKeyVector(v, col, p, s) ==
  /\ FullLength(v, p, s)
  /\ col.coltype = "int32" /\ IsKeyColumn(col)
  /\ (\A value \in Range(p.values) : Plain(value)) =>
       v.value = NumberOf[p.values[KeyRank(col.colname)][1]]

\* Why a column may be NULL or an error: its type has no vectors, there is no
\* such partition or split, its file or its levels are missing, or its key
\* value is not a number.
MayBeMissing(col, p, s) ==
  \/ col.coltype \notin VectorType
  \/ p = NoPartition \/ RowsOf(p, s) = 0
  \/ col.colname \in Lost \cup NoLevels
  \/ /\ IsKeyColumn(col)
     /\ \/ col.coltype # "int32"
        \/ \E value \in Range(p.values) : ~Plain(value) \/ value[1] \notin DOMAIN NumberOf

\* v is what a split of a column should be, or missing for a reason.
IsTheirs(v, col, p, s) ==
  \/ v.is = "mapped" /\ IsMapped(v, col, p, s)
  \/ v.is = "key" /\ IsKeyVector(v, col, p, s)
  \/ v.is \in {"null", "error"} /\ MayBeMissing(col, p, s)

\* A column that is asked for by index, by name, or as x["p:s", name] with a
\* partition that has no colon, is that column of that partition and split,
\* with all rows of the split: or it is NULL or an error, and that only for the
\* reasons above or if there is no such column.  It is never undefined, unless
\* the index is past the last column.
VectorsAreTheirs ==
  LET call == reply.call
      v    == reply.res
      ids  == DOMAIN columns
  IN  /\ call.op \in {"splitn", "["} /\ (call.op = "[" => ":" \notin ToSet(Text(call.p))) =>
           IF call.name \in NamesOf(columns, ids)
           THEN IsTheirs(v, columns[LastOf(columns, ids, call.name)], call.p, call.s)
           ELSE v.is \in {"null", "error"}
      /\ call.op = "split" /\ call.column =< Len(columns) =>
           IF call.column \in ids
           THEN IsTheirs(v, columns[call.column], call.p, call.s)
           ELSE v.is \in {"null", "error"}

\* A column that can be read.
Readable(col, p, s) ==
  /\ s >= 1 /\ col.coltype \in VectorType
  /\ IF IsKeyColumn(col) THEN col.coltype = "int32"
     ELSE col.colname \notin Lost /\ RowsOf(p, s) > 0

\* The data frame of a split has the columns that can be read, in their order:
\* a vector stands under the name of its own column also after columns that
\* are left out.
FrameAligned ==
  LET call == reply.call
      df   == reply.res
      read == {i \in DOMAIN columns : Readable(columns[i], call.p, call.s)}
      place(i) == Cardinality({k \in read : k =< i})
  IN  call.op = "frame" /\ df.is = "frame" =>
        /\ DOMAIN df.vectors = 1..Cardinality(read)
        /\ DOMAIN df.names = DOMAIN df.vectors
        /\ \A i \in read :
             /\ df.names[place(i)] = columns[i].colname
             /\ LET v == df.vectors[place(i)]
                IN  IF IsKeyColumn(columns[i])
                    THEN v.is = "key" /\ IsKeyVector(v, columns[i], call.p, call.s)
                    ELSE v.is = "mapped" /\ IsMapped(v, columns[i], call.p, call.s)

=============================================================================
