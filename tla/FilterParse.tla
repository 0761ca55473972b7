----------------------------- MODULE FilterParse -----------------------------
(***************************************************************************)
(* The conditions of filter: parse_filter rewrites the R expression of a   *)
(* condition into a call of the op_* and sindex_* functions, which is then *)
(* evaluated on every split.  An expression is a tree of names, constants  *)
(* and calls, before and after parsing; parsing and evaluating are         *)
(* functions on trees.                                                     *)
(*                                                                         *)
(* A number is its place in the order in steps of one half, so an int is   *)
(* even and a fraction lies between two ints.                              *)
(***************************************************************************)
EXTENDS VectorOps, SplitGeometry, SequencesExt, FiniteSets

CONSTANTS
  Col,     \* names of the columns
  Env,     \* the user's variables, and the number each is bound to
  Expr,    \* expressions, each with its subexpressions
  Height   \* how deep an expression is nested

ASSUME EnvAssumption == Env \in [DOMAIN Env -> Cell]

\* Expressions are finite trees; & and | are infix and have two operands.
ASSUME ExprAssumption ==
  /\ Height \in [Expr -> Nat]
  /\ \A e \in Expr :
       /\ e.is = "const" => e.value \in Cell
       /\ e.is = "call" =>
            /\ e.args \in Seq(Expr)
            /\ \A i \in DOMAIN e.args : Height[e.args[i]] < Height[e]
            /\ e.fn \in {"&", "|"} => Len(e.args) = 2

Error == [is |-> "error"]    \* R's stop(): as a tree and as a value
Null  == [is |-> "null"]

Const(x)       == [is |-> "const", value |-> x]
CallOf(f, args) ==
  IF Error \in ToSet(args) THEN Error ELSE [is |-> "call", fn |-> f, args |-> args]

-----------------------------------------------------------------------------
(* Parsing.                                                                *)

\* parse_logical; the result of the switch for "(" is a string.
Logical == [op \in {"&", "|", "("} |->
  CASE op = "&" -> "sindex_and" [] op = "|" -> "sindex_or" [] op = "(" -> "(string)"]

\* parse_operator, last switch
Generic == [op \in {">", "<", "<=", ">="} |->
  CASE op = ">" -> "op_gt" [] op = "<" -> "op_lt" [] op = "<=" -> "op_le" [] op = ">=" -> "op_ge"]

\* Mutant: the operands are swapped and the comparison is not.
FlipForgotten(op) == op

\* parse_operator, first switch: the operands are in the other order.
Flip(op) == CASE op = ">"  -> "<"
              [] op = ">=" -> "<="
              [] op = "<"  -> ">"
              [] op = "<=" -> ">="

\* What parse_filter_ makes of an expression when args are its operands as it
\* has parsed them: names of columns stay, other names are evaluated.
Rewritten(e, args) ==
  CASE e.is = "const" -> e
    [] e.is = "name" /\ e.name \in Col -> e
    [] e.is = "name" /\ e.name \in DOMAIN Env \ Col -> Const(Env[e.name])
    [] e.is = "call" /\ e.fn \in DOMAIN Logical -> CallOf(Logical[e.fn], args)
    [] e.is = "call" /\ e.fn \in DOMAIN Generic /\ Len(e.args) = 2 ->
         IF args[2].is = "name"
         THEN CallOf(Generic[Flip(e.fn)], Reverse(args))
         ELSE CallOf(Generic[e.fn], args)
    [] OTHER -> Error

\* parse_filter_
Parse[e \in Expr] == Rewritten(e, [i \in DOMAIN e.args |-> Parse[e.args[i]]])

Parsed == {Parse[e] : e \in Expr}

\* Mutant: the loop over a call starts at the function.
StartOfAll(call) == <<call.fn>>

\* for (i in 2:length(expr)): the function itself is not a column.
StartOf(call) == <<>>

\* A sequence of names with each name once, where it comes first.
Distinct(s) ==
  LET D[i \in 0..Len(s)] ==
        IF i = 0 THEN <<>>
        ELSE IF s[i] \in ToSet(D[i - 1]) THEN D[i - 1] ELSE Append(D[i - 1], s[i])
  IN  D[Len(s)]

\* What columns_from_filter finds in a tree when names are what it finds in
\* its operands.
NamesOf(t, names) ==
  CASE t.is = "name" -> <<t.name>>
    [] t.is = "call" -> Distinct(StartOf(t) \o FlattenSeq(names))
    [] OTHER -> <<>>

\* columns_from_filter
NamesIn[t \in Parsed] == NamesOf(t, [i \in DOMAIN t.args |-> NamesIn[t.args[i]]])

-----------------------------------------------------------------------------
(* Evaluating a parsed condition.                                          *)

Vec(class, cells) == [is |-> "vec", class |-> class, cells |-> cells]
Bits(bits)        == [is |-> "bits", bits |-> bits]

NAInt == 2 * (-IntMax - 1)

\* as<int> of a number: truncated towards zero, NA when it does not fit.
AsInt(x) == IF x \in Int /\ x > NAInt /\ x < -NAInt THEN 2 * Quot(x, 2) ELSE NAInt

\* The value a kernel compares with: int, or double for SNumericVector.
Value(class, x) == IF class = "double" THEN x ELSE AsInt(x)

KernelOp == [f \in {"op_gt", "op_lt", "op_le", "op_ge"} |->
  CASE f = "op_gt" -> "gt" [] f = "op_lt" -> "lt" [] f = "op_le" -> "le" [] f = "op_ge" -> "ge"]

\* Mutant: op_lt was copied from op_le.
ComparableCopied(f, x, y) ==
  /\ x.is = "vec" /\ x.class \in VecClass
  /\ f \in {"op_le", "op_lt"} => x.class = "double"
  /\ y.is = "vec" /\ Len(y.cells) = 1

\* op_le.integer and op_le.factor fail on their first line; there are no
\* methods for other classes; the value has to be one number.
Comparable(f, x, y) ==
  /\ x.is = "vec" /\ x.class \in VecClass
  /\ f = "op_le" => x.class = "double"
  /\ y.is = "vec" /\ Len(y.cells) = 1

Compare(f, x, y) ==
  IF ~Comparable(f, x, y) THEN Error
  ELSE Bits([j \in DOMAIN x.cells |->
         KernelBit(x.class, KernelOp[f], Len(x.cells), j, x.cells[j],
                   Value(x.class, y.cells[1]))])

\* sindex_and, sindex_or
Combine(f, x, y) ==
  IF ~(x.is = "bits" /\ y.is = "bits" /\ Len(x.bits) = Len(y.bits)) THEN Error
  ELSE Bits([j \in DOMAIN x.bits |->
         IF f = "sindex_and" THEN x.bits[j] /\ y.bits[j] ELSE x.bits[j] \/ y.bits[j]])

\* The value of a tree in a frame of variables when args are the values of its
\* operands.  A string is not a function.
Valued(frame, t, args) ==
  CASE t.is = "const" -> Vec("double", <<t.value>>)
    [] t.is = "name" -> IF t.name \in DOMAIN frame THEN frame[t.name] ELSE Error
    [] t.is = "call" /\ t.fn \in DOMAIN KernelOp -> Compare(t.fn, args[1], args[2])
    [] t.is = "call" /\ t.fn \in {"sindex_and", "sindex_or"} -> Combine(t.fn, args[1], args[2])
    [] OTHER -> Error

\* eval(parsed)
Eval(frame, tree) ==
  LET E[t \in Parsed] == Valued(frame, t, [i \in DOMAIN t.args |-> E[t.args[i]]])
  IN  E[tree]

\* What a condition compares: the pairs of operands of its comparisons.
Comparisons[t \in Parsed] ==
  IF t.is # "call" THEN {}
  ELSE IF t.fn \in DOMAIN KernelOp THEN {t}
  ELSE UNION {Comparisons[t.args[i]] : i \in DOMAIN t.args}

\* A condition, or an operand of its & and |, that is a string instead of a
\* function or compares nothing.
Unfit[t \in Parsed] ==
  \/ t.is # "call"
  \/ t.fn \notin DOMAIN KernelOp \cup {"sindex_and", "sindex_or"}
  \/ t.fn \in {"sindex_and", "sindex_or"} /\ \E i \in DOMAIN t.args : Unfit[t.args[i]]

-----------------------------------------------------------------------------
(* What a condition means, and when the parser and the kernels decide it.  *)

\* The value of an operand for a row: a function from columns to cells.
Operand(e, row) ==
  CASE e.is = "const" -> e.value
    [] e.is = "name" -> IF e.name \in Col THEN row[e.name] ELSE Env[e.name]

SourceOp == [op \in {">", "<", "<=", ">="} |->
  CASE op = ">" -> "gt" [] op = "<" -> "lt" [] op = "<=" -> "le" [] op = ">=" -> "ge"]

\* Whether a kernel decides x op value by the operator, for cell x of row j of
\* n: the row lies in a whole register, the value is one the kernel can take,
\* and an int is not NA, which the kernels take for the least int.
Decided(class, n, j, x, value) ==
  /\ j =< Bulk(class, n)
  /\ class # "double" => x # NAInt /\ AsInt(value) = value

\* Whether an expression holds for a row when args say it of its operands.
Meant(e, row, args) ==
  /\ e.is = "call"
  /\ CASE e.fn = "&" -> args[1] /\ args[2]
       [] e.fn = "|" -> args[1] \/ args[2]
       [] e.fn = "(" -> args[1]
       [] e.fn \in DOMAIN SourceOp ->
            Holds(SourceOp[e.fn], Operand(e.args[1], row), Operand(e.args[2], row))

\* The expression as R means it, for a row.
Truth(expr, row) ==
  LET T[e \in Expr] == Meant(e, row, [i \in DOMAIN e.args |-> T[e.args[i]]])
  IN  T[expr]

=============================================================================
