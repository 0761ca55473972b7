---------------------------- MODULE MCSelectKernel ----------------------------
(* Small instances of SelectKernel.                                         *)
EXTENDS SelectKernel

CONSTANT MaxLen     \* longest column

\* 0 is below, 1 is and 2 is above the value compared with.
Cells(cls) == IF cls = "double" THEN {0, 1, 2, NaN} ELSE {0, 1, 2}

\* All columns that are short enough to enumerate: up to a whole register and
\* one tail row.  Longer columns repeat the cells, in the three phases; they
\* reach two registers and every length of the tail.
Columns(cls) ==
  UNION {[1..n -> Cells(cls)] : n \in 0 .. IF cls = "double" THEN 3 ELSE 4}
    \cup {[j \in 1..n |-> (j + s) % 3] : n \in 4..MaxLen, s \in 0..2}

CallsOf(cls, op) ==
  [cls: {cls}, op: {op}, v: Columns(cls), value: {1},
   aligned: {TRUE}, outlen: 0..MaxLen]

\* Refused calls differ only in the check: one operator stands for all.
RefusedCalls ==
  [cls: {"integer", "double"}, op: {"gt"}, v: {<<>>, <<2>>, <<0, 1, 2, 0>>},
   value: {1}, aligned: BOOLEAN, outlen: {0, 1, 3, 4, 5}]

MCCalls ==
  {c \in UNION {CallsOf(cls, op) : cls \in VecClass, op \in OpName} :
     c.outlen = Len(c.v)}
  \cup {[cls |-> "double", op |-> op, v |-> v, value |-> NaN, aligned |-> TRUE,
         outlen |-> 3] : op \in OpName, v \in [1..3 -> {1, NaN}]}
  \cup RefusedCalls
=============================================================================
