------------------------------ MODULE VectorOps ------------------------------
(***************************************************************************)
(* The comparison kernels of SIntVector, SFactorVector and SNumericVector. *)
(* Each of the 15 select_op_* methods fills a byte bitmap from a column:   *)
(* the rows that fill a whole SSE register ("bulk") are compared with the  *)
(* operator's vector instruction, the remaining rows ("tail") by a scalar  *)
(* loop.  This module is pure; SelectKernel runs the loops step by step    *)
(* and FilterParse uses KernelBit as the result of a call.                 *)
(*                                                                         *)
(* A cell is an integer (an int, a factor code, or a double that stands    *)
(* for its place in the order) or NaN.  NA_integer_ is just the least int. *)
(***************************************************************************)
EXTENDS Integers, Sequences

CONSTANT NaN

ASSUME NaNAssumption == NaN \notin Int

Cell == Int \cup {NaN}

OpName   == {"eq", "lt", "gt", "ge", "le"}
VecClass == {"integer", "factor", "double"}

\* What "x op y" means in C and in R; a comparison with NaN is false.
Holds(op, x, y) ==
  /\ x \in Int
  /\ y \in Int
  /\ CASE op = "eq" -> x = y
       [] op = "lt" -> x < y
       [] op = "gt" -> x > y
       [] op = "ge" -> x >= y
       [] op = "le" -> x =< y

-----------------------------------------------------------------------------
(* One lane of the vector instructions.                                    *)

\* _mm_cmpeq_epi32, _mm_cmpeq_pd
LaneEq(x, y) == x \in Int /\ y \in Int /\ x = y

\* _mm_cmplt_epi32, _mm_cmplt_pd
LaneLt(x, y) == x \in Int /\ y \in Int /\ x < y

\* _mm_cmpgt_epi32, _mm_cmpgt_pd
LaneGt(x, y) == x \in Int /\ y \in Int /\ y < x

\* Mutant: only the first of the two compares.
LaneGeStrict(x, y) == LaneGt(x, y)

\* ge and le have no instruction of their own: two compares and _mm_or_si128.
LaneGe(x, y) == LaneEq(x, y) \/ LaneGt(x, y)
LaneLe(x, y) == LaneEq(x, y) \/ LaneLt(x, y)

LaneBit(op, x, y) ==
  CASE op = "eq" -> LaneEq(x, y)
    [] op = "lt" -> LaneLt(x, y)
    [] op = "gt" -> LaneGt(x, y)
    [] op = "ge" -> LaneGe(x, y)
    [] op = "le" -> LaneLe(x, y)

\* Mutant: the scalar loop of another operator.
TailBitLess(op, x, y) == LaneLt(x, y)

\* The scalar loop after the vector loop: (*tail++ == value) in all fifteen.
TailBit(op, x, y) == LaneEq(x, y)

-----------------------------------------------------------------------------
(* The shape of a call.                                                    *)

\* A register is 16 bytes: four 32-bit ints or factor codes, two doubles.
Lanes(cls) == IF cls = "double" THEN 2 ELSE 4

\* Rows handled by the vector loop.
Bulk(cls, n) == Lanes(cls) * (n \div Lanes(cls))

\* Whether the byte of row j of a call over n rows is set.
KernelBit(cls, op, n, j, x, value) ==
  IF j <= Bulk(cls, n) THEN LaneBit(op, x, value) ELSE TailBit(op, x, value)

=============================================================================
