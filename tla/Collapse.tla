------------------------------- MODULE Collapse -------------------------------
(***************************************************************************)
(* One call of op_collapse on a column and a bitmap: the R method asserts  *)
(* equal lengths, then the C++ method allocates a result of                *)
(* popcount(bitmap) elements and copies selected rows until it has that    *)
(* many.  The loop is bounded by popcount alone, never by the length of    *)
(* the column, and popcount does not test the bits the loop tests.  The    *)
(* three collapse methods run the same loop over ints, factor codes and    *)
(* doubles.                                                                *)
(***************************************************************************)
EXTENDS BitBytes

CONSTANT Inputs    \* the bitmap and column pairs a call may be made with

ASSUME InputsAssumption ==
  \A c \in Inputs : c.bm \in Seq(Byte) /\ c.src \in Seq(Int)

VARIABLES
  bm,     \* the bitmap, lv
  src,    \* the column
  pc,     \* "assert", "count", "copy", "done" or "error"
  size,   \* popcount(lv)
  pos,    \* bytes lvp (and rows srcp) has been advanced by
  i,      \* rows copied
  out     \* the result vector

collapseVars == <<bm, src, pc, size, pos, i, out>>

N == Len(bm)

CollapseInit ==
  /\ \E c \in Inputs : bm = c.bm /\ src = c.src
  /\ pc = "assert"
  /\ size = 0 /\ pos = 0 /\ i = 0
  /\ out = <<>>

\* Mutant: no assertion.
LengthsAny == TRUE

\* assert_that(length(v) == length(index)) of the op_collapse methods.
LengthsAgree == Len(src) = N

RefuseLengths ==
  /\ pc = "assert"
  /\ ~LengthsAgree
  /\ pc' = "error"
  /\ UNCHANGED <<bm, src, size, pos, i, out>>

Accept ==
  /\ pc = "assert"
  /\ LengthsAgree
  /\ pc' = "count"
  /\ UNCHANGED <<bm, src, size, pos, i, out>>

\* Mutant: the index of the last selected row is taken for their number.
SizeLastIndex == Popcount(bm) - 1

Size == Popcount(bm)

\* lv2.popcount() and the zero-filled Rcpp vector of that size.
Count ==
  /\ pc = "count"
  /\ size' = Size
  /\ out' = [k \in 1..Size |-> 0]
  /\ pc' = "copy"
  /\ UNCHANGED <<bm, src, pos, i>>

\* Mutant: srcp advances only with outp.
CellLagging == src[i + 1]

\* *srcp, which advances with the bitmap.
Cell == src[pos + 1]

\* A byte that is not zero: its row is copied.
Copy ==
  /\ pc = "copy"
  /\ i < size
  /\ bm[pos + 1] # Zeros
  /\ out' = [out EXCEPT ![i + 1] = Cell]
  /\ i' = i + 1
  /\ pos' = pos + 1
  /\ UNCHANGED <<bm, src, pc, size>>

Skip ==
  /\ pc = "copy"
  /\ i < size
  /\ bm[pos + 1] = Zeros
  /\ pos' = pos + 1
  /\ UNCHANGED <<bm, src, pc, size, i, out>>

ReturnCopy ==
  /\ pc = "copy"
  /\ i >= size
  /\ pc' = "done"
  /\ UNCHANGED <<bm, src, size, pos, i, out>>

CollapseNext == RefuseLengths \/ Accept \/ Count \/ Copy \/ Skip \/ ReturnCopy

CollapseSpec == CollapseInit /\ [][CollapseNext]_collapseVars

-----------------------------------------------------------------------------
(* Properties *)

CollapseTypeOK ==
  /\ bm \in Seq(Byte)
  /\ src \in Seq(Int)
  /\ pc \in {"assert", "count", "copy", "done", "error"}
  /\ size \in Nat /\ pos \in Nat /\ i \in Nat
  /\ out \in Seq(Int)

\* The loop has a row to read and a place to write whenever it runs, for
\* every bitmap, also one no kernel has written: popcount never counts more
\* bytes than the loop finds.
CopiesInBounds ==
  pc = "copy" /\ i < size => pos < N /\ pos < Len(src) /\ i < Len(out)

\* For every bitmap the result is a prefix of the selected rows, in their
\* order: the k-th element is the row of the k-th byte that is not zero.
PrefixOfSelection ==
  pc = "done" =>
    \A j \in NonZero(bm, N) :
      LET k == Cardinality(NonZero(bm, j))
      IN  k =< Len(out) => out[k] = src[j]

\* On a bitmap of 0x00 and 0xff bytes popcount is the number of selected rows,
\* so collapse returns all of them and the vector has no unfilled element.
CanonicalComplete ==
  pc = "done" /\ Canonical(bm) =>
    /\ Len(out) = Cardinality({j \in 1..N : bm[j] = Ones})
    /\ \A j \in 1..N :
         bm[j] = Ones => out[Cardinality(NonZero(bm, j))] = src[j]

=============================================================================
