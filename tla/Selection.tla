------------------------------ MODULE Selection ------------------------------
(***************************************************************************)
(* What a select_op_* call promises, in one step: it is refused and leaves *)
(* the bitmap alone, or every row is decided by the operator, except that  *)
(* the rows that do not fill a register are always decided by equality.    *)
(***************************************************************************)
EXTENDS VectorOps

CONSTANT Calls    \* the argument lists a call may be made with

VARIABLES
  call,     \* the arguments
  bitmap,   \* the caller's bitmap; "old" is whatever the caller left there
  answer    \* "none" while running, then "out" or "nil"

vars == <<call, bitmap, answer>>

Init ==
  /\ call \in Calls
  /\ bitmap = [j \in 1..call.outlen |-> "old"]
  /\ answer = "none"

Refused == ~call.aligned \/ call.outlen # Len(call.v)

Refuse ==
  /\ answer = "none" /\ Refused
  /\ answer' = "nil"
  /\ UNCHANGED <<call, bitmap>>

Selected(j) ==
  Holds(IF j <= Bulk(call.cls, Len(call.v)) THEN call.op ELSE "eq", call.v[j], call.value)

Decide ==
  /\ answer = "none" /\ ~Refused
  /\ answer' = "out"
  /\ bitmap' = [j \in 1..call.outlen |-> IF Selected(j) THEN "ff" ELSE "00"]
  /\ UNCHANGED call

Next == Refuse \/ Decide

Spec == Init /\ [][Next]_vars

=============================================================================
