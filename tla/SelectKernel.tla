----------------------------- MODULE SelectKernel -----------------------------
(***************************************************************************)
(* One call of a select_op_* kernel, loop iteration by loop iteration: the *)
(* checks on alignment and on the length of the output, the vector loop    *)
(* over whole registers, the scalar loop over the rest.  The variables are *)
(* the locals of the C++ function and the caller's output buffer.          *)
(***************************************************************************)
EXTENDS VectorOps

CONSTANT Calls    \* the argument lists a call may be made with

Call == [cls: VecClass, op: OpName, v: Seq(Cell), value: Cell,
         aligned: BOOLEAN, outlen: Nat]

ASSUME CallsAssumption == Calls \subseteq Call

VARIABLES
  call,     \* the arguments
  pc,       \* "check", "wave", "tail" or "done"
  w,        \* vector-loop counter
  i,        \* scalar-loop counter
  inp,      \* rows vptr128i / tail32 has been advanced by
  outp,     \* bytes vout8 has been advanced by
  out,      \* the output bitmap; "old" is whatever the caller left there
  result    \* "none" while running, then "out" or "nil" (R_NilValue)

vars == <<call, pc, w, i, inp, outp, out, result>>

\* Mutant: the truth value itself.
ByteBool(b) == IF b THEN "01" ELSE "00"

\* The byte a comparison result is stored as.
Byte(b) == IF b THEN "ff" ELSE "00"

N     == Len(call.v)
L     == Lanes(call.cls)
Waves == N \div L
Iter  == N % L

Init ==
  /\ call \in Calls
  /\ pc = "check"
  /\ w = 0 /\ i = 0 /\ inp = 0 /\ outp = 0
  /\ out = [j \in 1..call.outlen |-> "old"]
  /\ result = "none"

\* Mutant: the length of the bitmap is not checked.
RejectedNoLengthCheck == ~call.aligned

\* A vector that _mm_load_si128 could not load, or a bitmap of the wrong size.
Rejected == ~call.aligned \/ call.outlen # N

\* Mutant: the bitmap is cleared before the checks.
RejectClearing ==
  /\ pc = "check"
  /\ Rejected
  /\ result' = "nil"
  /\ pc' = "done"
  /\ out' = [j \in DOMAIN out |-> "00"]
  /\ UNCHANGED <<call, w, i, inp, outp>>

Reject ==
  /\ pc = "check"
  /\ Rejected
  /\ result' = "nil"
  /\ pc' = "done"
  /\ UNCHANGED <<call, w, i, inp, outp, out>>

Accept ==
  /\ pc = "check"
  /\ ~Rejected
  /\ pc' = "wave"
  /\ UNCHANGED <<call, w, i, inp, outp, out, result>>

\* The buffer after a run of bytes is stored at outp.
Stored(bytes) ==
  [j \in DOMAIN out |-> IF j - outp \in DOMAIN bytes THEN bytes[j - outp]
                                                     ELSE out[j]]

\* One register: compare, extract every lane, advance both pointers.
Wave ==
  /\ pc = "wave"
  /\ w < Waves
  /\ out' = Stored([k \in 1..L |->
                     Byte(LaneBit(call.op, call.v[inp + k], call.value))])
  /\ w' = w + 1
  /\ inp' = inp + L
  /\ outp' = outp + L
  /\ UNCHANGED <<call, pc, i, result>>

EndWaves ==
  /\ pc = "wave"
  /\ w >= Waves
  /\ pc' = "tail"
  /\ UNCHANGED <<call, w, i, inp, outp, out, result>>

\* One row of the last, partial register.
TailStep ==
  /\ pc = "tail"
  /\ i < Iter
  /\ out' = Stored([k \in 1..1 |->
                     Byte(TailBit(call.op, call.v[inp + k], call.value))])
  /\ i' = i + 1
  /\ inp' = inp + 1
  /\ outp' = outp + 1
  /\ UNCHANGED <<call, pc, w, result>>

Return ==
  /\ pc = "tail"
  /\ i >= Iter
  /\ result' = "out"
  /\ pc' = "done"
  /\ UNCHANGED <<call, w, i, inp, outp, out>>

Next == Reject \/ Accept \/ Wave \/ EndWaves \/ TailStep \/ Return

Spec == Init /\ [][Next]_vars

-----------------------------------------------------------------------------
(* Properties *)

TypeOK ==
  /\ call \in Call
  /\ pc \in {"check", "wave", "tail", "done"}
  /\ w \in Nat /\ i \in Nat /\ inp \in Nat /\ outp \in Nat
  /\ out \in [1..call.outlen -> {"old", "00", "ff"}]
  /\ result \in {"none", "out", "nil"}

\* Every load and store stays inside the column and the bitmap: a kernel
\* about to run an iteration has room for all the lanes it reads and writes,
\* whatever the two lengths the caller passed.
AccessInBounds ==
  /\ pc = "wave" /\ w < Waves => inp + L =< N /\ outp + L =< call.outlen
  /\ pc = "tail" /\ i < Iter  => inp < N /\ outp < call.outlen

Row(j) == Holds(call.op, call.v[j], call.value)

\* A call that returns the bitmap has decided every row of a whole register
\* exactly: the byte is set iff the row's cell satisfies the operator.
BulkExact ==
  result = "out" =>
    \A j \in 1..Bulk(call.cls, N) : out[j] = Byte(Row(j))

\* The equality kernels are exact on every row, whatever the length modulo
\* the register width, and leave no byte of the caller's old bitmap.
EqualityExact ==
  result = "out" /\ call.op = "eq" => \A j \in 1..N : out[j] = Byte(Row(j))

\* ==, >= and <= never select a row that does not satisfy them, tail rows
\* included (they may leave a tail row out).
InclusiveSound ==
  result = "out" /\ call.op \in {"eq", "ge", "le"} =>
    \A j \in 1..N : out[j] = "ff" => Row(j)

\* A refused call has not touched the caller's bitmap: R code that reuses an
\* .index after a NULL result still holds its previous selection.
RejectedUntouched ==
  result = "nil" => \A j \in DOMAIN out : out[j] = "old"

\* A bitmap that is returned is the one the pure KernelBit describes.
MatchesKernelBit ==
  result = "out" =>
    out = [j \in 1..N |->
             Byte(KernelBit(call.cls, call.op, N, j, call.v[j], call.value))]

\* While a kernel runs nobody sees its bitmap.
S == INSTANCE Selection WITH
  bitmap <- IF result = "none" THEN [j \in 1..call.outlen |-> "old"] ELSE out,
  answer <- result

\* The loops implement the one-step selection: whatever the lengths modulo the
\* register, the two loops together decide every row once, no byte of the old
\* bitmap survives, and R code that goes on using the .index of a refused call
\* still holds its previous selection.
ImplementsSelection == S!Spec

\* What the documentation of op_gt ("Greater to Value"), op_lt, op_ge and
\* op_le says of the whole result; the tail loop breaks it.
OperatorExact ==
  result = "out" => \A j \in 1..N : out[j] = Byte(Row(j))

============================================================================
