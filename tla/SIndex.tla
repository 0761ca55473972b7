-------------------------------- MODULE SIndex --------------------------------
(***************************************************************************)
(* sindex_and, sindex_or, sindex_andnot and sindex_not: logic on the       *)
(* bitmaps R code holds.  The result is written into a bitmap that exists  *)
(* already - the one passed as .index or, when there is none, the left     *)
(* operand - while the operands are still being read, so the output may be *)
(* either operand or both.  The C++ methods check no lengths; the R        *)
(* functions do.                                                           *)
(***************************************************************************)
EXTENDS BitBytes

CONSTANTS
  Ref,        \* the bitmaps, R raw vectors
  NoIndex,    \* .index = NULL
  Heaps       \* what the bitmaps may hold at first

ASSUME RefAssumption == NoIndex \notin Ref

ASSUME HeapsAssumption == Heaps \subseteq [Ref -> Seq(Byte)]

VARIABLES
  heap,      \* the bytes of each bitmap
  call,      \* the call in progress, with its locals, or the last one
  before     \* history: the heap when that call began

vars == <<heap, call, before>>

Binary == {"and", "or", "andnot"}

\* Mutant: the other operand is negated, as the instruction's name suggests.
WaveByteSwapped(op, l, r) ==
  CASE op = "and" -> l \cap r
    [] op = "or" -> l \cup r
    [] op = "andnot" -> l \ r
    [] op = "not" -> Ones \ l

\* One register of _mm_and_si128, _mm_or_si128, and _mm_andnot_si128, which
\* negates its first operand; op_not is andnot with all ones on the right.
WaveByte(op, l, r) ==
  CASE op = "and" -> l \cap r
    [] op = "or" -> l \cup r
    [] op = "andnot" -> r \ l
    [] op = "not" -> Ones \ l

\* Mutant: ! in the place of ~.
TailByteLogicalNot(op, l, r) ==
  IF op = "not" THEN (IF l = Zeros THEN {0} ELSE Zeros) ELSE WaveByte(op, l, r)

\* The byte loops: *l & *r, *l | *r, ~(*l) & *r and ~*l.
TailByte(op, l, r) ==
  CASE op = "and" -> l \cap r
    [] op = "or" -> l \cup r
    [] op = "andnot" -> (Ones \ l) \cap r
    [] op = "not" -> Ones \ l

Init ==
  /\ heap \in Heaps
  /\ call = [pc |-> "idle"]
  /\ before = heap

Ready == call.pc \in {"idle", "done", "error"}

\* Mutant: only the operands are compared.
SameLengthOperands(left, right, index) == Len(heap[left]) = Len(heap[right])

\* assert_that on the lengths of both operands and of .index.
SameLength(left, right, index) ==
  /\ Len(heap[left]) = Len(heap[right])
  /\ index # NoIndex => Len(heap[left]) = Len(heap[index])

Refuse(left, right, index) ==
  /\ Ready
  /\ ~SameLength(left, right, index)
  /\ call' = [pc |-> "error"]
  /\ before' = heap
  /\ UNCHANGED heap

\* Mutant: NULL is passed on as the output.
OutputNull(left, index) == index

\* .index <- left when there is none.
Output(left, index) == IF index = NoIndex THEN left ELSE index

Start(op, left, right, index) ==
  /\ Ready
  /\ SameLength(left, right, index)
  /\ call' = [pc |-> "wave", op |-> op, left |-> left, right |-> right, index |-> index,
              out |-> Output(left, index), pos |-> 0]
  /\ before' = heap
  /\ UNCHANGED heap

\* sindex_not(a) works on a itself.
StartNot(a) ==
  /\ Ready
  /\ call' = [pc |-> "wave", op |-> "not", left |-> a, right |-> a, index |-> a,
              out |-> a, pos |-> 0]
  /\ before' = heap
  /\ UNCHANGED heap

Left(j)  == heap[call.left][j]
Right(j) == heap[call.right][j]

\* Mutant: the result is written to the left operand, .index or not.
TargetLeft == call.left

Target == call.out

\* A run of bytes is stored at the output pointer.
Store(bytes) ==
  heap' = [heap EXCEPT ![Target] =
             [j \in DOMAIN @ |-> IF j - call.pos \in DOMAIN bytes
                                 THEN bytes[j - call.pos] ELSE @[j]]]

HasWave == call.pos + WaveBytes =< Len(heap[call.left])

Advance == WaveBytes

\* Load a register of each operand, combine, store, advance.
Wave ==
  /\ call.pc = "wave"
  /\ HasWave
  /\ Store([k \in 1..WaveBytes |->
              WaveByte(call.op, Left(call.pos + k), Right(call.pos + k))])
  /\ call' = [call EXCEPT !.pos = @ + Advance]
  /\ UNCHANGED before

EndWaves ==
  /\ call.pc = "wave"
  /\ ~HasWave
  /\ call' = [call EXCEPT !.pc = "tail"]
  /\ UNCHANGED <<heap, before>>

Tail1 ==
  /\ call.pc = "tail"
  /\ call.pos < Len(heap[call.left])
  /\ Store([k \in 1..1 |->
              TailByte(call.op, Left(call.pos + k), Right(call.pos + k))])
  /\ call' = [call EXCEPT !.pos = @ + 1]
  /\ UNCHANGED before

Return ==
  /\ call.pc = "tail"
  /\ call.pos >= Len(heap[call.left])
  /\ call' = [call EXCEPT !.pc = "done"]
  /\ UNCHANGED <<heap, before>>

LoopStep == Wave \/ EndWaves \/ Tail1 \/ Return

Next ==
  \/ \E left, right \in Ref, index \in Ref \cup {NoIndex} :
       \/ Refuse(left, right, index)
       \/ \E op \in Binary : Start(op, left, right, index)
  \/ \E a \in Ref : StartNot(a)
  \/ LoopStep

Spec == Init /\ [][Next]_vars

-----------------------------------------------------------------------------
(* Properties *)

Call == [pc: {"idle", "error"}] \cup
        [pc: {"wave", "tail", "done"}, op: Binary \cup {"not"}, left: Ref, right: Ref,
         index: Ref \cup {NoIndex}, out: Ref, pos: Nat]

TypeOK ==
  /\ heap \in [Ref -> Seq(Byte)]
  /\ before \in [Ref -> Seq(Byte)]
  /\ call \in Call

\* The loops are bounded by the length of the left operand alone; they stay
\* inside the right operand and the output too.
AccessInBounds ==
  /\ call.pc = "wave" /\ HasWave =>
       \A r \in {call.right, call.out} : call.pos + WaveBytes =< Len(heap[r])
  /\ call.pc = "tail" /\ call.pos < Len(heap[call.left]) =>
       \A r \in {call.right, call.out} : call.pos < Len(heap[r])

\* Whether bit b is kept when it is set in l, in r, in both or in neither.
\* testfilter.R:103-104 expects andnot to keep what only the right operand has.
Keeps(op, b, l, r) ==
  CASE op = "and"    -> b \in l /\ b \in r
    [] op = "or"     -> b \in l \/ b \in r
    [] op = "andnot" -> b \notin l /\ b \in r
    [] op = "not"    -> b \notin l

\* A call returns a bitmap as long as its operands that has a bit exactly if
\* the operation keeps it, by what the operands were when the call began: in
\* whole registers and in the tail alike, also when the output is one of the
\* operands and is overwritten while they are read.
ResultExact ==
  call.pc = "done" =>
    LET l == before[call.left]
        r == before[call.right]
    IN  /\ Len(heap[call.out]) = Len(l)
        /\ \A j \in 1..Len(l), b \in Bit :
             b \in heap[call.out][j] <=> Keeps(call.op, b, l[j], r[j])

\* sindex.R:105: "And left and not right"
AndNotAsDocumented ==
  call.pc = "done" /\ call.op = "andnot" =>
    \A j \in DOMAIN heap[call.out] :
      heap[call.out][j] = before[call.left][j] \ before[call.right][j]

\* A call writes its output and nothing else: with an .index both operands
\* keep their selection, and no other bitmap changes ever.
OthersUntouched ==
  \A r \in Ref :
    call.pc \in {"idle", "error"} \/ r # call.out => heap[r] = before[r]

\* Bitmaps of 0x00 and 0xff bytes stay such bitmaps at every step, so popcount
\* and collapse, which test different bits, agree on whatever filters combine.
CanonicalKept ==
  [][(\A r \in Ref : Canonical(heap[r])) => \A r \in Ref : Canonical(heap'[r])]_vars

=============================================================================
