---------------------------- MODULE BitmapProofs ----------------------------
(***************************************************************************)
(* The loops over bitmaps, for bitmaps of every length, with every         *)
(* content, and for every register width.                                  *)
(*                                                                         *)
(* Collapse has copied as many rows as there are non-zero bytes behind it; *)
(* popcount counts a subset of the non-zero bytes, so while rows are       *)
(* missing there is a non-zero byte ahead.                                 *)
(*                                                                         *)
(* SIndex, for any number of bitmaps: behind pos the output holds the      *)
(* result and ahead of it what it held when the call began, so the bytes   *)
(* still to be read are the original ones even if an operand is the        *)
(* output.                                                                 *)
(***************************************************************************)
EXTENDS Collapse, SIndex, FiniteSetTheorems, TLAPS

-----------------------------------------------------------------------------
(* Collapse: the inductive invariant.                                      *)

Loop ==
  pc \in {"copy", "done"} =>
    /\ Len(src) = N
    /\ size = Popcount(bm)
    /\ Len(out) = size
    /\ pos =< N
    /\ i = Cardinality(NonZero(bm, pos))
    /\ i =< size

Copied ==
  pc \in {"copy", "done"} =>
    \A j \in NonZero(bm, pos) : out[Cardinality(NonZero(bm, j))] = src[j]

Asserted == pc = "count" => Len(src) = N

CollapseIInv ==
  /\ CollapseTypeOK
  /\ Asserted
  /\ Loop
  /\ Copied
  /\ pc \in {"assert", "count"} => pos = 0 /\ i = 0
  /\ pc = "done" => i >= size

-----------------------------------------------------------------------------
(* Collapse: counting the non-zero bytes of a prefix.                       *)

LEMMA NonZeroFinite ==
  ASSUME NEW b, NEW k \in Nat
  PROVE  IsFiniteSet(NonZero(b, k)) /\ Cardinality(NonZero(b, k)) \in Nat
  <1>1. IsFiniteSet(1..k)
    BY FS_Interval
  <1>2. NonZero(b, k) \subseteq 1..k
    BY DEF NonZero
  <1>3. IsFiniteSet(NonZero(b, k))
    BY <1>1, <1>2, FS_Subset
  <1>4. QED
    BY <1>3, FS_CardinalityType

LEMMA NonZeroMonotone ==
  ASSUME NEW b, NEW k \in Nat, NEW l \in Nat, k =< l
  PROVE  Cardinality(NonZero(b, k)) =< Cardinality(NonZero(b, l))
  <1>1. NonZero(b, k) \subseteq NonZero(b, l)
    BY DEF NonZero
  <1>2. QED
    BY <1>1, NonZeroFinite, FS_Subset

LEMMA NonZeroStep ==
  ASSUME NEW b, NEW k \in Nat
  PROVE  Cardinality(NonZero(b, k + 1)) =
           IF b[k + 1] = Zeros THEN Cardinality(NonZero(b, k))
                               ELSE Cardinality(NonZero(b, k)) + 1
  <1>1. CASE b[k + 1] = Zeros
    <2>1. NonZero(b, k + 1) = NonZero(b, k)
      BY <1>1 DEF NonZero
    <2>2. QED
      BY <1>1, <2>1
  <1>2. CASE b[k + 1] # Zeros
    <2>1. NonZero(b, k + 1) = NonZero(b, k) \cup {k + 1}
      BY <1>2 DEF NonZero
    <2>2. k + 1 \notin NonZero(b, k)
      BY DEF NonZero
    <2>3. QED
      BY <1>2, <2>1, <2>2, NonZeroFinite, FS_AddElement
  <1>3. QED
    BY <1>1, <1>2

LEMMA NonZeroEmpty ==
  ASSUME NEW b
  PROVE  NonZero(b, 0) = {} /\ Cardinality(NonZero(b, 0)) = 0
  <1>1. NonZero(b, 0) = {}
    BY DEF NonZero
  <1>2. QED
    BY <1>1, FS_EmptySet

\* popcount tests a bit of the byte, so it counts only non-zero bytes.
LEMMA PopcountBound ==
  ASSUME NEW b \in Seq(Byte)
  PROVE  /\ Popcount(b) \in Nat
         /\ Popcount(b) =< Cardinality(NonZero(b, Len(b)))
  <1>1. Counted(b) \subseteq NonZero(b, Len(b))
    BY DEF Counted, NonZero, Zeros
  <1>2. Len(b) \in Nat
    OBVIOUS
  <1>3. QED
    BY <1>1, <1>2, NonZeroFinite, FS_Subset, FS_CardinalityType DEF Popcount

\* On a bitmap of 0x00 and 0xff bytes it counts all of them.
LEMMA PopcountCanonical ==
  ASSUME NEW b \in Seq(Byte), Canonical(b)
  PROVE  /\ Popcount(b) = Cardinality(NonZero(b, Len(b)))
         /\ {j \in 1..Len(b) : b[j] = Ones} = NonZero(b, Len(b))
  <1>1. 0 \in Ones /\ 7 \in Ones
    BY DEF Ones, Bit
  <1>2. \A j \in 1..Len(b) : b[j] # Zeros <=> b[j] = Ones
    BY <1>1 DEF Canonical, Zeros
  <1>3. Counted(b) = NonZero(b, Len(b))
    BY <1>1, <1>2 DEF Counted, NonZero, Zeros
  <1>4. QED
    BY <1>2, <1>3 DEF Popcount, NonZero

-----------------------------------------------------------------------------
(* Collapse: the invariant is inductive.                                    *)

LEMMA CollapseInitInv == CollapseInit => CollapseIInv
  BY InputsAssumption DEF CollapseInit, CollapseIInv, CollapseTypeOK, Asserted, Loop, Copied

LEMMA CopyingIsInBounds ==
  ASSUME CollapseIInv, pc = "copy", i < size
  PROVE  pos < N
  <1>1. pos \in Nat /\ N \in Nat /\ bm \in Seq(Byte) /\ pos =< N
    BY DEF CollapseIInv, CollapseTypeOK, Loop, N
  <1>2. size =< Cardinality(NonZero(bm, N))
    BY <1>1, PopcountBound DEF CollapseIInv, Loop, N
  <1>3. i = Cardinality(NonZero(bm, pos)) /\ i \in Nat /\ size \in Nat
    BY DEF CollapseIInv, CollapseTypeOK, Loop
  <1>4. pos # N
    BY <1>1, <1>2, <1>3, NonZeroFinite
  <1>5. QED
    BY <1>1, <1>4

LEMMA CollapseNextInv == CollapseIInv /\ [CollapseNext]_collapseVars => CollapseIInv'
  <1> SUFFICES ASSUME CollapseIInv, [CollapseNext]_collapseVars PROVE CollapseIInv'
    OBVIOUS
  <1>1. CASE RefuseLengths
    BY <1>1 DEF RefuseLengths, CollapseIInv, CollapseTypeOK, Asserted, Loop, Copied
  <1>2. CASE Accept
    BY <1>2 DEF Accept, LengthsAgree, CollapseIInv, CollapseTypeOK, Asserted, Loop, Copied, N
  <1>3. CASE Count
    <2>1. Popcount(bm) \in Nat
      BY PopcountBound DEF CollapseIInv, CollapseTypeOK
    <2>2. out' \in Seq(Int) /\ Len(out') = Popcount(bm)
      BY <1>3, <2>1 DEF Count, Size
    <2>3. CollapseTypeOK'
      BY <1>3, <2>1, <2>2 DEF Count, Size, CollapseIInv, CollapseTypeOK
    <2>4. Loop'
      <3>1. pos = 0 /\ i = 0 /\ Len(src) = N /\ N \in Nat
        BY <1>3 DEF Count, Size, CollapseIInv, CollapseTypeOK, Asserted, N
      <3>2. QED
        BY <1>3, <2>1, <2>2, <3>1, NonZeroEmpty DEF Count, Size, Loop, N
    <2>5. Copied'
      <3>1. pos = 0
        BY <1>3 DEF Count, Size, CollapseIInv
      <3>2. QED
        BY <1>3, <3>1, NonZeroEmpty DEF Count, Size, Copied
    <2>6. QED
      BY <1>3, <2>3, <2>4, <2>5 DEF Count, Size, CollapseIInv, Asserted
  <1>4. CASE Copy
    <2>1. pos < N
      BY <1>4, CopyingIsInBounds DEF Copy, Cell
    <2>2. /\ pos \in Nat /\ i \in Nat /\ size \in Nat /\ N \in Nat
          /\ Len(src) = N /\ size = Popcount(bm) /\ Len(out) = size
          /\ i = Cardinality(NonZero(bm, pos)) /\ i < size
          /\ out \in Seq(Int) /\ src \in Seq(Int)
      BY <1>4 DEF Copy, Cell, CollapseIInv, CollapseTypeOK, Loop, N
    <2>3. Cardinality(NonZero(bm, pos + 1)) = i + 1
      BY <1>4, <2>2, NonZeroStep DEF Copy, Cell
    <2>4. /\ out' = [out EXCEPT ![i + 1] = src[pos + 1]]
          /\ i' = i + 1 /\ pos' = pos + 1 /\ UNCHANGED <<bm, src, pc, size>>
          /\ pc = "copy"
      BY <1>4 DEF Copy, Cell
    <2>5. out' \in Seq(Int) /\ Len(out') = size
      <3>1. src[pos + 1] \in Int
        BY <2>1, <2>2
      <3>2. i + 1 \in 1..Len(out)
        BY <2>2
      <3>3. QED
        BY <2>2, <2>4, <3>1, <3>2
    <2>6. CollapseTypeOK'
      BY <2>2, <2>4, <2>5 DEF CollapseIInv, CollapseTypeOK
    <2>7. Loop'
      BY <2>1, <2>2, <2>3, <2>4, <2>5 DEF Loop, N
    <2>8. Copied'
      <3> SUFFICES ASSUME NEW j \in NonZero(bm, pos + 1)
                   PROVE  out'[Cardinality(NonZero(bm, j))] = src[j]
        BY <2>4 DEF Copied
      <3>1. j \in 1..pos + 1
        BY DEF NonZero
      <3>2. CASE j = pos + 1
        BY <2>2, <2>3, <2>4, <3>2
      <3>3. CASE j # pos + 1
        <4>1. j \in NonZero(bm, pos) /\ j \in Nat /\ j =< pos /\ j - 1 \in Nat
          BY <2>2, <3>1, <3>3 DEF NonZero
        <4>2. Cardinality(NonZero(bm, j)) =< i
          BY <2>2, <4>1, NonZeroMonotone
        <4>3. Cardinality(NonZero(bm, j)) \in 1..i
          <5>1. bm[(j - 1) + 1] # Zeros /\ (j - 1) + 1 = j
            BY <4>1 DEF NonZero
          <5>2. Cardinality(NonZero(bm, j)) = Cardinality(NonZero(bm, j - 1)) + 1
            BY <4>1, <5>1, NonZeroStep
          <5>3. QED
            BY <2>2, <4>1, <4>2, <5>2, NonZeroFinite
        <4>4. out[Cardinality(NonZero(bm, j))] = src[j]
          BY <2>4, <4>1 DEF CollapseIInv, Copied
        <4>5. QED
          BY <2>2, <2>4, <4>3, <4>4
      <3>4. QED
        BY <3>2, <3>3
    <2>9. QED
      BY <2>4, <2>6, <2>7, <2>8 DEF CollapseIInv, Asserted
  <1>5. CASE Skip
    <2>1. pos < N
      BY <1>5, CopyingIsInBounds DEF Skip
    <2>2. pos \in Nat /\ N \in Nat
      BY DEF CollapseIInv, CollapseTypeOK, N
    <2>3. /\ Cardinality(NonZero(bm, pos + 1)) = Cardinality(NonZero(bm, pos))
          /\ NonZero(bm, pos + 1) = NonZero(bm, pos)
      BY <1>5, <2>2, NonZeroStep DEF Skip, NonZero
    <2>4. CollapseTypeOK'
      BY <1>5, <2>2 DEF Skip, CollapseIInv, CollapseTypeOK
    <2>5. Loop'
      BY <1>5, <2>1, <2>2, <2>3 DEF Skip, CollapseIInv, Loop, N
    <2>6. Copied'
      BY <1>5, <2>3 DEF Skip, CollapseIInv, Copied
    <2>7. QED
      BY <1>5, <2>4, <2>5, <2>6 DEF Skip, CollapseIInv, Asserted
  <1>6. CASE ReturnCopy
    BY <1>6 DEF ReturnCopy, CollapseIInv, CollapseTypeOK, Asserted, Loop, Copied, N
  <1>7. CASE UNCHANGED collapseVars
    BY <1>7 DEF collapseVars, CollapseIInv, CollapseTypeOK, Asserted, Loop, Copied, N
  <1>8. QED
    BY <1>1, <1>2, <1>3, <1>4, <1>5, <1>6, <1>7 DEF CollapseNext

LEMMA CollapseInvariance == CollapseSpec => []CollapseIInv
  BY CollapseInitInv, CollapseNextInv, PTL DEF CollapseSpec

-----------------------------------------------------------------------------
(* Collapse: the properties.                                                *)

\* The variables of a call keep their types for every input.
THEOREM CollapseTypeCorrect == CollapseSpec => []CollapseTypeOK
  BY CollapseInvariance, PTL DEF CollapseIInv

\* The copy loop never reads past the bitmap or the column and never writes
\* past the result, whatever bytes the bitmap holds.
THEOREM CopiesAreInBounds == CollapseSpec => []CopiesInBounds
  <1>1. CollapseIInv => CopiesInBounds
    <2> SUFFICES ASSUME CollapseIInv, pc = "copy", i < size
                 PROVE  pos < N /\ pos < Len(src) /\ i < Len(out)
      BY DEF CopiesInBounds
    <2>1. pos < N
      BY CopyingIsInBounds
    <2>2. QED
      BY <2>1 DEF CollapseIInv, Loop
  <1>2. QED
    BY <1>1, CollapseInvariance, PTL

\* When the loop has all its rows, the rows behind it are the first of the
\* selection.
LEMMA DoneIsPrefix ==
  ASSUME CollapseIInv, pc = "done"
  PROVE  PrefixOfSelection /\ Len(out) = Popcount(bm)
  <1>1. /\ pos \in Nat /\ N \in Nat /\ pos =< N /\ size \in Nat /\ i = size
        /\ i = Cardinality(NonZero(bm, pos)) /\ Len(out) = size
        /\ size = Popcount(bm)
    BY DEF CollapseIInv, CollapseTypeOK, Loop, N
  <1> SUFFICES ASSUME NEW j \in NonZero(bm, N), Cardinality(NonZero(bm, j)) =< size
               PROVE  out[Cardinality(NonZero(bm, j))] = src[j]
    BY <1>1 DEF PrefixOfSelection
  <1>2. j \in 1..N /\ j \in Nat /\ j - 1 \in Nat /\ (j - 1) + 1 = j /\ bm[j] # Zeros
    BY <1>1 DEF NonZero
  <1>3. j =< pos
    <2> SUFFICES ASSUME pos < j PROVE FALSE
      BY <1>1, <1>2
    <2>1. Cardinality(NonZero(bm, j)) = Cardinality(NonZero(bm, j - 1)) + 1
      BY <1>2, NonZeroStep
    <2>2. pos =< j - 1
      BY <1>1, <1>2
    <2>3. size =< Cardinality(NonZero(bm, j - 1))
      BY <1>1, <1>2, <2>2, NonZeroMonotone
    <2>4. QED
      BY <1>1, <1>2, <2>1, <2>3, NonZeroFinite
  <1>4. j \in NonZero(bm, pos)
    BY <1>1, <1>2, <1>3 DEF NonZero
  <1>5. QED
    BY <1>4 DEF CollapseIInv, Copied

\* For every bitmap the result is a prefix of the selected rows, in order.
THEOREM ResultIsPrefix == CollapseSpec => []PrefixOfSelection
  <1>1. CollapseIInv => PrefixOfSelection
    BY DoneIsPrefix DEF PrefixOfSelection
  <1>2. QED
    BY <1>1, CollapseInvariance, PTL

\* For a bitmap of 0x00 and 0xff bytes it is the whole selection.
THEOREM CanonicalIsComplete == CollapseSpec => []CanonicalComplete
  <1>1. CollapseIInv => CanonicalComplete
    <2> SUFFICES ASSUME CollapseIInv, pc = "done", Canonical(bm)
                 PROVE  /\ Len(out) = Cardinality({j \in 1..N : bm[j] = Ones})
                        /\ \A j \in 1..N : bm[j] = Ones =>
                             out[Cardinality(NonZero(bm, j))] = src[j]
      BY DEF CanonicalComplete
    <2>1. bm \in Seq(Byte) /\ N \in Nat
      BY DEF CollapseIInv, CollapseTypeOK, N
    <2>2. /\ Popcount(bm) = Cardinality(NonZero(bm, N))
          /\ {j \in 1..N : bm[j] = Ones} = NonZero(bm, N)
      BY <2>1, PopcountCanonical DEF N
    <2>3. Len(out) = Cardinality(NonZero(bm, N))
      BY <2>2, DoneIsPrefix
    <2>4. ASSUME NEW j \in 1..N, bm[j] = Ones
          PROVE  out[Cardinality(NonZero(bm, j))] = src[j]
      <3>1. j \in NonZero(bm, N)
        BY <2>2, <2>4
      <3>2. Cardinality(NonZero(bm, j)) =< Len(out)
        BY <2>1, <2>3, NonZeroMonotone
      <3>3. QED
        BY <3>1, <3>2, DoneIsPrefix DEF PrefixOfSelection
    <2>5. QED
      BY <2>2, <2>3, <2>4
  <1>2. QED
    BY <1>1, CollapseInvariance, PTL

-----------------------------------------------------------------------------
(* SIndex: the inductive invariant.                                        *)

Active == call.pc \in {"wave", "tail", "done"}

Lengths == \A r \in Ref : Len(heap[r]) = Len(before[r])

SameLengths ==
  Active =>
    /\ Len(heap[call.left]) = Len(heap[call.right])
    /\ Len(heap[call.left]) = Len(heap[call.out])
    /\ call.pos =< Len(heap[call.left])

\* What the output holds in the middle of a call.
Progress ==
  Active =>
    \A j \in 1..Len(before[call.left]) :
      heap[call.out][j] =
        IF j =< call.pos
        THEN WaveByte(call.op, before[call.left][j], before[call.right][j])
        ELSE before[call.out][j]

Finished == call.pc = "done" => call.pos = Len(heap[call.left])

IInv ==
  /\ TypeOK
  /\ OthersUntouched
  /\ Lengths
  /\ SameLengths
  /\ Progress
  /\ Finished

-----------------------------------------------------------------------------
(* SIndex: bytes.                                                           *)

LEMMA WaveByteType ==
  ASSUME NEW op \in Binary \cup {"not"}, NEW l \in Byte, NEW r \in Byte
  PROVE  WaveByte(op, l, r) \in Byte
  BY DEF WaveByte, Binary, Byte, Ones

\* A register has the bits the operation keeps.
LEMMA WaveByteKeeps ==
  ASSUME NEW op \in Binary \cup {"not"}, NEW l, NEW r, NEW b \in Bit
  PROVE  b \in WaveByte(op, l, r) <=> Keeps(op, b, l, r)
  BY DEF WaveByte, Keeps, Binary, Ones

\* The two loops compute the same bytes.
LEMMA TailIsWave ==
  ASSUME NEW op \in Binary \cup {"not"}, NEW l \in Byte, NEW r \in Byte
  PROVE  TailByte(op, l, r) = WaveByte(op, l, r)
  BY DEF WaveByte, TailByte, Binary, Byte, Ones

\* Bytes of all zeros and all ones are closed under the operations.
LEMMA CanonicalByte ==
  ASSUME NEW op \in Binary \cup {"not"},
         NEW l \in {Zeros, Ones}, NEW r \in {Zeros, Ones}
  PROVE  WaveByte(op, l, r) \in {Zeros, Ones}
  BY DEF WaveByte, Binary, Zeros, Ones

-----------------------------------------------------------------------------
(* SIndex: the fields of an active call.                                    *)

LEMMA ActiveCall ==
  ASSUME TypeOK, Active
  PROVE  /\ call.op \in Binary \cup {"not"}
         /\ call.left \in Ref /\ call.right \in Ref /\ call.out \in Ref
         /\ call.pos \in Nat
         /\ call \in [pc: {"wave", "tail", "done"}, op: Binary \cup {"not"}, left: Ref,
                      right: Ref, index: Ref \cup {NoIndex}, out: Ref, pos: Nat]
  BY DEF TypeOK, Active, Call

LEMMA Cells ==
  ASSUME TypeOK, NEW r \in Ref
  PROVE  /\ heap[r] \in Seq(Byte) /\ before[r] \in Seq(Byte)
         /\ Len(heap[r]) \in Nat
         /\ DOMAIN heap[r] = 1..Len(heap[r])
         /\ \A j \in 1..Len(heap[r]) : heap[r][j] \in Byte
  BY DEF TypeOK

\* Storing a run of width bytes at the output pointer.
LEMMA StoreEffect ==
  ASSUME TypeOK, Active, NEW width \in Nat, NEW Bytes \in [1..width -> Byte],
         Store(Bytes)
  PROVE  /\ heap' \in [Ref -> Seq(Byte)]
         /\ \A r \in Ref : Len(heap'[r]) = Len(heap[r])
         /\ \A r \in Ref : r # call.out => heap'[r] = heap[r]
         /\ \A j \in 1..Len(heap[call.out]) :
              heap'[call.out][j] =
                IF call.pos < j /\ j =< call.pos + width
                THEN Bytes[j - call.pos] ELSE heap[call.out][j]
  <1> DEFINE o == call.out
             new == [j \in 1..Len(heap[o]) |->
                       IF j - call.pos \in 1..width
                       THEN Bytes[j - call.pos] ELSE heap[o][j]]
  <1>1. o \in Ref /\ call.pos \in Nat
    BY ActiveCall
  <1>2. /\ heap[o] \in Seq(Byte) /\ Len(heap[o]) \in Nat
        /\ DOMAIN heap[o] = 1..Len(heap[o])
        /\ \A j \in 1..Len(heap[o]) : heap[o][j] \in Byte
    BY <1>1, Cells
  <1>3. heap' = [heap EXCEPT ![o] = new]
    BY <1>2 DEF Store, Target
  <1>4. heap'[o] = new /\ \A r \in Ref : r # o => heap'[r] = heap[r]
    BY <1>1, <1>3 DEF TypeOK
  <1>5. \A j \in 1..Len(heap[o]) : new[j] \in Byte
    BY <1>2
  <1>6. new \in [1..Len(heap[o]) -> Byte]
    BY <1>5
  <1>7. new \in Seq(Byte) /\ Len(new) = Len(heap[o])
    BY <1>2, <1>6
  <1>8. heap' \in [Ref -> Seq(Byte)]
    BY <1>3, <1>7 DEF TypeOK
  <1>9. \A j \in 1..Len(heap[o]) :
          new[j] = IF call.pos < j /\ j =< call.pos + width
                   THEN Bytes[j - call.pos] ELSE heap[o][j]
    BY <1>1, <1>2
  <1>10. QED
    BY <1>4, <1>7, <1>8, <1>9

\* A run of bytes computed from operands and stored keeps the invariant.
LEMMA LoopKeeps ==
  ASSUME IInv, NEW width \in Nat, NEW Bytes, NEW pc2 \in {"wave", "tail"},
         call.pc = pc2,
         call.pos + width =< Len(heap[call.left]),
         Bytes = [k \in 1..width |->
                    WaveByte(call.op, Left(call.pos + k), Right(call.pos + k))],
         Store(Bytes),
         call' = [call EXCEPT !.pos = @ + width],
         before' = before
  PROVE  IInv'
  <1> DEFINE o == call.out  l == call.left  r == call.right  p == call.pos
  <1>0. TypeOK /\ Active
    BY DEF IInv, Active
  <1>1. /\ call.op \in Binary \cup {"not"}
        /\ l \in Ref /\ r \in Ref /\ o \in Ref /\ p \in Nat
    BY <1>0, ActiveCall
  <1>2. /\ Len(heap[l]) = Len(heap[r]) /\ Len(heap[l]) = Len(heap[o])
        /\ p =< Len(heap[l])
        /\ Len(heap[l]) \in Nat
        /\ Len(before[l]) = Len(heap[l])
    BY <1>0, <1>1, Cells DEF IInv, SameLengths, Lengths
  <1>3. \A k \in 1..width : p + k \in 1..Len(heap[l])
    BY <1>1, <1>2
  <1>4. \A k \in 1..width : Left(p + k) \in Byte /\ Right(p + k) \in Byte
    BY <1>0, <1>1, <1>2, <1>3, Cells DEF Left, Right
  <1>5. Bytes \in [1..width -> Byte]
    BY <1>1, <1>4, WaveByteType
  <1>6. /\ heap' \in [Ref -> Seq(Byte)]
        /\ \A q \in Ref : Len(heap'[q]) = Len(heap[q])
        /\ \A q \in Ref : q # o => heap'[q] = heap[q]
        /\ \A j \in 1..Len(heap[o]) :
             heap'[o][j] = IF p < j /\ j =< p + width THEN Bytes[j - p] ELSE heap[o][j]
    BY <1>0, <1>5, StoreEffect
  <1>7. /\ call'.pc = call.pc /\ call'.op = call.op /\ call'.left = l
        /\ call'.right = r /\ call'.out = o /\ call'.pos = p + width
        /\ call' \in [pc: {"wave", "tail", "done"}, op: Binary \cup {"not"}, left: Ref,
                      right: Ref, index: Ref \cup {NoIndex}, out: Ref, pos: Nat]
    BY <1>0, <1>1, ActiveCall
  <1>8. TypeOK'
    BY <1>0, <1>6, <1>7 DEF TypeOK, Call
  <1>9. OthersUntouched'
    BY <1>6, <1>7 DEF IInv, OthersUntouched
  <1>10. Lengths'
    BY <1>6 DEF IInv, Lengths
  <1>11. SameLengths'
    BY <1>1, <1>2, <1>6, <1>7 DEF SameLengths
  <1>12. ASSUME NEW j \in 1..Len(before[l])
         PROVE  heap'[o][j] = IF j =< p + width
                              THEN WaveByte(call.op, before[l][j], before[r][j])
                              ELSE before[o][j]
    <2>1. heap[o][j] = IF j =< p THEN WaveByte(call.op, before[l][j], before[r][j])
                                 ELSE before[o][j]
      BY <1>0 DEF IInv, Progress
    <2>0. j \in 1..Len(heap[o]) /\ j \in Nat /\ p \in Nat
      BY <1>1, <1>2
    <2>2. CASE j =< p
      <3>1. ~(p < j) /\ j =< p + width
        BY <2>0, <2>2
      <3>2. heap'[o][j] = heap[o][j]
        BY <1>6, <2>0, <3>1
      <3>3. QED
        BY <2>1, <2>2, <3>1, <3>2
    <2>3. CASE p < j /\ j =< p + width
      <3>1. j - p \in 1..width /\ p + (j - p) = j
        BY <1>1, <1>2, <2>3
      <3>2. heap'[o][j] = WaveByte(call.op, heap[l][j], heap[r][j])
        BY <1>2, <1>6, <2>3, <3>1 DEF Left, Right
      <3>3. \A q \in Ref : q # o => heap[q] = before[q]
        BY <1>0 DEF IInv, OthersUntouched, Active
      <3>4. heap[o][j] = before[o][j]
        BY <1>1, <2>1, <2>3
      <3>5. heap[l][j] = before[l][j] /\ heap[r][j] = before[r][j]
        BY <1>1, <3>3, <3>4
      <3>6. QED
        BY <2>3, <3>2, <3>5
    <2>4. CASE p + width < j
      <3>1. ~(j =< p) /\ ~(j =< p + width)
        BY <2>0, <2>4
      <3>2. heap'[o][j] = heap[o][j]
        BY <1>6, <2>0, <3>1
      <3>3. QED
        BY <2>1, <3>1, <3>2
    <2>5. QED
      BY <2>0, <2>2, <2>3, <2>4
  <1>13. Progress'
    BY <1>7, <1>12 DEF Progress
  <1>14. Finished'
    BY <1>7 DEF Finished
  <1>15. QED
    BY <1>8, <1>9, <1>10, <1>11, <1>13, <1>14 DEF IInv

-----------------------------------------------------------------------------
(* SIndex: the actions.                                                     *)

\* The state a call begins in.
LEMMA CallBegins ==
  ASSUME IInv, NEW op \in Binary \cup {"not"}, NEW left \in Ref, NEW right \in Ref,
         NEW index \in Ref \cup {NoIndex}, NEW dst \in Ref,
         Len(heap[left]) = Len(heap[right]), Len(heap[left]) = Len(heap[dst]),
         call' = [pc |-> "wave", op |-> op, left |-> left, right |-> right,
                  index |-> index, out |-> dst, pos |-> 0],
         before' = heap, heap' = heap
  PROVE  IInv'
  <1>1. TypeOK'
    BY DEF IInv, TypeOK, Call
  <1>2. OthersUntouched' /\ Lengths' /\ Finished'
    BY DEF OthersUntouched, Lengths, Finished
  <1>3. Len(heap[left]) \in Nat
    BY Cells DEF IInv
  <1>4. SameLengths'
    <2>1. call'.left = left /\ call'.right = right /\ call'.out = dst /\ call'.pos = 0
      OBVIOUS
    <2>2. heap' = heap
      OBVIOUS
    <2>3. /\ Len(heap'[call'.left]) = Len(heap'[call'.right])
          /\ Len(heap'[call'.left]) = Len(heap'[call'.out])
      BY <2>1, <2>2
    <2>4. call'.pos =< Len(heap'[call'.left])
      BY <1>3, <2>1, <2>2
    <2>5. QED
      BY <2>3, <2>4 DEF SameLengths
  <1>5. Progress'
    BY <1>3 DEF Progress
  <1>6. QED
    BY <1>1, <1>2, <1>4, <1>5 DEF IInv

LEMMA RefuseKeeps ==
  ASSUME IInv, NEW left \in Ref, NEW right \in Ref, NEW index \in Ref \cup {NoIndex},
         Refuse(left, right, index)
  PROVE  IInv'
  BY DEF IInv, Refuse, TypeOK, Call, OthersUntouched, Lengths, SameLengths, Progress,
         Finished, Active

LEMMA StartKeeps ==
  ASSUME IInv, NEW op \in Binary, NEW left \in Ref, NEW right \in Ref,
         NEW index \in Ref \cup {NoIndex}, Start(op, left, right, index)
  PROVE  IInv'
  <1> DEFINE dst == IF index = NoIndex THEN left ELSE index
  <1>1. dst \in Ref
    OBVIOUS
  <1>2. Len(heap[left]) = Len(heap[right]) /\ Len(heap[left]) = Len(heap[dst])
    BY DEF Start, SameLength, Output
  <1>3. /\ call' = [pc |-> "wave", op |-> op, left |-> left, right |-> right,
                    index |-> index, out |-> dst, pos |-> 0]
        /\ before' = heap /\ heap' = heap
    BY DEF Start, Output
  <1> HIDE DEF dst
  <1>4. QED
    BY <1>1, <1>2, <1>3, CallBegins

LEMMA StartNotKeeps ==
  ASSUME IInv, NEW a \in Ref, StartNot(a)
  PROVE  IInv'
  BY CallBegins DEF StartNot

LEMMA WaveKeeps ==
  ASSUME IInv, Wave
  PROVE  IInv'
  <1> DEFINE bytes == [k \in 1..WaveBytes |->
                         WaveByte(call.op, Left(call.pos + k), Right(call.pos + k))]
  <1>1. /\ call.pc = "wave" /\ call.pos + WaveBytes =< Len(heap[call.left])
        /\ Store(bytes) /\ call' = [call EXCEPT !.pos = @ + WaveBytes]
        /\ before' = before
    BY DEF Wave, HasWave, Advance
  <1>2. WaveBytes \in Nat
    BY WaveBytesAssumption
  <1> HIDE DEF bytes
  <1>3. bytes = [k \in 1..WaveBytes |->
                   WaveByte(call.op, Left(call.pos + k), Right(call.pos + k))]
    BY DEF bytes
  <1>4. QED
    BY <1>1, <1>2, <1>3, LoopKeeps

LEMMA EndWavesKeeps ==
  ASSUME IInv, EndWaves
  PROVE  IInv'
  <1>0. TypeOK /\ Active /\ Active'
    BY DEF IInv, Active, EndWaves, TypeOK, Call
  <1>1. /\ call'.pc = "tail" /\ call'.op = call.op /\ call'.left = call.left
        /\ call'.right = call.right /\ call'.out = call.out /\ call'.pos = call.pos
        /\ call' \in Call
    BY <1>0, ActiveCall DEF EndWaves, Call
  <1>2. TypeOK'
    BY <1>0, <1>1 DEF TypeOK, EndWaves
  <1>3. OthersUntouched' /\ Lengths' /\ SameLengths' /\ Progress' /\ Finished'
    BY <1>0, <1>1 DEF IInv, EndWaves, OthersUntouched, Lengths, SameLengths, Progress,
                      Finished, Active
  <1>4. QED
    BY <1>2, <1>3 DEF IInv

LEMMA TailKeeps ==
  ASSUME IInv, Tail1
  PROVE  IInv'
  <1> DEFINE bytes == [k \in 1..1 |->
                         WaveByte(call.op, Left(call.pos + k), Right(call.pos + k))]
  <1>0. TypeOK /\ Active /\ call.pc = "tail"
    BY DEF IInv, Active, Tail1
  <1>1. /\ call.left \in Ref /\ call.right \in Ref /\ call.out \in Ref /\ call.pos \in Nat
        /\ call.op \in Binary \cup {"not"}
    BY <1>0, ActiveCall
  <1>2. /\ Len(heap[call.left]) = Len(heap[call.right])
        /\ Len(heap[call.left]) \in Nat
        /\ call.pos < Len(heap[call.left])
    BY <1>0, <1>1, Cells DEF IInv, SameLengths, Tail1
  <1>3. call.pos + 1 \in 1..Len(heap[call.left])
    BY <1>1, <1>2
  <1>4. Left(call.pos + 1) \in Byte /\ Right(call.pos + 1) \in Byte
    BY <1>0, <1>1, <1>2, <1>3, Cells DEF Left, Right
  <1>5. [k \in 1..1 |-> TailByte(call.op, Left(call.pos + k), Right(call.pos + k))]
          = bytes
    <2>1. ASSUME NEW k \in 1..1
          PROVE  TailByte(call.op, Left(call.pos + k), Right(call.pos + k))
                   = WaveByte(call.op, Left(call.pos + k), Right(call.pos + k))
      <3>1. k = 1
        OBVIOUS
      <3>2. QED
        BY <1>1, <1>4, <3>1, TailIsWave
    <2>2. QED
      BY <2>1
  <1>6. /\ call.pos + 1 =< Len(heap[call.left])
        /\ Store(bytes) /\ call' = [call EXCEPT !.pos = @ + 1]
        /\ before' = before
    BY <1>1, <1>2, <1>5 DEF Tail1
  <1> HIDE DEF bytes
  <1>7. bytes = [k \in 1..1 |->
                   WaveByte(call.op, Left(call.pos + k), Right(call.pos + k))]
    BY DEF bytes
  <1>8. QED
    BY <1>0, <1>6, <1>7, LoopKeeps

LEMMA ReturnKeeps ==
  ASSUME IInv, Return
  PROVE  IInv'
  <1>0. TypeOK /\ Active
    BY DEF IInv, Active, Return
  <1>1. /\ call'.pc = "done" /\ call'.op = call.op /\ call'.left = call.left
        /\ call'.right = call.right /\ call'.out = call.out /\ call'.pos = call.pos
        /\ call' \in Call
    BY <1>0, ActiveCall DEF Return, Call
  <1>2. TypeOK'
    BY <1>0, <1>1 DEF TypeOK, Return
  <1>3. OthersUntouched' /\ Lengths' /\ SameLengths' /\ Progress'
    BY <1>0, <1>1 DEF IInv, Return, OthersUntouched, Lengths, SameLengths, Progress,
                      Active
  <1>4. call.left \in Ref /\ call.pos \in Nat /\ Len(heap[call.left]) \in Nat
    BY <1>0, ActiveCall, Cells
  <1>5. Finished'
    BY <1>0, <1>1, <1>4 DEF IInv, SameLengths, Finished, Return
  <1>6. QED
    BY <1>2, <1>3, <1>5 DEF IInv

LEMMA InitIInv == Init => IInv
  BY HeapsAssumption DEF Init, IInv, TypeOK, Call, OthersUntouched, Lengths, SameLengths,
     Progress, Finished, Active

LEMMA StepIInv == IInv /\ [Next]_vars => IInv'
  <1> SUFFICES ASSUME IInv, [Next]_vars PROVE IInv'
    OBVIOUS
  <1>1. CASE \E left, right \in Ref, index \in Ref \cup {NoIndex} :
               \/ Refuse(left, right, index)
               \/ \E op \in Binary : Start(op, left, right, index)
    BY <1>1, RefuseKeeps, StartKeeps
  <1>2. CASE \E a \in Ref : StartNot(a)
    BY <1>2, StartNotKeeps
  <1>3. CASE LoopStep
    BY <1>3, WaveKeeps, EndWavesKeeps, TailKeeps, ReturnKeeps DEF LoopStep
  <1>4. CASE UNCHANGED vars
    BY <1>4 DEF vars, IInv, TypeOK, OthersUntouched, Lengths, SameLengths, Progress,
                Finished, Active
  <1>5. QED
    BY <1>1, <1>2, <1>3, <1>4 DEF Next

THEOREM Inductive == Spec => []IInv
  BY InitIInv, StepIInv, PTL DEF Spec

-----------------------------------------------------------------------------
(* SIndex: the results.                                                     *)

\* The bitmaps and the locals of a call have their types.
THEOREM TypeCorrect == Spec => []TypeOK
  <1>1. IInv => TypeOK
    BY DEF IInv
  <1>2. QED
    BY <1>1, Inductive, PTL

\* The loops read and write inside all three bitmaps, whatever their lengths.
THEOREM AccessesInBounds == Spec => []AccessInBounds
  <1>1. ASSUME IInv PROVE AccessInBounds
    <2>1. CASE Active
      BY <1>1, <2>1 DEF IInv, SameLengths, AccessInBounds, HasWave
    <2>2. CASE ~Active
      BY <2>2 DEF Active, AccessInBounds
    <2>3. QED
      BY <2>1, <2>2
  <1>2. QED
    BY <1>1, Inductive, PTL

\* A call gives, bit by bit, what the operation keeps of the operands it was
\* called with, even when it overwrites them.
THEOREM ResultIsExact == Spec => []ResultExact
  <1>1. ASSUME IInv, call.pc = "done"
        PROVE  LET l == before[call.left]
                   r == before[call.right]
               IN  /\ Len(heap[call.out]) = Len(l)
                   /\ \A j \in 1..Len(l), b \in Bit :
                        b \in heap[call.out][j] <=> Keeps(call.op, b, l[j], r[j])
    <2>1. TypeOK /\ Active
      BY <1>1 DEF IInv, Active
    <2>2. call.op \in Binary \cup {"not"} /\ call.left \in Ref /\ call.out \in Ref
      BY <2>1, ActiveCall
    <2>3. /\ Len(heap[call.out]) = Len(before[call.left])
          /\ call.pos = Len(before[call.left])
          /\ Len(before[call.left]) \in Nat
      BY <1>1, <2>1, <2>2, Cells DEF IInv, SameLengths, Lengths, Finished
    <2>4. \A j \in 1..Len(before[call.left]) :
            heap[call.out][j] =
              WaveByte(call.op, before[call.left][j], before[call.right][j])
      BY <1>1, <2>1, <2>3 DEF IInv, Progress
    <2>5. ASSUME NEW j \in 1..Len(before[call.left]), NEW b \in Bit
          PROVE  b \in heap[call.out][j] <=>
                   Keeps(call.op, b, before[call.left][j], before[call.right][j])
      <3>1. b \in WaveByte(call.op, before[call.left][j], before[call.right][j]) <=>
              Keeps(call.op, b, before[call.left][j], before[call.right][j])
        BY <2>2, WaveByteKeeps
      <3>2. QED
        BY <2>4, <3>1
    <2>6. QED
      BY <2>3, <2>5
  <1>2. IInv => ResultExact
    BY <1>1 DEF ResultExact
  <1>3. QED
    BY <1>2, Inductive, PTL

\* A call changes its output and no other bitmap.
THEOREM OthersAreUntouched == Spec => []OthersUntouched
  <1>1. IInv => OthersUntouched
    BY DEF IInv
  <1>2. QED
    BY <1>1, Inductive, PTL

AllCanonical == \A r \in Ref : Canonical(heap[r])

LEMMA StoreCanonical ==
  ASSUME TypeOK, Active, AllCanonical, NEW width \in Nat,
         NEW Bytes \in [1..width -> {Zeros, Ones}], Store(Bytes)
  PROVE  AllCanonical'
  <1>1. call.out \in Ref /\ call.pos \in Nat
    BY ActiveCall
  <1>2. Bytes \in [1..width -> Byte]
    BY DEF Byte, Zeros, Ones
  <1>3. /\ heap' \in [Ref -> Seq(Byte)]
        /\ \A r \in Ref : Len(heap'[r]) = Len(heap[r])
        /\ \A r \in Ref : r # call.out => heap'[r] = heap[r]
        /\ \A j \in 1..Len(heap[call.out]) :
             heap'[call.out][j] =
               IF call.pos < j /\ j =< call.pos + width
               THEN Bytes[j - call.pos] ELSE heap[call.out][j]
    BY <1>2, StoreEffect
  <1>4. ASSUME NEW j \in DOMAIN heap'[call.out]
        PROVE  heap'[call.out][j] \in {Zeros, Ones}
    <2>1. DOMAIN heap'[call.out] = 1..Len(heap[call.out])
      BY <1>1, <1>3
    <2>2. j \in 1..Len(heap[call.out]) /\ Len(heap[call.out]) \in Nat
      BY <1>1, <2>1, Cells
    <2>3. CASE call.pos < j /\ j =< call.pos + width
      <3>1. j - call.pos \in 1..width
        BY <1>1, <2>2, <2>3
      <3>2. QED
        BY <1>3, <2>2, <2>3, <3>1
    <2>4. CASE ~(call.pos < j /\ j =< call.pos + width)
      <3>1. heap[call.out][j] \in {Zeros, Ones}
        BY <1>1, <2>2, Cells DEF AllCanonical, Canonical
      <3>2. QED
        BY <1>3, <2>2, <2>4, <3>1
    <2>5. QED
      BY <2>3, <2>4
  <1>5. QED
    BY <1>3, <1>4 DEF AllCanonical, Canonical

LEMMA OperandsCanonical ==
  ASSUME TypeOK, Active, AllCanonical, NEW r \in Ref, NEW j \in 1..Len(heap[r])
  PROVE  heap[r][j] \in {Zeros, Ones}
  BY Cells DEF AllCanonical, Canonical

LEMMA StepCanonical ==
  ASSUME IInv, AllCanonical, [Next]_vars
  PROVE  AllCanonical'
  <1>1. CASE heap' = heap
    BY <1>1 DEF AllCanonical
  <1>2. ASSUME NEW width \in Nat, Active,
               call.pos + width =< Len(heap[call.left]),
               Store([k \in 1..width |->
                        WaveByte(call.op, Left(call.pos + k), Right(call.pos + k))])
        PROVE  AllCanonical'
    <2>0. TypeOK
      BY DEF IInv
    <2>1. /\ call.left \in Ref /\ call.right \in Ref /\ call.pos \in Nat
          /\ call.op \in Binary \cup {"not"}
      BY <1>2, <2>0, ActiveCall
    <2>2. /\ Len(heap[call.left]) = Len(heap[call.right])
          /\ Len(heap[call.left]) \in Nat
      BY <1>2, <2>0, <2>1, Cells DEF IInv, SameLengths
    <2>3. \A k \in 1..width : call.pos + k \in 1..Len(heap[call.left])
      BY <1>2, <2>1, <2>2
    <2>4. \A k \in 1..width : /\ Left(call.pos + k) \in {Zeros, Ones}
                             /\ Right(call.pos + k) \in {Zeros, Ones}
      BY <1>2, <2>0, <2>1, <2>2, <2>3, OperandsCanonical DEF Left, Right
    <2>5. \A k \in 1..width :
            WaveByte(call.op, Left(call.pos + k), Right(call.pos + k)) \in {Zeros, Ones}
      BY <2>1, <2>4, CanonicalByte
    <2>6. [k \in 1..width |->
             WaveByte(call.op, Left(call.pos + k), Right(call.pos + k))]
            \in [1..width -> {Zeros, Ones}]
      BY <2>5
    <2>7. QED
      BY <1>2, <2>0, <2>6, StoreCanonical
  <1>3. CASE Wave
    BY <1>2, <1>3, WaveBytesAssumption DEF Wave, HasWave, Active, Advance
  <1>4. CASE Tail1
    <2>0. TypeOK /\ Active
      BY <1>4 DEF IInv, Tail1, Active
    <2>1. /\ call.left \in Ref /\ call.right \in Ref /\ call.pos \in Nat
          /\ call.op \in Binary \cup {"not"}
      BY <2>0, ActiveCall
    <2>2. /\ Len(heap[call.left]) = Len(heap[call.right])
          /\ Len(heap[call.left]) \in Nat
          /\ call.pos < Len(heap[call.left])
      BY <1>4, <2>0, <2>1, Cells DEF IInv, SameLengths, Tail1
    <2>3. call.pos + 1 \in 1..Len(heap[call.left])
      BY <2>1, <2>2
    <2>4. Left(call.pos + 1) \in Byte /\ Right(call.pos + 1) \in Byte
      BY <2>0, <2>1, <2>2, <2>3, Cells DEF Left, Right
    <2>5. ASSUME NEW k \in 1..1
          PROVE  TailByte(call.op, Left(call.pos + k), Right(call.pos + k))
                   = WaveByte(call.op, Left(call.pos + k), Right(call.pos + k))
      <3>1. k = 1
        OBVIOUS
      <3>2. QED
        BY <2>1, <2>4, <3>1, TailIsWave
    <2>6. [k \in 1..1 |-> TailByte(call.op, Left(call.pos + k), Right(call.pos + k))]
            = [k \in 1..1 |-> WaveByte(call.op, Left(call.pos + k), Right(call.pos + k))]
      BY <2>5
    <2>7. call.pos + 1 =< Len(heap[call.left])
      BY <2>1, <2>2
    <2>8. QED
      BY <1>2, <1>4, <2>0, <2>6, <2>7 DEF Tail1
  <1>5. CASE ~(Wave \/ Tail1)
    <2>1. heap' = heap
      BY <1>5 DEF Next, LoopStep, Refuse, Start, StartNot, EndWaves, Return, vars
    <2>2. QED
      BY <1>1, <2>1
  <1>6. QED
    BY <1>3, <1>4, <1>5

\* Logic on bitmaps of 0x00 and 0xff bytes gives such bitmaps, step by step.
THEOREM CanonicalIsKept == Spec => CanonicalKept
  <1>1. IInv /\ [Next]_vars =>
          [(\A r \in Ref : Canonical(heap[r])) => \A r \in Ref : Canonical(heap'[r])]_vars
    BY StepCanonical DEF AllCanonical
  <1>2. QED
    BY <1>1, Inductive, PTL DEF Spec, CanonicalKept

=============================================================================
