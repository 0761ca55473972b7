-------------------------- MODULE SelectKernelProofs --------------------------
(***************************************************************************)
(* What SelectKernel promises for every set of calls: columns and bitmaps  *)
(* of every length, every class and operator.  One inductive invariant     *)
(* says where the two pointers are in each loop and that every byte stored *)
(* so far is the one KernelBit gives; the properties follow from it.       *)
(***************************************************************************)
EXTENDS SelectKernel, TLAPS

\* The byte the whole call is to store for row j.
RowByte(j) ==
  Byte(KernelBit(call.cls, call.op, N, j, call.v[j], call.value))

\* Where the loops are.
Position ==
  /\ inp = outp
  /\ pc = "check" => w = 0 /\ i = 0 /\ outp = 0 /\ result = "none"
  /\ pc = "wave"  => w =< Waves /\ i = 0 /\ outp = L * w /\ result = "none"
  /\ pc = "tail"  => i =< Iter /\ outp = L * Waves + i /\ result = "none"
  /\ pc \in {"wave", "tail"} => call.aligned
  /\ pc = "done" /\ result = "out" => outp = N
  /\ pc = "done" /\ result = "nil" => outp = 0
  /\ pc = "done" => result # "none"
  /\ outp # 0 \/ pc \in {"wave", "tail"} \/ result = "out" => call.outlen = N

\* What has been stored, and that nothing else has been touched.
Stores ==
  /\ \A j \in 1..outp : out[j] = RowByte(j)
  /\ \A j \in DOMAIN out : j > outp => out[j] = "old"

IInv == TypeOK /\ Position /\ Stores

-----------------------------------------------------------------------------
(* The lane comparisons and the tail against what the operators mean.       *)

LEMMA LaneBitIsHolds ==
  ASSUME NEW op \in OpName, NEW x \in Cell, NEW y \in Cell
  PROVE  LaneBit(op, x, y) <=> Holds(op, x, y)
  <1>1. CASE op = "eq"
    BY <1>1 DEF LaneBit, Holds, LaneEq
  <1>2. CASE op = "lt"
    BY <1>2 DEF LaneBit, Holds, LaneLt
  <1>3. CASE op = "gt"
    BY <1>3 DEF LaneBit, Holds, LaneGt
  <1>4. CASE op = "ge"
    BY <1>4 DEF LaneBit, Holds, LaneGe, LaneEq, LaneGt
  <1>5. CASE op = "le"
    BY <1>5 DEF LaneBit, Holds, LaneLe, LaneEq, LaneLt
  <1>6. QED
    BY <1>1, <1>2, <1>3, <1>4, <1>5 DEF OpName

LEMMA TailBitIsEquality ==
  ASSUME NEW x \in Cell, NEW y \in Cell
  PROVE  /\ TailBit("eq", x, y) <=> Holds("eq", x, y)
         /\ \A op \in {"eq", "ge", "le"} : TailBit(op, x, y) => Holds(op, x, y)
BY NaNAssumption DEF Cell, TailBit, LaneEq, Holds

LEMMA DivMod ==
  ASSUME NEW n \in Nat, NEW d \in {2, 4}
  PROVE  n \div d \in Nat /\ n % d \in 0..(d - 1) /\ n = d * (n \div d) + (n % d)
  <1>1. CASE d = 2
    <2>1. n \div 2 \in Nat
      OBVIOUS
    <2>2. n % 2 \in 0..1 /\ n = 2 * (n \div 2) + (n % 2)
      OBVIOUS
    <2>3. QED
      BY <1>1, <2>1, <2>2
  <1>2. CASE d = 4
    <2>1. n \div 4 \in Nat
      OBVIOUS
    <2>2. n % 4 \in 0..3 /\ n = 4 * (n \div 4) + (n % 4)
      OBVIOUS
    <2>3. QED
      BY <1>2, <2>1, <2>2
  <1>3. QED
    BY <1>1, <1>2

\* The facts about lengths that the loop arithmetic needs.
LEMMA Lengths ==
  ASSUME call \in Call
  PROVE  /\ N \in Nat /\ L \in {2, 4} /\ Waves \in Nat /\ Iter \in Nat
         /\ Iter < L
         /\ N = L * Waves + Iter
         /\ Bulk(call.cls, N) = L * Waves
         /\ L * Waves \in Nat
         /\ \A k \in Nat : k < Waves => L * k + L =< L * Waves
         /\ \A k \in Nat : L * (k + 1) = L * k + L
  <1>1. N \in Nat
    BY DEF Call, N
  <1>2. L \in {2, 4}
    BY DEF L, Lanes
  <1>3. CASE L = 2
    <2>1. Waves = N \div 2 /\ Iter = N % 2
      BY <1>3 DEF Waves, Iter
    <2>2. N \div 2 \in Nat /\ N % 2 \in 0..1 /\ N = 2 * (N \div 2) + (N % 2)
      BY <1>1, DivMod
    <2>3. QED
      BY <1>1, <1>3, <2>1, <2>2 DEF Bulk, L, Waves
  <1>4. CASE L = 4
    <2>1. Waves = N \div 4 /\ Iter = N % 4
      BY <1>4 DEF Waves, Iter
    <2>2. N \div 4 \in Nat /\ N % 4 \in 0..3 /\ N = 4 * (N \div 4) + (N % 4)
      BY <1>1, DivMod
    <2>3. QED
      BY <1>1, <1>4, <2>1, <2>2 DEF Bulk, L, Waves
  <1>5. QED
    BY <1>2, <1>3, <1>4

-----------------------------------------------------------------------------
(* The invariant is inductive: one step per action.                         *)

LEMMA InitInv == Init => IInv
  <1> SUFFICES ASSUME Init PROVE IInv
    OBVIOUS
  <1>1. call \in Call
    BY CallsAssumption DEF Init
  <1>2. call.outlen \in Nat
    BY <1>1 DEF Call
  <1>3. TypeOK
    BY <1>1, <1>2 DEF Init, TypeOK
  <1>4. Position
    BY DEF Init, Position
  <1>5. Stores
    BY <1>2 DEF Init, Stores
  <1>6. QED
    BY <1>3, <1>4, <1>5 DEF IInv

\* A store of k bytes at outp, each the byte of its row, keeps Stores.
LEMMA StoredKeepsStores ==
  ASSUME IInv, NEW k \in Nat, call.outlen = N, outp + k =< N,
         NEW bytes,
         DOMAIN bytes = 1..k,
         \A j \in 1..k : bytes[j] = RowByte(outp + j),
         out' = Stored(bytes), outp' = outp + k, UNCHANGED call
  PROVE  Stores' /\ out' \in [1..call.outlen -> {"old", "00", "ff"}]
  <1>1. outp \in Nat /\ N \in Nat /\ DOMAIN out = 1..N
    BY Lengths DEF IInv, TypeOK
  <1>2. \A j : RowByte(j)' = RowByte(j)
    BY DEF RowByte, N
  <1>3. out' = [j \in 1..N |-> IF j - outp \in 1..k THEN bytes[j - outp] ELSE out[j]]
    BY <1>1 DEF Stored
  <1>4. \A j \in 1..outp + k : out'[j] = RowByte(j)
    <2> TAKE j \in 1..outp + k
    <2>1. j \in 1..N
      BY <1>1
    <2>2. CASE j =< outp
      BY <1>1, <1>3, <2>1, <2>2 DEF IInv, Stores
    <2>3. CASE j > outp
      <3>1. j - outp \in 1..k /\ outp + (j - outp) = j
        BY <1>1, <2>3
      <3>2. QED
        BY <1>3, <2>1, <3>1
    <2>4. QED
      BY <1>1, <2>2, <2>3
  <1>5. \A j \in 1..N : j > outp + k => out'[j] = "old"
    BY <1>1, <1>3 DEF IInv, Stores
  <1>6. \A j \in 1..k : bytes[j] \in {"00", "ff"}
    BY DEF RowByte, Byte
  <1>7. out' \in [1..N -> {"old", "00", "ff"}]
    BY <1>1, <1>3, <1>6 DEF IInv, TypeOK
  <1>8. QED
    BY <1>1, <1>2, <1>4, <1>5, <1>7 DEF Stores

LEMMA NextInv == IInv /\ [Next]_vars => IInv'
  <1> SUFFICES ASSUME IInv, [Next]_vars PROVE IInv'
    OBVIOUS
  <1>1. CASE Reject
    <2>1. TypeOK'
      BY <1>1 DEF IInv, TypeOK, Reject
    <2>2. Position'
      BY <1>1 DEF IInv, Position, Reject, L, N, Waves, Iter
    <2>3. Stores'
      BY <1>1 DEF IInv, Stores, Reject, RowByte, N
    <2>4. QED
      BY <2>1, <2>2, <2>3 DEF IInv
  <1>2. CASE Accept
    <2>1. TypeOK'
      BY <1>2 DEF IInv, TypeOK, Accept
    <2>2. L' = L /\ N' = N /\ Waves' = Waves /\ Iter' = Iter
      BY <1>2 DEF Accept, L, N, Waves, Iter
    <2>3. L \in {2, 4} /\ Waves \in Nat
      BY Lengths DEF IInv, TypeOK
    <2>4. L * 0 = 0 /\ 0 =< Waves
      BY <2>3
    <2>5. call.outlen = N /\ call.aligned /\ call' = call
      BY <1>2 DEF Accept, Rejected
    <2>6. Position'
      BY <1>2, <2>2, <2>4, <2>5 DEF IInv, Position, Accept
    <2>7. Stores'
      BY <1>2 DEF IInv, Stores, Accept, RowByte, N
    <2>8. QED
      BY <2>1, <2>6, <2>7 DEF IInv
  <1>3. CASE Wave
    <2> DEFINE bytes == [k \in 1..L |-> Byte(LaneBit(call.op, call.v[inp + k], call.value))]
    <2>1. /\ L \in Nat /\ N \in Nat /\ Waves \in Nat /\ w \in Nat /\ outp \in Nat
          /\ inp = outp /\ outp = L * w /\ call.outlen = N
          /\ L * w + L =< L * Waves
          /\ L * Waves =< N
          /\ L * (w + 1) = outp + L
          /\ Bulk(call.cls, N) = L * Waves
      <3>1. /\ L \in {2, 4} /\ N \in Nat /\ Waves \in Nat /\ Iter \in Nat
            /\ N = L * Waves + Iter /\ L * Waves \in Nat
            /\ Bulk(call.cls, N) = L * Waves
            /\ \A k \in Nat : k < Waves => L * k + L =< L * Waves
            /\ \A k \in Nat : L * (k + 1) = L * k + L
        BY Lengths DEF IInv, TypeOK
      <3>2. /\ w \in Nat /\ w < Waves /\ outp \in Nat
            /\ inp = outp /\ outp = L * w /\ call.outlen = N
        BY <1>3 DEF IInv, TypeOK, Position, Wave
      <3>3. L * w + L =< L * Waves /\ L * (w + 1) = L * w + L
        BY <3>1, <3>2
      <3>4. L * Waves =< N /\ L \in Nat
        BY <3>1
      <3>5. QED
        BY <3>1, <3>2, <3>3, <3>4
    <2>2. \A j \in 1..L : bytes[j] = RowByte(outp + j)
      BY <2>1 DEF RowByte, KernelBit
    <2>3. /\ out' = Stored(bytes) /\ outp' = outp + L /\ UNCHANGED call
          /\ inp' = inp + L /\ w' = w + 1 /\ UNCHANGED <<pc, i, result>>
          /\ pc = "wave" /\ w < Waves
      BY <1>3 DEF Wave
    <2>4. Stores' /\ out' \in [1..call.outlen -> {"old", "00", "ff"}]
      <3>1. DOMAIN bytes = 1..L
        OBVIOUS
      <3> HIDE DEF bytes
      <3>2. QED
        BY <2>1, <2>2, <2>3, <3>1, StoredKeepsStores
    <2>5. TypeOK'
      BY <2>1, <2>3, <2>4 DEF IInv, TypeOK
    <2>6. L' = L /\ N' = N /\ Waves' = Waves /\ Iter' = Iter
      BY <2>3 DEF L, N, Waves, Iter
    <2>7. Position'
      BY <2>1, <2>3, <2>6 DEF IInv, TypeOK, Position
    <2>8. QED
      BY <2>4, <2>5, <2>7 DEF IInv
  <1>4. CASE EndWaves
    <2>1. TypeOK'
      BY <1>4 DEF IInv, TypeOK, EndWaves
    <2>2. L' = L /\ N' = N /\ Waves' = Waves /\ Iter' = Iter
      BY <1>4 DEF EndWaves, L, N, Waves, Iter
    <2>3. /\ w = Waves /\ L * Waves \in Nat /\ Iter \in Nat
      BY <1>4, Lengths DEF IInv, TypeOK, Position, EndWaves
    <2>4. Position'
      BY <1>4, <2>2, <2>3 DEF IInv, Position, EndWaves
    <2>5. Stores'
      BY <1>4 DEF IInv, Stores, EndWaves, RowByte, N
    <2>6. QED
      BY <2>1, <2>4, <2>5 DEF IInv
  <1>5. CASE TailStep
    <2> DEFINE bytes == [k \in 1..1 |-> Byte(TailBit(call.op, call.v[inp + k], call.value))]
    <2>1. /\ L * Waves \in Nat /\ N \in Nat /\ i \in Nat /\ outp \in Nat /\ Iter \in Nat
          /\ inp = outp /\ outp = L * Waves + i /\ call.outlen = N
          /\ N = L * Waves + Iter /\ i < Iter
          /\ Bulk(call.cls, N) = L * Waves
      BY <1>5, Lengths DEF IInv, TypeOK, Position, TailStep
    <2>2. \A j \in 1..1 : bytes[j] = RowByte(outp + j)
      <3>1. ~(outp + 1 =< Bulk(call.cls, N))
        BY <2>1
      <3>2. QED
        BY <2>1, <3>1 DEF RowByte, KernelBit
    <2>3. /\ out' = Stored(bytes) /\ outp' = outp + 1 /\ UNCHANGED call
          /\ inp' = inp + 1 /\ i' = i + 1 /\ UNCHANGED <<pc, w, result>>
          /\ pc = "tail"
      BY <1>5 DEF TailStep
    <2>4. Stores' /\ out' \in [1..call.outlen -> {"old", "00", "ff"}]
      <3>1. DOMAIN bytes = 1..1
        OBVIOUS
      <3> HIDE DEF bytes
      <3>2. outp + 1 =< N /\ 1 \in Nat
        BY <2>1
      <3>3. QED
        BY <2>1, <2>2, <2>3, <3>1, <3>2, StoredKeepsStores
    <2>5. TypeOK'
      BY <2>1, <2>3, <2>4 DEF IInv, TypeOK
    <2>6. L' = L /\ N' = N /\ Waves' = Waves /\ Iter' = Iter
      BY <2>3 DEF L, N, Waves, Iter
    <2>7. Position'
      BY <2>1, <2>3, <2>6 DEF IInv, TypeOK, Position
    <2>8. QED
      BY <2>4, <2>5, <2>7 DEF IInv
  <1>6. CASE Return
    <2>1. TypeOK'
      BY <1>6 DEF IInv, TypeOK, Return
    <2>2. L' = L /\ N' = N /\ Waves' = Waves /\ Iter' = Iter
      BY <1>6 DEF Return, L, N, Waves, Iter
    <2>3. /\ i \in Nat /\ Iter \in Nat /\ L * Waves \in Nat /\ N = L * Waves + Iter
          /\ i >= Iter /\ i =< Iter /\ outp = L * Waves + i
      BY <1>6, Lengths DEF IInv, TypeOK, Position, Return
    <2>4. outp = N
      BY <2>3
    <2>5. Position'
      BY <1>6, <2>2, <2>4 DEF IInv, Position, Return
    <2>6. Stores'
      BY <1>6 DEF IInv, Stores, Return, RowByte, N
    <2>7. QED
      BY <2>1, <2>5, <2>6 DEF IInv
  <1>7. CASE UNCHANGED vars
    BY <1>7 DEF IInv, TypeOK, Position, Stores, RowByte, L, N, Waves, Iter, vars
  <1>8. QED
    BY <1>1, <1>2, <1>3, <1>4, <1>5, <1>6, <1>7 DEF Next

LEMMA Invariance == Spec => []IInv
  BY InitInv, NextInv, PTL DEF Spec

-----------------------------------------------------------------------------
(* The properties.                                                          *)

\* What a finished call has stored, in terms of the cells of its rows.
LEMMA Finished ==
  ASSUME IInv, result = "out"
  PROVE  /\ outp = N /\ call.outlen = N /\ N \in Nat
         /\ call.op \in OpName /\ call.value \in Cell
         /\ \A j \in 1..N : call.v[j] \in Cell /\ out[j] = RowByte(j)
  <1>1. outp = N /\ call.outlen = N
    BY DEF IInv, TypeOK, Position
  <1>2. N \in Nat
    BY Lengths DEF IInv, TypeOK
  <1>3. call.op \in OpName /\ call.value \in Cell /\ \A j \in 1..N : call.v[j] \in Cell
    BY DEF IInv, TypeOK, Call, N
  <1>4. QED
    BY <1>1, <1>2, <1>3 DEF IInv, Stores

\* The variables of a call keep their types for every set of calls.
THEOREM TypeCorrect == Spec => []TypeOK
  BY Invariance, PTL DEF IInv

\* No kernel loads or stores outside the column and the bitmap, for any
\* column length and any pair of lengths.
THEOREM AccessesInBounds == Spec => []AccessInBounds
  <1>1. IInv => AccessInBounds
    <2> SUFFICES ASSUME IInv PROVE AccessInBounds
      OBVIOUS
    <2>1. CASE pc = "wave" /\ w < Waves
      <3>1. /\ w \in Nat /\ inp = outp /\ outp = L * w /\ call.outlen = N
        BY <2>1 DEF IInv, TypeOK, Position
      <3>2. L * w + L =< L * Waves /\ L * Waves =< N /\ L * w + L =< N
        <4>1. /\ L * w + L =< L * Waves /\ N = L * Waves + Iter
              /\ L * Waves \in Nat /\ Iter \in Nat /\ L \in {2, 4}
          BY <2>1, <3>1, Lengths DEF IInv, TypeOK
        <4>2. L * w \in Nat
          BY <4>1, <3>1 DEF IInv, TypeOK
        <4>3. QED
          BY <4>1, <4>2
      <3>3. QED
        BY <2>1, <3>1, <3>2 DEF AccessInBounds
    <2>2. CASE pc = "tail" /\ i < Iter
      <3>1. /\ i \in Nat /\ inp = outp /\ outp = L * Waves + i /\ call.outlen = N
        BY <2>2 DEF IInv, TypeOK, Position
      <3>2. N = L * Waves + Iter /\ L * Waves \in Nat /\ Iter \in Nat
        BY Lengths DEF IInv, TypeOK
      <3>3. inp < N /\ outp < call.outlen
        BY <2>2, <3>1, <3>2
      <3>4. QED
        BY <2>2, <3>3 DEF AccessInBounds
    <2>3. QED
      BY <2>1, <2>2 DEF AccessInBounds
  <1>2. QED
    BY <1>1, Invariance, PTL

\* A call that returns the bitmap has stored exactly the bytes of KernelBit.
THEOREM KernelBitExact == Spec => []MatchesKernelBit
  <1>1. IInv => MatchesKernelBit
    BY Finished DEF IInv, TypeOK, MatchesKernelBit, RowByte
  <1>2. QED
    BY <1>1, Invariance, PTL

\* Rows of whole registers are decided exactly, for every operator.
THEOREM BulkIsExact == Spec => []BulkExact
  <1>1. IInv => BulkExact
    <2> SUFFICES ASSUME IInv, result = "out", NEW j \in 1..Bulk(call.cls, N)
                 PROVE  out[j] = Byte(Row(j))
      BY DEF BulkExact
    <2>1. j \in 1..N
      BY Lengths DEF IInv, TypeOK
    <2>2. out[j] = Byte(LaneBit(call.op, call.v[j], call.value))
      BY <2>1, Finished DEF RowByte, KernelBit
    <2>3. QED
      BY <2>1, <2>2, Finished, LaneBitIsHolds DEF Row, Byte
  <1>2. QED
    BY <1>1, Invariance, PTL

\* The equality kernels are exact on every row of every column.
THEOREM EqualityIsExact == Spec => []EqualityExact
  <1>1. IInv => EqualityExact
    <2> SUFFICES ASSUME IInv, result = "out", call.op = "eq", NEW j \in 1..N
                 PROVE  out[j] = Byte(Row(j))
      BY DEF EqualityExact
    <2>1. out[j] = Byte(KernelBit(call.cls, "eq", N, j, call.v[j], call.value))
      BY Finished DEF RowByte
    <2>2. KernelBit(call.cls, "eq", N, j, call.v[j], call.value) <=> Row(j)
      BY Finished, LaneBitIsHolds, TailBitIsEquality DEF KernelBit, Row
    <2>3. QED
      BY <2>1, <2>2 DEF Byte
  <1>2. QED
    BY <1>1, Invariance, PTL

\* ==, >= and <= never select a row that does not satisfy them.
THEOREM InclusiveIsSound == Spec => []InclusiveSound
  <1>1. IInv => InclusiveSound
    <2> SUFFICES ASSUME IInv, result = "out", call.op \in {"eq", "ge", "le"},
                        NEW j \in 1..N, out[j] = "ff"
                 PROVE  Row(j)
      BY DEF InclusiveSound
    <2>1. KernelBit(call.cls, call.op, N, j, call.v[j], call.value)
      BY Finished DEF RowByte, Byte
    <2>2. QED
      BY <2>1, Finished, LaneBitIsHolds, TailBitIsEquality DEF KernelBit, Row
  <1>2. QED
    BY <1>1, Invariance, PTL

\* A refused call has not touched the caller's bitmap.
THEOREM RejectedIsUntouched == Spec => []RejectedUntouched
  <1>1. IInv => RejectedUntouched
    <2> SUFFICES ASSUME IInv, result = "nil", NEW j \in DOMAIN out
                 PROVE  out[j] = "old"
      BY DEF RejectedUntouched
    <2>1. outp = 0
      BY DEF IInv, TypeOK, Position
    <2>2. j > outp
      BY <2>1 DEF IInv, TypeOK, Call
    <2>3. QED
      BY <2>2 DEF IInv, Stores
  <1>2. QED
    BY <1>1, Invariance, PTL

-----------------------------------------------------------------------------
(* The kernels implement the one-step selection.                            *)

LEMMA SelectionInit == Init => S!Init
  <1> SUFFICES ASSUME Init PROVE S!Init
    OBVIOUS
  <1>1. QED
    BY DEF Init, S!Init

\* A bitmap that is returned is the one the selection promises.
Returned ==
  result = "out" => out = [j \in 1..call.outlen |-> IF S!Selected(j) THEN "ff" ELSE "00"]

LEMMA ReturnedIsSelected == IInv => Returned
  <1> SUFFICES ASSUME IInv, result = "out" PROVE Returned
    BY DEF Returned
  <1>1. ASSUME NEW j \in 1..N PROVE out[j] = IF S!Selected(j) THEN "ff" ELSE "00"
    <2>1. out[j] = RowByte(j) /\ call.v[j] \in Cell
      BY Finished
    <2>2. /\ \A op, x, y : S!Holds(op, x, y) <=> Holds(op, x, y)
          /\ S!Bulk(call.cls, Len(call.v)) = Bulk(call.cls, N)
      BY DEF S!Holds, Holds, S!Bulk, Bulk, S!Lanes, Lanes, N
    <2>3. KernelBit(call.cls, call.op, N, j, call.v[j], call.value) <=> S!Selected(j)
      <3>1. CASE j <= Bulk(call.cls, N)
        <4>1. KernelBit(call.cls, call.op, N, j, call.v[j], call.value)
                <=> Holds(call.op, call.v[j], call.value)
          BY <2>1, <3>1, Finished, LaneBitIsHolds DEF KernelBit
        <4>2. S!Selected(j) <=> Holds(call.op, call.v[j], call.value)
          BY <2>2, <3>1 DEF S!Selected
        <4>3. QED
          BY <4>1, <4>2
      <3>2. CASE ~(j <= Bulk(call.cls, N))
        <4>1. KernelBit(call.cls, call.op, N, j, call.v[j], call.value)
                <=> Holds("eq", call.v[j], call.value)
          BY <2>1, <3>2, Finished DEF KernelBit, TailBit, LaneEq, Holds
        <4>2. S!Selected(j) <=> Holds("eq", call.v[j], call.value)
          BY <2>2, <3>2 DEF S!Selected
        <4>3. QED
          BY <4>1, <4>2
      <3>3. QED
        BY <3>1, <3>2
    <2>4. QED
      BY <2>1, <2>3 DEF RowByte, Byte
  <1>2. call.outlen = N /\ out \in [1..call.outlen -> {"old", "00", "ff"}]
    BY Finished DEF IInv, TypeOK
  <1>3. QED
    BY <1>1, <1>2 DEF Returned

LEMMA SelectionStep == IInv /\ Returned' /\ [Next]_vars => [S!Next]_S!vars
  <1> SUFFICES ASSUME IInv, Returned', [Next]_vars PROVE [S!Next]_S!vars
    OBVIOUS
  <1>1. CASE Reject
    BY <1>1 DEF Reject, Rejected, IInv, Position, Stores, TypeOK, S!Next, S!Refuse, S!Refused, N, Call
  <1>2. CASE Accept \/ Wave \/ EndWaves \/ TailStep
    BY <1>2 DEF Accept, Wave, EndWaves, TailStep, IInv, Position, S!vars
  <1>3. CASE Return
    <2>1. /\ result = "none" /\ result' = "out" /\ call' = call /\ out' = out
          /\ call.outlen = N /\ call.aligned
      <3>1. outp # 0 \/ pc \in {"wave", "tail"} \/ result = "out" => call.outlen = N
        BY DEF IInv, Position
      <3>2. QED
        BY <1>3, <3>1 DEF Return, IInv, Position
    <2>2. out' = [j \in 1..call.outlen |-> IF S!Selected(j) THEN "ff" ELSE "00"]
      BY <2>1 DEF Returned, S!Selected
    <2>3. S!Decide
      BY <2>1, <2>2 DEF S!Decide, S!Refused, N
    <2>4. QED
      BY <2>3 DEF S!Next
  <1>4. CASE UNCHANGED vars
    BY <1>4 DEF vars, S!vars
  <1>5. QED
    BY <1>1, <1>2, <1>3, <1>4 DEF Next

\* Every kernel call implements the one-step selection, for every set of calls.
THEOREM Refinement == Spec => ImplementsSelection
  BY SelectionInit, ReturnedIsSelected, SelectionStep, Invariance, PTL DEF Spec, S!Spec, ImplementsSelection
=============================================================================
