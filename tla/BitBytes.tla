------------------------------- MODULE BitBytes -------------------------------
(***************************************************************************)
(* The bytes of a BitVector bitmap.  A byte is the set of its one bits, so *)
(* |, & and ~ are union, intersection and complement.  The select kernels  *)
(* only store 0x00 and 0xff, but an sindex is a plain raw vector that R    *)
(* code can also fill by hand, so any byte can reach BitVector.            *)
(***************************************************************************)
EXTENDS Integers, Sequences, FiniteSets

Bit  == 0..7
Byte == SUBSET Bit

Zeros == {}
Ones  == Bit

\* What the kernels store, and what !, & and | of such bytes give.
Canonical(bm) == \A j \in DOMAIN bm : bm[j] \in {Zeros, Ones}

\* "if (*lvp++)": the rows the copy loops of collapse take, among the first k.
NonZero(bm, k) == {j \in 1..k : bm[j] # Zeros}

CONSTANT WaveBytes    \* bytes in a register: 16

ASSUME WaveBytesAssumption == WaveBytes \in Nat \ {0}

\* Mutant: whole registers only.
CountedWaves(bm) ==
  {j \in 1..(WaveBytes * (Len(bm) \div WaveBytes)) : 7 \in bm[j]}

\* The rows popcount counts: by the top bit (_mm_movemask_epi8) in whole
\* registers, by the bottom bit (& 0x01) in the rest.
Counted(bm) ==
  LET bulk == WaveBytes * (Len(bm) \div WaveBytes)
  IN  {j \in 1..Len(bm) : (IF j =< bulk THEN 7 ELSE 0) \in bm[j]}

Popcount(bm) == Cardinality(Counted(bm))

=============================================================================
