---------------------------- MODULE MCMapAllocator ----------------------------
(* Two files of different lengths and a missing one; fewer descriptors than *)
(* addresses, so that descriptors run out, or the other way round.          *)
EXTENDS MapAllocator

CONSTANTS f1, f2, f3, MaxBase

MCFile    == {f1, f2, f3}
MCMissing == {f3}
MCBytes   == [f \in MCFile |-> IF f = f1 THEN 2 ELSE 3]
MCBase    == 1..MaxBase
=============================================================================
