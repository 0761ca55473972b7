------------------------------- MODULE MCSIndex -------------------------------
(* Two bitmaps of three bytes (a register of two and a tail of one) and one *)
(* of another length: every canonical content, and some bytes with only     *)
(* part of their bits set.                                                  *)
EXTENDS SIndex, TLC

CONSTANTS First, Second, Short

Heap(x, y, z) == First :> x @@ Second :> y @@ Short :> z

MCRef == {First, Second, Short}
MCHeaps ==
  {Heap(x, y, <<Ones, Zeros>>) : x, y \in [1..3 -> {Zeros, Ones}]}
    \cup {Heap(<<{0}, {7}, {3}>>, <<{0, 7}, Zeros, {0, 3}>>, <<>>)}
=============================================================================
