------------------------------- MODULE MCSplits -------------------------------
(* A foreach loop over the iterator in whose body a partition is read: each *)
(* for all its inputs while the other has its smallest.  The walk has ints  *)
(* of 5 bits and row counts up to beyond the wrap-around.                   *)
EXTENDS SplitWalk, MCSdfIterator

CONSTANTS MaxTotal, MaxRps

MCRows == 0..MaxTotal
MCRps  == 1..MaxRps

SplitsInit ==
  /\ WalkInit /\ Init
  /\ parts = <<>> \/ (total = 0 /\ rps = 1)

SplitsNext ==
  \/ WalkNext /\ UNCHANGED vars
  \/ Next /\ UNCHANGED walkVars

\* What the loop's body does comes to an end, and the loop goes on.
SplitsSpec ==
  /\ SplitsInit
  /\ [][SplitsNext]_<<vars, walkVars>>
  /\ WF_<<vars, walkVars>>(ForeachStep /\ UNCHANGED walkVars)
=============================================================================
