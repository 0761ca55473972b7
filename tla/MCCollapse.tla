------------------------------ MODULE MCCollapse ------------------------------
(* Small instances of Collapse: every bitmap of up to MaxLen bytes over the *)
(* bytes the two tests can tell apart, with registers of WaveBytes bytes.   *)
EXTENDS Collapse

CONSTANT MaxLen

\* Not selected; selected; and bytes with only the bottom bit, only the top
\* bit, or neither of them.
Bytes == {Zeros, Ones, {0}, {7}, {3}}

\* The values of the rows are all different, so no two can be confused.
MCInputs ==
  {[bm |-> b, src |-> [j \in DOMAIN b |-> 10 + j]] :
     b \in UNION {[1..n -> Bytes] : n \in 0..MaxLen}}
  \cup {[bm |-> b, src |-> v] : b \in {<<>>, <<Zeros, Ones>>, <<Ones, Ones, Ones>>},
                                 v \in {<<>>, <<11>>, <<11, 12>>, <<11, 12, 13>>}}
=============================================================================
