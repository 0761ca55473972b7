---------------------------- MODULE MCSdfIterator ----------------------------
(* Datasets of up to MaxParts partitions of 0 .. MaxRows rows, splits of    *)
(* two rows: empty partitions, full and partial last splits.                *)
EXTENDS SdfIterator

CONSTANTS MaxParts, MaxRows

MCDatasets == UNION {[1..n -> 0..MaxRows] : n \in 0..MaxParts}
=============================================================================
