---------------------------- MODULE MCLogStatStore ----------------------------
(***************************************************************************)
(* LogStatStore on a small instance: two patterns of lines over two        *)
(* buckets of two ticks, rows that outlive one bucket.                     *)
(***************************************************************************)
EXTENDS LogStatStore, TLC

CONSTANTS p1, p2

MCPatterns == {p1, p2}

\* The patterns are interchangeable.
PatternSymmetry == Permutations(MCPatterns)
=============================================================================
