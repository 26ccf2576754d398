------------------------------ MODULE MCStreamPage ------------------------------
(***************************************************************************)
(* StreamPage on a small instance: the settings of the markup, those of    *)
(* the button Reset, with a list longer than the table and wider buckets,  *)
(* and some that the server refuses.                                       *)
(***************************************************************************)
EXTENDS StreamPage

CONSTANTS f1, f2, f3

MCFilters == {f1, f2, f3}
MCMaxMessages == [f \in MCFilters |-> IF f = f1 THEN 1 ELSE 2]
MCBucketSize == [f \in MCFilters |-> IF f = f1 THEN 1 ELSE 2]
MCWindow == [f \in MCFilters |-> IF f = f1 THEN 0 ELSE 1]
=============================================================================
