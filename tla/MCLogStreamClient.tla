--------------------------- MODULE MCLogStreamClient ---------------------------
(***************************************************************************)
(* LogStreamClient on small instances: the settings of the markup, those   *)
(* of the button Reset, and some that the server refuses.                  *)
(***************************************************************************)
EXTENDS LogStreamClient

CONSTANTS f1, f2, f3

MCFilters == {f1, f2, f3}
=============================================================================
