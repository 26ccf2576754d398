------------------------------- MODULE MCServer -------------------------------
(***************************************************************************)
(* Server on a small instance: one pattern of lines over three buckets, one *)
(* sender, one stop of the process.                                       *)
(***************************************************************************)
EXTENDS Server

CONSTANTS p1, c1

MCPatterns == {p1}
MCConns == {c1}
=============================================================================
