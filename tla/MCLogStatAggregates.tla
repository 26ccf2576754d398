-------------------------- MODULE MCLogStatAggregates --------------------------
(***************************************************************************)
(* LogStatAggregates on a small instance: one source with two loggers, two *)
(* buckets of two ticks.                                                   *)
(***************************************************************************)
EXTENDS LogStatAggregates

CONSTANTS s1, l1, l2

MCSources == {s1}
MCLoggers == {l1, l2}
MCPatterns == [source : MCSources, logger : MCLoggers]

All == [sources |-> {s1}, matches |-> MCLoggers, likes |-> MCLoggers, start |-> 0,
        end |-> MaxTime, max |-> 0, memory |-> TRUE, database |-> TRUE]

\* At most one row or group; the database alone, with a LIKE pattern that lets more through
\* than the expression.
MCFilters == {[All EXCEPT !.max = 1], [All EXCEPT !.matches = {l1}, !.memory = FALSE]}
=============================================================================
