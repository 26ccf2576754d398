------------------------------ MODULE MCDashboard ------------------------------
(***************************************************************************)
(* Dashboard on a small instance: chunks of one row, answers of up to two  *)
(* rows, in the aggregated view one row without a logger.                  *)
(***************************************************************************)
EXTENDS Dashboard

Row(logger, level, bucket, n) == [Logger |-> logger, Level |-> level, BucketTS |-> bucket, N |-> n]
row1 == Row("A", "INFO", 2, 1)
row2 == Row("B", "WARN", 1, 2)
total == [Level |-> "INFO", BucketTS |-> 1, TotalCount |-> 3]

MCRows == {row1, row2, total}
MCColumns == [detailed |-> {"N"}, aggregated |-> {"TotalCount"}]
MCFound == [none |-> MCRows, b |-> {row2}]
MCAnswers == [detailed |-> {<<>>, <<row1, row2>>}, aggregated |-> {<<total>>}]
=============================================================================
