-------------------------------- MODULE Sums --------------------------------
(***************************************************************************)
(* Adding up a column of a finite set of rows, as aggregateStock does with *)
(* `reduce` and the aggregate queries with `_sum`.                         *)
(***************************************************************************)
EXTENDS Integers, FiniteSets, FiniteSetsExt

SumOf(rows, figures) == MapThenSumSet(LAMBDA r : figures[r], rows)
=============================================================================
