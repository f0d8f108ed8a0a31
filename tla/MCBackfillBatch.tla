-------------------------- MODULE MCBackfillBatch --------------------------
(* A small instance of BackfillBatch for TLC. *)
EXTENDS BackfillBatch, TLC

CONSTANTS w1, w2, s1, s2

TwoWorkers == {w1, w2}
TwoStocks == {s1, s2}

Interchangeable == Permutations(TwoWorkers)
=============================================================================
