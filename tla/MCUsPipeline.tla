---------------------------- MODULE MCUsPipeline ----------------------------
(* An instance of UsPipeline: a may come into the index and leave it, and  *)
(* the documents of f, which stays, hold no fact the collector maps, as    *)
(* its row of EXPECTED_SKIPS.csv says.                                     *)
EXTENDS UsPipeline
CONSTANTS a, f
MCTickers == {a, f}
MCOnlyF == {f}
MCExcused == [t \in Tickers |-> IF t = f THEN {"zero_facts"} ELSE {}]
=============================================================================
