-------------------------- MODULE MCPaperSchedule --------------------------
(* Small instances of PaperSchedule for TLC: two months of four days and two *)
(* days of a third, with days without trading.                               *)
EXTENDS PaperSchedule

Sessions == {1, 3, 6, 7, 9, 10}
NoCohortOrBoth == {{}, {0}, {0, 1}}
=============================================================================
