----------------------------- MODULE MCPaperRun -----------------------------
(* Small instances of PaperRun for TLC. *)
EXTENDS PaperRun

CONSTANTS script, A, B

TheScript == {script}
Retry == [r \in Runners |-> 2]

OddDays == {1, 3}
=============================================================================
