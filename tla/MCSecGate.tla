----------------------------- MODULE MCSecGate -----------------------------
(* Small instances of SecGate for TLC. *)
EXTENDS SecGate, TLC

CONSTANTS a, b, c, P, Q

\* Two threads share process P; the third runs in Q.
ThreeThreads == {a, b, c}
ProcessOfThree == [t \in ThreeThreads |-> IF t = c THEN Q ELSE P]

\* One thread in each process.
TwoThreads == {a, c}
ProcessOfTwo == [t \in TwoThreads |-> IF t = c THEN Q ELSE P]

TwoProcesses == {P, Q}

\* The threads of P are alike.
Alike == Permutations({a, b})
=============================================================================
