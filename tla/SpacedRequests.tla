--------------------------- MODULE SpacedRequests ---------------------------
(***************************************************************************)
(* What the SEC request gate promises its server: physical requests go out *)
(* one at a time, each at least Interval after the end of the one before,  *)
(* and none while a pause the program has recorded is running.  Who sends  *)
(* them, from which process, and how the senders agree is not visible      *)
(* here.  SecGate implements this specification.                           *)
(***************************************************************************)
EXTENDS Naturals

CONSTANT Interval

VARIABLES
  busy,      \* a request is on the wire
  rest,      \* time still owed to the server since the last request ended
  pause      \* time left of the recorded pause

vars == <<busy, rest, pause>>

Init == /\ busy = FALSE
        /\ rest = 0
        /\ pause = 0

Begin == /\ ~busy
         /\ rest = 0
         /\ pause = 0
         /\ busy' = TRUE
         /\ UNCHANGED <<rest, pause>>

End == /\ busy
       /\ busy' = FALSE
       /\ rest' = Interval
       /\ UNCHANGED pause

\* A pause is only ever made longer.  What is still owed may be rounded up.
Extend == /\ ~busy
          /\ pause' \in {p \in Nat : p >= pause}
          /\ UNCHANGED <<busy, rest>>

Less(n) == IF n = 0 THEN 0 ELSE n - 1

\* Time passes; a request that outlives its own deadline ends with it.
Pass == /\ pause' = Less(pause)
        /\ \/ rest' = Less(rest) /\ UNCHANGED busy
           \/ busy /\ busy' = FALSE /\ rest' = Interval

Next == Begin \/ End \/ Extend \/ Pass

Spec == Init /\ [][Next]_vars
=============================================================================
