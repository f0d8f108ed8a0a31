-------------------------- MODULE ReviewedRelease --------------------------
(***************************************************************************)
(* What a backfill batch promises: it publishes facts of reviewed          *)
(* manifests only, withdraws nothing but what it published itself, and     *)
(* once it is rejected everything it published is withdrawn and it never   *)
(* publishes again.                                                        *)
(***************************************************************************)
CONSTANTS Manifests, FactsOf(_)

VARIABLES reviewed, published, withdrawn, rejected

vars == <<reviewed, published, withdrawn, rejected>>

Init ==
  /\ reviewed = {}
  /\ published = {}
  /\ withdrawn = {}
  /\ rejected = FALSE

Review ==
  /\ ~rejected
  /\ \E m \in Manifests : reviewed' = reviewed \cup {m}
  /\ UNCHANGED <<published, withdrawn, rejected>>

Publish ==
  /\ ~rejected
  /\ \E m \in reviewed :
       published \subseteq published' /\ published' \subseteq published \cup FactsOf(m)
  /\ UNCHANGED <<reviewed, withdrawn, rejected>>

Withdraw ==
  /\ withdrawn \subseteq withdrawn'
  /\ withdrawn' \subseteq published
  /\ UNCHANGED <<reviewed, published, rejected>>

Reject ==
  /\ published \subseteq withdrawn
  /\ rejected' = TRUE
  /\ UNCHANGED <<reviewed, published, withdrawn>>

Next == Review \/ Publish \/ Withdraw \/ Reject

Spec == Init /\ [][Next]_vars
=============================================================================
