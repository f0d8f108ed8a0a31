------------------------------ MODULE MCHkCapex ------------------------------
(* Two annual reports of one company, for HkCapex. *)
EXTENDS HkCapex

CONSTANT annual
OneCompany == [s \in {annual} |-> "00700"]
TwoReports == [s \in {annual} |-> 2]
=============================================================================
