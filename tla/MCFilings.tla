----------------------------- MODULE MCFilings -----------------------------
(***************************************************************************)
(* Three filings of one stock: an annual one, a quarterly one that reports *)
(* the year again, and the next annual one.  "cash" is a field with a      *)
(* preferred tag; the first filing lists it under two tags.  In Documents  *)
(* the second snapshot corrects a value of the first filing and has one    *)
(* key twice; its second statement lists the filings in another order than *)
(* its first.  In Statement the first filing has a part of its revenue     *)
(* under a tag of its own.                                                 *)
(***************************************************************************)
EXTENDS Naturals

Row(k, v) == [key |-> k, value |-> v]
KeySet == {"first", "part", "second", "third", "equity1", "equity2", "sales",
           "services"}
FieldSet == {"cash", "equity", "revenue"}
TagSet == {"total", "continuing", "equity", "sales", "services"}
FilingOfKey == [k \in KeySet |->
  CASE k \in {"first", "part", "equity1", "sales", "services"} -> 1
    [] k \in {"second", "equity2"} -> 2
    [] k = "third" -> 3]
TagOfKey == [k \in KeySet |->
  CASE k \in {"first", "second"} -> "continuing"
    [] k \in {"part", "third"} -> "total"
    [] k \in {"equity1", "equity2"} -> "equity"
    [] k \in {"sales", "services"} -> k]
FieldOfKey == [k \in KeySet |->
  CASE k \in {"equity1", "equity2"} -> "equity"
    [] k \in {"sales", "services"} -> "revenue"
    [] OTHER -> "cash"]
FiledOnDay == <<0, 1, 1>>
AnnualFilings == {1, 3}
RankOf == [t \in TagSet |->
  CASE t \in {"total", "sales"} -> 1 [] t \in {"continuing", "services"} -> 2
    [] t = "equity" -> 3]
Arrivals == <<0, 1>>
Documents ==
  << << <<Row("first", 1), Row("part", 2)>>, <<Row("equity1", 5)>> >>,
     << <<Row("first", 2), Row("part", 2), Row("second", 3), Row("second", 4),
          Row("third", 3)>>,
        <<Row("equity2", 6), Row("equity1", 5)>> >> >>
Statement ==
  << << <<Row("first", 1), Row("services", 2), Row("sales", 3)>> >>,
     << <<Row("first", 2), Row("third", 3)>> >> >>
=============================================================================
