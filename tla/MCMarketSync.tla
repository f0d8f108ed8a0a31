---------------------------- MODULE MCMarketSync ----------------------------
(* One stock with two statements and two reports a year, for MarketSync. *)
EXTENDS MarketSync

CONSTANTS job, hand
Statements == <<"income_statement", "cash_flow_statement">>
=============================================================================
