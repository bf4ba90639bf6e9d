----------------------------- MODULE MCMarketData -----------------------------
(* Small instances of MarketData for TLC. *)
EXTENDS MarketData

Ttls == [regime |-> 1, series |-> 2]
High == [level |-> "high", from |-> 1, to |-> 3]
Medium == [level |-> "medium", from |-> 2, to |-> 3]
Misspelt == [level |-> "hihg", from |-> 0, to |-> 4]
CalendarFiles == {{Misspelt}, {High, Medium}}
===============================================================================
