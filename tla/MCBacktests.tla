----------------------------- MODULE MCBacktests -----------------------------
(***************************************************************************)
(* Instances of Backtests for TLC.                                         *)
(***************************************************************************)
EXTENDS Backtests

ThreeTokens == {"CAKE", "ETH", "LINK"}
DailyRanges == [t \in ThreeTokens |-> IF t = "CAKE" THEN 12 ELSE 0]
AllScripts == {"backtest", "trade_split", "vol_filter_bt", "atr_stop_bt", "limit_entry_bt",
                "limit_entry_bt at market"}
===============================================================================
