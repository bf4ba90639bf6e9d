---------------------------- MODULE MCPremiumEntry ----------------------------
(***************************************************************************)
(* An instance of PremiumEntry for TLC.                                     *)
(***************************************************************************)
EXTENDS PremiumEntry

\* "reclaim" is left out: its exit at a high RSI may hold where its entry does.
Steady == {"trend", "bounce", "mean_reversion", "momentum"}
===============================================================================
