--------------------------- MODULE MCTradingAgent ---------------------------
(* Small instances of TradingAgent for TLC. *)
EXTENDS TradingAgent

\* Watchlists of one and of two tokens.
OneToken  == <<"CAKE">>
TwoTokens == <<"CAKE", "ETH">>
Eligible  == {"CAKE", "ETH", "USDT", "USDC"}

\* A wallet near its high-water mark, one that may fall to the hard stop, and
\* one that may also fall to the pause in between.
Steady  == {"NORMAL"}
Falling == {"NORMAL", "HARD_STOP"}
Sliding == {"NORMAL", "PAUSE_ENTRIES", "HARD_STOP"}
=============================================================================
