----------------------------- MODULE RiskEngine -----------------------------
(***************************************************************************)
(* agent/risk/engine.py: the pure judge of trade proposals.  It keeps no   *)
(* state and never touches the network; the caller passes the day's trade  *)
(* count, the open positions and the age of the signal, each read at the   *)
(* caller's own moment.  Which rule is reported first is wording; whether  *)
(* a proposal is approved is what is modelled.                             *)
(***************************************************************************)
EXTENDS Integers

CONSTANTS
    Allowlist,          \* tokens.allowlist: the eligible symbols
    MaxSignalAge,       \* data.max_signal_age_min, in clock ticks
    MaxTradesPerDay,    \* limits.max_trades_per_day
    MaxConcurrent,      \* position.max_concurrent
    MinEdge             \* limits.min_expected_edge_pct

ASSUME LimitAssumption ==
    /\ MaxSignalAge \in Nat /\ MaxTradesPerDay \in Nat
    /\ MaxConcurrent \in Nat /\ MinEdge \in Nat

\* The rungs of the drawdown ladder; DrawdownMonitor says which one holds.
RiskState == {"NORMAL", "ALERT", "PAUSE_ENTRIES", "HARD_STOP"}

\* Mutant: the daily cap is off by one.
ApprovesOneMore(p, s) ==
    /\ {p.from, p.to} \subseteq Allowlist
    /\ p.isEntry =>
         /\ s.state \notin {"HARD_STOP", "PAUSE_ENTRIES"}
         /\ s.signalAge <= MaxSignalAge
         /\ s.tradesToday <= MaxTradesPerDay
         /\ s.openPositions < MaxConcurrent
         /\ p.usd <= s.cap
         /\ p.edge >= MinEdge

\* What evaluate() lets through.  p is the proposal, s the state handed in
\* with it; cap is portfolio_usd * max_position_pct / 100.
Approves(p, s) ==
    /\ {p.from, p.to} \subseteq Allowlist
    /\ p.isEntry =>
         /\ s.state \notin {"HARD_STOP", "PAUSE_ENTRIES"}
         /\ s.signalAge <= MaxSignalAge
         /\ s.tradesToday < MaxTradesPerDay
         /\ s.openPositions < MaxConcurrent
         /\ p.usd <= s.cap
         /\ p.edge >= MinEdge
=============================================================================
