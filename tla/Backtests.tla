------------------------------ MODULE Backtests ------------------------------
(***************************************************************************)
(* The bar-by-bar simulators behind the configuration: scripts/backtest.py  *)
(* and the copies of its mechanics in trade_split.py, vol_filter_bt.py,     *)
(* atr_stop_bt.py and limit_entry_bt.py.  One bar is three passes over the  *)
(* tokens: exits, fills of resting orders, entries.  The edge, conviction,  *)
(* and volume gates may pass over any token; money is counted in units that *)
(* make the fee of a leg, a quarter, come out exact.  htf_filter_bt.py and   *)
(* trend_filter_bt.py run the same simulators on filtered signals.           *)
(***************************************************************************)
EXTENDS Strategies, Sequences, FiniteSetsExt

CONSTANTS
    Tokens,         \* the keys of closes: a token without a series is out
    Scripts,        \* the simulators at work
    Bars,           \* length of the series behind the warm-up
    Prices,
    Start,          \* START_EQUITY
    Tickets,        \* entry sizes that come out exact
    CapPct,         \* MAX_POSITION_PCT
    MaxConcurrent,  \* MAX_CONCURRENT
    Cooldown,       \* cooldown_bars
    StopPct, TrailPct, ArmPct,
    RangeOf,        \* each token's daily range in per cent; 0 when there is none
    Lifetime        \* bars an order rests

Leg(x) == x \div 4

ASSUME BacktestAssumption ==
    /\ {Bars, Start, CapPct, MaxConcurrent, Cooldown, ArmPct, Lifetime} \subseteq Nat
    /\ {StopPct, TrailPct} \subseteq Nat \ {0}
    /\ IsFiniteSet(Tokens)
    /\ Prices \subseteq Nat \ {0, 1}  \* a limit below a price is a price
    /\ Tickets \subseteq Nat
    /\ Scripts \subseteq {"backtest", "trade_split", "vol_filter_bt", "atr_stop_bt",
                          "limit_entry_bt", "limit_entry_bt at market"}

\* What a ticket leaves behind its fee buys a whole number of units at any price
\* or limit; the scripts' quantities are not rounded at all.
ASSUME TicketAssumption ==
    \A usd \in Tickets : \A p \in Prices : \A px \in {p, p - 1} :
        ((usd - Leg(usd)) \div px) * px = usd - Leg(usd)

VARIABLES
    script,     \* which simulator this is
    bar,        \* t
    pass,       \* "exits", "fills", "entries", "over"
    todo,       \* the tokens this pass has still to visit
    price,      \* closes[tok][t]
    gate,       \* r_scale of the bar in per cent
    equity,     \* before the entries of the bar
    cash,
    pos,        \* positions
    pending,    \* resting orders
    lastExit,   \* -Cooldown for never
    trades      \* the records the report is made of

vars == <<script, bar, pass, todo, price, gate, equity, cash, pos, pending, lastExit, trades>>
books == <<cash, pos, lastExit, trades>>
walk == <<script, bar, pass, price, gate, equity>>

NoPos == [qty |-> 0, px |-> 0, peak |-> 0, idx |-> 0]
NoOrder == [limit |-> 0, expiry |-> 0, scale |-> 0]
Held == {t \in Tokens : pos[t] # NoPos}
Resting == {t \in Tokens : pending[t] # NoOrder}

\* regime_overlay: per bar, in per cent; without a reading of fear and greed, or
\* with the gate off, the scale is 100.
Overlay(mode, fg) ==
    CASE mode = "off" \/ fg = 0 -> 100
      [] mode = "v1" -> IF fg <= 20 \/ fg >= 80 THEN 0 ELSE 100
      [] mode = "asym" -> IF fg >= 80 THEN 0 ELSE IF fg <= 20 THEN 50 ELSE 100
Scales == {Overlay(mode, fg) : mode \in {"off", "v1", "asym"}, fg \in {0, 10, 50, 90}}

\* precompute_signals, precompute_plugin: both flags of a bar come from the code
\* the agent runs, asked once as flat and once as holding.  strategy_bt.py runs
\* atr_stop_bt with every strategy, the others only know the trend.
FlagsOf(o) == [buy |-> o.flat.action = "buy", sell |-> o.held.action = "sell"]
TrendFlags == {FlagsOf(o) : o \in Outlooks("trend")}
PluginFlags == {FlagsOf(o) : o \in UNION {Outlooks(s) : s \in Plugins}}

\* The entry filters under test take buys away and leave the exits alone.
\* filter_signals asks htf_gates, whose two trends may read anything at any bar;
\* trend_mask compares the close with one long average.
HtfGates == [up4h : BOOLEAN, upday : BOOLEAN]
FilterSignals(f, use4h, useday, g) ==
    [f EXCEPT !.buy = @ /\ (use4h => g.up4h) /\ (useday => g.upday)]
TrendMask(f, above, rising, requireRising) ==
    [f EXCEPT !.buy = @ /\ above /\ (requireRising => rising)]
Filtered ==
    {FilterSignals(f, x, y, g) : f \in TrendFlags, x, y \in BOOLEAN, g \in HtfGates}
    \cup {TrendMask(f, a, r, q) : f \in TrendFlags, a, r, q \in BOOLEAN}

Flags == CASE script = "atr_stop_bt" -> PluginFlags
           [] script \in {"backtest", "vol_filter_bt"} -> Filtered
           [] OTHER -> TrendFlags

\* fetch_aligned: a price of every token at every timestamp all of them share.
Closes == [Tokens -> Prices]

Init ==
    /\ script \in Scripts
    /\ bar = 0 /\ pass = "exits" /\ todo = {}
    /\ price \in Closes /\ gate \in Scales
    /\ cash = Start /\ equity = Start
    /\ pos = [t \in Tokens |-> NoPos] /\ pending = [t \in Tokens |-> NoOrder]
    /\ lastExit = [t \in Tokens |-> 0 - Cooldown]
    /\ trades = <<>>

Worth(t) == pos[t].qty * price[t]
Equity == cash + MapThenSumSet(Worth, Held)
ByLimit == script = "limit_entry_bt"
AtMarket == script = "limit_entry_bt at market"

\* Positions and orders are visited as they were made, in any order; entries are
\* considered in one fixed order, that of closes.
Visit(t) == t \in todo /\ todo' = todo \ {t}
Consider(t) == Visit(t) /\ t = CHOOSE u \in todo : TRUE

-----------------------------------------------------------------------------
(* Exits *)

\* Mutant: the first trade of the token, open or not.
FirstIdx(t) == CHOOSE i \in 1 .. Len(trades) :
    trades[i].token = t /\ \A j \in 1 .. i - 1 : trades[j].token # t

\* _open_idx: the last trade of the token without an exit.
OpenIdx(t) == CHOOSE i \in 1 .. Len(trades) :
    /\ trades[i].token = t /\ trades[i].exit = 0
    /\ \A j \in i + 1 .. Len(trades) : trades[j].token # t \/ trades[j].exit # 0

\* backtest.py searches for the record, its copies keep the index.
Record(t) == IF script = "backtest" THEN OpenIdx(t) ELSE pos[t].idx

\* Mutant: the exit is not remembered.
LeftUnstamped(t) == lastExit

Left(t) == [lastExit EXCEPT ![t] = bar]

Close(t) ==
    LET gross == Worth(t) IN
    /\ cash' = cash + gross - Leg(gross)
    /\ trades' = [trades EXCEPT ![Record(t)].exit = price[t],
                                ![Record(t)].back = gross - Leg(gross),
                                ![Record(t)].fee = @ + Leg(gross)]
    /\ pos' = [pos EXCEPT ![t] = NoPos]
    /\ lastExit' = Left(t)

\* The stop: a fixed share below the entry, or a multiple of the daily range.
StopShare(t) ==
    IF script = "atr_stop_bt" /\ RangeOf[t] > 0 THEN 2 * RangeOf[t] ELSE StopPct
StopHit(t) == price[t] * 100 <= pos[t].px * (100 - StopShare(t))

Peak(t) == IF price[t] > pos[t].peak THEN price[t] ELSE pos[t].peak

\* The trailing stop of backtest.py, once the position has gained enough.
TrailHit(t) ==
    /\ script = "backtest"
    /\ Peak(t) * 100 >= pos[t].px * (100 + ArmPct)
    /\ price[t] * 100 <= Peak(t) * (100 - TrailPct)

VisitHeld(t, f) ==
    /\ pass = "exits" /\ Visit(t)
    /\ IF StopHit(t) \/ TrailHit(t) \/ f.sell
       THEN Close(t)
       ELSE /\ pos' = [pos EXCEPT ![t].peak = Peak(t)]
            /\ UNCHANGED <<cash, lastExit, trades>>
    /\ UNCHANGED <<walk, pending>>

-----------------------------------------------------------------------------
(* Entries *)

\* Position cap and regime scale bound the size; conviction and the volatility
\* multiplier can only shrink it.  limit_entry_bt asks for the equity at every
\* entry, the others once before the first.
Sizes(scale) ==
    LET worth == IF ByLimit \/ AtMarket THEN Equity ELSE equity
    IN  {usd \in Tickets : usd * 10000 <= worth * CapPct * scale /\ usd <= cash}

\* A position of size usd at px, and the record of its trade.
Open(t, usd, px) ==
    LET qty == (usd - Leg(usd)) \div px IN
    /\ cash' = cash - usd
    /\ pos' = [pos EXCEPT ![t] = [qty |-> qty, px |-> px, peak |-> px,
                                  idx |-> Len(trades) + 1]]
    /\ trades' = Append(trades, [token |-> t, usd |-> usd, qty |-> qty, px |-> px,
                                 exit |-> 0, back |-> 0, fee |-> Leg(usd)])
    /\ UNCHANGED lastExit

\* A resting order is filled at its limit when the close has come down to it; it
\* is gone even if no size can be had, and at its expiry in any case.
Touched(t) == price[t] <= pending[t].limit /\ Cardinality(Held) < MaxConcurrent

Fill(t) ==
    /\ pass = "fills" /\ Visit(t)
    /\ IF Touched(t)
       THEN /\ pending' = [pending EXCEPT ![t] = NoOrder]
            /\ \/ \E usd \in Sizes(pending[t].scale) : Open(t, usd, pending[t].limit)
               \/ UNCHANGED books
       ELSE /\ pending' = IF bar >= pending[t].expiry
                          THEN [pending EXCEPT ![t] = NoOrder] ELSE pending
            /\ UNCHANGED books
    /\ UNCHANGED walk

\* Mutant: orders do not count.
SlotsUsed == Cardinality(Held)

\* A position or an order takes a slot.
Slots == Cardinality(Held) + Cardinality(Resting)

\* The token is free and rested, a slot is free, and the signal says buy.
Admitted(t, f) ==
    /\ pass = "entries" /\ Consider(t)
    /\ t \notin Held \cup Resting /\ gate > 0
    /\ Slots < MaxConcurrent
    /\ bar - lastExit[t] >= Cooldown
    /\ f.buy

EnterAtClose(t, f) ==
    /\ Admitted(t, f)
    /\ \E usd \in Sizes(gate) : Open(t, usd, price[t])
    /\ UNCHANGED <<walk, pending>>

\* The limit lies below the close; one step of Prices stands for the offset.
EnterByLimit(t, f) ==
    /\ Admitted(t, f)
    /\ pending' = [pending EXCEPT ![t] =
                      [limit |-> price[t] - 1, expiry |-> bar + Lifetime, scale |-> gate]]
    /\ UNCHANGED <<walk, books>>

\* No signal, a gate that is shut, or a size below the minimum or above the cash.
PassOver(t) ==
    /\ pass = "entries" /\ Consider(t)
    /\ UNCHANGED <<walk, books, pending>>

-----------------------------------------------------------------------------
(* The simulators: they differ in stops and entries *)

Simulate(t, f) == script = "backtest" /\ (VisitHeld(t, f) \/ EnterAtClose(t, f))
SimulateTraced(t, f) == script = "trade_split" /\ (VisitHeld(t, f) \/ EnterAtClose(t, f))
SimulateVolume(t, f) == script = "vol_filter_bt" /\ (VisitHeld(t, f) \/ EnterAtClose(t, f))
SimulateAtr(t, f) == script = "atr_stop_bt" /\ (VisitHeld(t, f) \/ EnterAtClose(t, f))
SimulateLimit(t, f) ==
    \/ ByLimit /\ (VisitHeld(t, f) \/ EnterByLimit(t, f) \/ Fill(t))
    \/ AtMarket /\ (VisitHeld(t, f) \/ EnterAtClose(t, f))

\* From pass to pass, and to the next bar of the aligned series.
NextPass ==
    /\ todo = {}
    /\ \/ /\ pass = "exits" /\ pass' = "fills" /\ todo' = Resting
          /\ UNCHANGED <<bar, price, gate, equity>>
       \/ /\ pass = "fills" /\ pass' = "entries" /\ todo' = Tokens
          /\ equity' = Equity
          /\ UNCHANGED <<bar, price, gate>>
       \/ /\ pass = "entries" /\ bar < Bars
          /\ pass' = "exits" /\ todo' = Held /\ bar' = bar + 1
          /\ price' \in Closes /\ gate' \in Scales
          /\ UNCHANGED equity
    /\ UNCHANGED <<script, books, pending>>

\* The last bar: what is left counts as sold in the final equity, not as a trade.
Report ==
    /\ todo = {} /\ pass = "entries" /\ bar = Bars
    /\ pass' = "over"
    /\ UNCHANGED <<script, bar, todo, price, gate, equity, books, pending>>

Next ==
    \/ \E t \in Tokens, f \in Flags :
          \/ Simulate(t, f) \/ SimulateTraced(t, f) \/ SimulateVolume(t, f)
          \/ SimulateAtr(t, f) \/ SimulateLimit(t, f)
    \/ \E t \in Tokens : PassOver(t)
    \/ NextPass \/ Report

Spec == Init /\ [][Next]_vars

-----------------------------------------------------------------------------
(* Properties *)

Closed == {i \in 1 .. Len(trades) : trades[i].exit # 0}
Opened == (1 .. Len(trades)) \ Closed

\* What cash has come to by the records of trades: an open trade has taken its
\* ticket, a closed one has brought back its proceeds.
Flow(trade) == (IF trade.exit = 0 THEN 0 ELSE trade.back) - trade.usd
Balance(records) ==
    LET after[i \in 0 .. Len(records)] ==
            IF i = 0 THEN Start ELSE after[i - 1] + Flow(records[i])
    IN  after[Len(records)]

\* The trades the report shows account for all the money: cash is what the
\* closed trades brought and the open ones took, each position is one open trade
\* and found as such, and gross minus fees is net, trade by trade
\* (close_position, _open_idx, close).
BooksBalance ==
    /\ cash = Balance(trades)
    /\ \A t \in Held : {i \in Opened : trades[i].token = t} = {Record(t)}
    /\ {trades[i].token : i \in Opened} = Held
    /\ \A i \in Closed :
          trades[i].back - trades[i].usd + trades[i].fee
              = trades[i].qty * (trades[i].exit - trades[i].px)

\* Positions and resting orders together never exceed the slots, so that no
\* fill is ever turned away for want of one (simulate of limit_entry_bt).
SlotsBounded ==
    /\ Cardinality(Held) + Cardinality(Resting) <= MaxConcurrent
    /\ pass = "fills" => \A t \in todo : price[t] <= pending[t].limit => Touched(t)

\* Every simulator implements the promise the trading cycle makes about the
\* wallet: one position a token, and a cooldown after every exit.
Lifecycle == INSTANCE PositionLifecycle WITH
    Token <- Tokens,
    clock <- bar,
    position <- [t \in Tokens |-> IF t \in Held THEN 1 ELSE 0],
    closedAt <- lastExit
LifecycleKept == Lifecycle!Spec
===============================================================================
