----------------------------- MODULE Strategies -----------------------------
(***************************************************************************)
(* The strategies of agent/strategies as decisions over indicator readings. *)
(* A reading stands for one price series: how its last price and the two    *)
(* EMAs of the strategy are ordered, which side of its thresholds the RSI   *)
(* is on, which way MACD histogram and price have moved.  Sizes and edges   *)
(* are left out: a signal is its action and the grey-zone flag.             *)
(***************************************************************************)
EXTENDS Integers, FiniteSets

Ranks == 1 .. 3
Moves == {-1, 0, 1}

\* One value for each interval the strategies' thresholds cut the RSI into.
RsiLevels == {30, 33, 45, 52, 57, 65, 72, 77, 85}

\* A breakout and a run of higher closes both end in a higher close.  A price
\* above the high of a day is above the nine-bar EMA of the same prices, unless
\* what came before that day was hundreds of times dearer.
Coherent(r) ==
    /\ r.breakout \/ r.ups => r.last = 1
    /\ r.breakout => r.px > r.fast

Readings ==
    {r \in [px : Ranks, fast : Ranks, slow : Ranks, bull : BOOLEAN, rsi : RsiLevels,
            hist : Moves, last : Moves, breakout : BOOLEAN, nearFloor : BOOLEAN,
            ups : BOOLEAN] : Coherent(r)}

Signal(action, grey) == [action |-> action, grey |-> grey]
Buy == Signal("buy", FALSE)
Sell == Signal("sell", FALSE)
Hold == Signal("hold", FALSE)
GreyZone == Signal("hold", TRUE)

\* What a strategy does with a token it holds, and with one it does not.
Decide(holding, exit, entry, otherwise) ==
    IF holding THEN IF exit THEN Sell ELSE otherwise
               ELSE IF entry THEN Buy ELSE otherwise

-----------------------------------------------------------------------------
\* Uptrend, MACD bullish, above the slow EMA, not overbought.
Conditions(r) == <<r.fast > r.slow, r.bull, r.px > r.slow, r.rsi < 70>>
Met(r) == Cardinality({i \in 1 .. 4 : Conditions(r)[i]})

\* technical.evaluate reports a grey zone or a buy for a held token too, if its
\* exit rule does not fire; the loop drops both.
Trend(r, holding) ==
    LET exit == r.px <= r.slow \/ r.rsi >= 80 \/ (~r.bull /\ r.fast <= r.slow)
    IN  IF holding /\ exit THEN Sell
        ELSE CASE Met(r) = 4 -> Buy [] Met(r) = 3 -> GreyZone [] OTHER -> Hold

\* Mutant: the failed bounce is tested against the price instead of momentum.
BounceNervous(r, holding) ==
    Decide(holding,
           r.px >= r.slow \/ r.rsi >= 55 \/ r.px < r.fast,
           r.rsi <= 35 /\ r.px < r.slow /\ r.hist = 1 /\ r.last = 1,
           Hold)

Bounce(r, holding) ==
    Decide(holding,
           r.px >= r.slow \/ r.rsi >= 55 \/ (r.hist = -1 /\ r.px < r.fast),
           r.rsi <= 35 /\ r.px < r.slow /\ r.hist = 1 /\ r.last = 1,
           Hold)

\* Its mean is the only EMA it reads.
MeanReversion(r, holding) ==
    Decide(holding,
           r.px >= r.slow \/ r.rsi >= 50,
           r.rsi <= 30 /\ r.px < r.slow,
           Hold)

Momentum(r, holding) ==
    Decide(holding,
           r.px < r.fast \/ (r.hist = -1 /\ r.last = -1),
           r.breakout /\ r.hist = 1 /\ r.last = 1 /\ r.rsi >= 50 /\ r.rsi <= 75,
           Hold)

Reclaim(r, holding) ==
    Decide(holding,
           r.px >= r.slow \/ r.rsi >= 60 \/ (r.last = -1 /\ r.px < r.fast),
           r.px < r.slow /\ r.nearFloor /\ r.ups,
           Hold)

-----------------------------------------------------------------------------
\* The registry.
Plugins == {"trend", "bounce", "mean_reversion", "momentum", "reclaim"}

Evaluate(strategy, r, holding) ==
    CASE strategy = "trend" -> Trend(r, holding)
      [] strategy = "bounce" -> Bounce(r, holding)
      [] strategy = "mean_reversion" -> MeanReversion(r, holding)
      [] strategy = "momentum" -> Momentum(r, holding)
      [] strategy = "reclaim" -> Reclaim(r, holding)

\* Everything the loop can hear from a strategy about one state of the data,
\* flat and holding; a series shorter than min_bars is held either way.
Outlook(strategy, r) ==
    [flat |-> Evaluate(strategy, r, FALSE), held |-> Evaluate(strategy, r, TRUE)]

Outlooks(strategy) ==
    {Outlook(strategy, r) : r \in Readings} \cup {[flat |-> Hold, held |-> Hold]}
=============================================================================
