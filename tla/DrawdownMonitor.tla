-------------------------- MODULE DrawdownMonitor ---------------------------
(***************************************************************************)
(* The money side of the cycle: the valuation of the wallet                *)
(* (agent/state/reconcile.py), the return baseline, the high-water mark    *)
(* and the hourly snapshots (agent/monitor/snapshot.py, one save each in   *)
(* agent/state/store.py), and the drawdown ladder (agent/risk/engine.py).  *)
(* Trading is reduced to one volatile coin; TradingAgent has that side.    *)
(* Dry-run and live processes take turns on one state file.  Prices, TWAK  *)
(* and the chain belong to the environment.                                *)
(***************************************************************************)
EXTENDS Integers, Sequences, FiniteSets

CONSTANTS
    AlertPct, PausePct, HardStopPct,    \* the drawdown ladder
    Dust,           \* a holding worth no more than this is no position
    Interval,       \* SNAPSHOT_INTERVAL, in cycles
    Cash, Coin, Gas,\* what the wallet starts with, in thousandths: of the stable,
                    \* of the coin, of a BNB
    Deposit,        \* what the operator pays in before going live
    Prices,         \* what CMC may quote for a thousandth of each asset
    Par,            \* what a thousandth of the stable fetches in a pool
    Faults,         \* of "crash", "misread", "revert", "timeout"
    MaxMisreads,    \* bound on wrong readings
    MaxPending,     \* bound on swaps pending after a timeout
    MaxTime         \* bound on the number of cycles

Asset == {"CASH", "COIN", "BNB"}
Quoted == {q \in [Asset -> UNION {Prices[a] : a \in Asset}] : \A a \in Asset : q[a] \in Prices[a]}

ASSUME LadderAssumption ==
    /\ AlertPct \in Nat \ {0} /\ PausePct \in Nat /\ HardStopPct \in Nat
    /\ AlertPct <= PausePct /\ PausePct <= HardStopPct /\ HardStopPct <= 100

ASSUME WorldAssumption ==
    /\ {Dust, Cash, Coin, Gas, Deposit, MaxTime, MaxPending, MaxMisreads} \subseteq Nat
    /\ Interval \in Nat \ {0} /\ Par \in Nat \ {0} /\ Prices \in [Asset -> SUBSET (Nat \ {0})]
    /\ Faults \subseteq {"crash", "misread", "revert", "timeout"}

Ladder == {"NORMAL", "ALERT", "PAUSE_ENTRIES", "HARD_STOP"}

VARIABLES
    now,        \* counts cycle intervals
    cash, coin, \* the wallet; its BNB is never traded
    pending,    \* swaps given up on that may still be mined, oldest first
    price,      \* what the assets are quoted at
    \* data/state.json
    baseline,   \* baseline_usd, 0 for None
    hwm,        \* high_water_mark_usd
    snaps,      \* snapshots
    \* the process
    live,       \* not cfg.dry_run
    pc,
    startedAt,  \* `now` of cycle()
    value,      \* usd_values of the Portfolio
    amount,     \* its holdings of the coin
    risk,
    \* history; only the bound on misreadings reads it
    clean,      \* no crash and no wrong reading so far; as long as there is none:
    worth,      \* what the wallet was worth when this cycle read it
    peak,       \* the most it was worth at any read
    firstLive,  \* what it was worth at the first live read, 0 before
    misreads,   \* wrong readings so far
    inflated    \* one of them has shown more than there was

wallet  == <<cash, coin, pending, price>>
reading == <<value, amount>>
store   == <<baseline, hwm, snaps>>
past    == <<peak, firstLive, clean, misreads, inflated>>
history == <<worth, past>>
vars == <<now, wallet, store, live, pc, startedAt, reading, risk, history>>

NoValue == [a \in Asset |-> 0]
Total   == value["CASH"] + value["COIN"] + value["BNB"]

\* What is in the wallet, and what it is worth.
Wallet == [a \in Asset |-> CASE a = "CASH" -> cash [] a = "COIN" -> coin [] a = "BNB" -> Gas]
True   == [a \in Asset |-> Wallet[a] * price[a]]
Worth  == True["CASH"] + True["COIN"] + True["BNB"]

Swap == [side : {"buy", "sell"}, amount : Nat]

TypeOK ==
    /\ now \in Nat /\ startedAt \in Nat \cup {-1}
    /\ cash \in Nat /\ coin \in Nat /\ pending \in Seq(Swap) /\ price \in Quoted
    /\ baseline \in Nat /\ hwm \in Nat
    /\ snaps \in Seq([ts : Nat, usd : Nat])
    /\ live \in BOOLEAN /\ value \in [Asset -> Nat] /\ amount \in Nat /\ risk \in Ladder
    /\ pc \in {"stopped", "rest", "baseline", "observe", "snapshot", "ladder",
               "flatten", "trade"}
    /\ pc \in {"stopped", "rest"} \/ startedAt # -1
    /\ worth \in Nat /\ peak \in Nat /\ firstLive \in Nat
    /\ clean \in BOOLEAN /\ misreads \in Nat /\ inflated \in BOOLEAN

Init ==
    /\ now = 0 /\ startedAt = -1
    /\ cash = Cash /\ coin = Coin /\ pending = <<>> /\ price \in Quoted
    /\ baseline = 0 /\ hwm = 0 /\ snaps = <<>>
    /\ live = FALSE /\ pc = "stopped" /\ value = NoValue /\ amount = 0 /\ risk = "NORMAL"
    /\ worth = 0 /\ peak = 0 /\ firstLive = 0 /\ clean = TRUE
    /\ misreads = 0 /\ inflated = FALSE

-----------------------------------------------------------------------------
(* The ladder *)

\* Mutant: the boundary itself does not count.
DrawdownPasses(total, mark, pct) == mark > 0 /\ (mark - total) * 100 > pct * mark

\* The drawdown of total from mark is at least pct percent.
DrawdownReaches(total, mark, pct) == mark > 0 /\ (mark - total) * 100 >= pct * mark

DrawdownState ==
    IF DrawdownReaches(Total, hwm, HardStopPct) THEN "HARD_STOP"
    ELSE IF DrawdownReaches(Total, hwm, PausePct) THEN "PAUSE_ENTRIES"
    ELSE IF DrawdownReaches(Total, hwm, AlertPct) THEN "ALERT" ELSE "NORMAL"

-----------------------------------------------------------------------------
(* The world *)

PriceMoves ==
    /\ \E a \in Asset : \E p \in Prices[a] : price' = [price EXCEPT ![a] = p]
    /\ UNCHANGED <<now, cash, coin, pending, store, live, pc, startedAt, reading, risk, history>>

\* What n thousandths of the coin cost in the stable.
InCash(n) == (n * price["COIN"]) \div Par

\* A swap of more than there is reverts.
Covered(s) == IF s.side = "sell" THEN s.amount <= coin ELSE InCash(s.amount) <= cash

\* Swap s is mined.
Mined(s) ==
    /\ Covered(s)
    /\ coin' = IF s.side = "sell" THEN coin - s.amount ELSE coin + s.amount
    /\ cash' = IF s.side = "sell" THEN cash + InCash(s.amount) ELSE cash - InCash(s.amount)

\* A swap the client has given up on is mined after all, or is dropped.
LateSwap ==
    /\ pending # <<>> /\ pending' = Tail(pending)
    /\ Mined(Head(pending)) \/ UNCHANGED <<cash, coin>>
    /\ UNCHANGED <<now, price, store, live, pc, startedAt, reading, risk, history>>

Tick ==
    /\ now < MaxTime
    /\ now' = now + 1
    /\ UNCHANGED <<wallet, store, live, pc, startedAt, reading, risk, history>>

\* The operator pays in before the live window.
Fund ==
    /\ pc = "stopped" /\ baseline = 0 /\ cash < Cash + Deposit
    /\ cash' = cash + Deposit
    /\ UNCHANGED <<now, coin, pending, price, store, live, pc, startedAt, reading, risk, history>>

\* The locals of cycle() are gone.
Forget == value' = NoValue /\ amount' = 0 /\ risk' = "NORMAL" /\ worth' = 0

\* Mutant: the mark is kept in the process only.
StartUnmarked ==
    /\ pc = "stopped"
    /\ live' \in BOOLEAN
    /\ pc' = "rest" /\ hwm' = 0
    /\ UNCHANGED <<now, wallet, baseline, snaps, startedAt, reading, risk, history>>

\* The same state file is handed from dry runs to live processes and back.
Start ==
    /\ pc = "stopped"
    /\ live' \in BOOLEAN
    /\ pc' = "rest"
    /\ UNCHANGED <<now, wallet, store, startedAt, reading, risk, history>>

Stop ==
    /\ pc = "rest"
    /\ pc' = "stopped" /\ live' = FALSE
    /\ UNCHANGED <<now, wallet, store, startedAt, reading, risk, history>>

\* The process dies in a cycle; only what is on disk survives.
Crash ==
    /\ "crash" \in Faults /\ pc \notin {"rest", "stopped"}
    /\ pc' = "stopped" /\ live' = FALSE /\ Forget
    /\ clean' = FALSE /\ peak' = 0 /\ firstLive' = 0
    /\ UNCHANGED <<now, wallet, store, startedAt, misreads, inflated>>

-----------------------------------------------------------------------------
(* One cycle *)

MayMisread == "misread" \in Faults /\ misreads < MaxMisreads

\* A balance is what the chain says; where it cannot be asked, what the transport
\* says, which may be out of date (here: from before the first swap), or nothing.
Balances ==
    IF MayMisread
    THEN {b \in [Asset -> {0, cash, coin, Gas, Cash, Coin}] :
            /\ b["CASH"] \in {0, cash, Cash} /\ b["COIN"] \in {0, coin, Coin}
            /\ b["BNB"] \in {0, Gas}}
    ELSE {Wallet}

\* A quote may be missing, that of a stable as well; its asset is valued at $0.
Quotes ==
    IF MayMisread
    THEN {[a \in Asset |-> IF a \in missing THEN 0 ELSE price[a]] : missing \in SUBSET Asset}
    ELSE {price}

Reconcile ==
    /\ pc = "rest" /\ startedAt # now
    /\ \E b \in Balances, q \in Quotes :
         /\ value' = [a \in Asset |-> b[a] * q[a]] /\ amount' = b["COIN"]
    /\ startedAt' = now /\ pc' = "baseline"
    /\ clean' = (clean /\ value' = True)
    /\ IF clean'
       THEN /\ worth' = Worth /\ peak' = IF Worth > peak THEN Worth ELSE peak
            /\ firstLive' = IF live /\ firstLive = 0 THEN Worth ELSE firstLive
       ELSE worth' = 0 /\ peak' = 0 /\ firstLive' = 0
    /\ misreads' = IF value' = True THEN misreads ELSE misreads + 1
    /\ inflated' = (inflated \/ \E a \in Asset : value'[a] > True[a])
    /\ UNCHANGED <<now, wallet, store, live, risk>>

\* Mutant: a dry run may set the baseline.
SetBaselineDry ==
    /\ pc = "baseline"
    /\ baseline' = IF baseline = 0 THEN Total ELSE baseline
    /\ pc' = "observe"
    /\ UNCHANGED <<now, wallet, hwm, snaps, live, startedAt, reading, risk, history>>

\* store.set_baseline, on the first live cycle that sees any value.
SetBaseline ==
    /\ pc = "baseline"
    /\ baseline' = IF baseline = 0 /\ live THEN Total ELSE baseline
    /\ pc' = "observe"
    /\ UNCHANGED <<now, wallet, hwm, snaps, live, startedAt, reading, risk, history>>

\* Mutant: the mark is compared with the baseline instead of with itself.
ObserveBaseline ==
    /\ pc = "observe"
    /\ hwm' = IF Total > baseline THEN Total ELSE hwm
    /\ pc' = "snapshot"
    /\ UNCHANGED <<now, wallet, baseline, snaps, live, startedAt, reading, risk, history>>

\* store.observe_portfolio: every cycle, not only on the hour.
ObservePortfolio ==
    /\ pc = "observe"
    /\ hwm' = IF Total > hwm THEN Total ELSE hwm
    /\ pc' = "snapshot"
    /\ UNCHANGED <<now, wallet, baseline, snaps, live, startedAt, reading, risk, history>>

\* maybe_snapshot: store.record_snapshot when the last one is an hour old.
RecordSnapshot ==
    /\ pc = "snapshot"
    /\ LET due == snaps = <<>> \/ startedAt - snaps[Len(snaps)].ts >= Interval
       IN  snaps' = IF due THEN Append(snaps, [ts |-> startedAt, usd |-> Total])
                           ELSE snaps
    /\ pc' = "ladder"
    /\ UNCHANGED <<now, wallet, baseline, hwm, live, startedAt, reading, risk, history>>

Climb ==
    /\ pc = "ladder"
    /\ risk' = DrawdownState
    /\ pc' = IF risk' = "HARD_STOP" THEN "flatten" ELSE "trade"
    /\ UNCHANGED <<now, wallet, store, live, startedAt, reading, history>>

EndCycle == pc' = "rest" /\ Forget

\* A dry run moves nothing.  A live swap is mined, which the nonce order allows only
\* once every earlier one is out of the way; or it is refused or reverts; or the
\* client gives up on it.
Execute(s) ==
    \/ /\ live /\ pending = <<>> /\ Mined(s) /\ UNCHANGED pending
    \/ /\ ~live \/ "revert" \in Faults \/ pending # <<>> \/ ~Covered(s)
       /\ UNCHANGED <<cash, coin, pending>>
    \/ /\ live /\ "timeout" \in Faults /\ Len(pending) < MaxPending
       /\ pending' = Append(pending, s) /\ UNCHANGED <<cash, coin>>

\* An exit sells what the reading showed but for a thousandth of it.
SellOff == [side |-> "sell", amount |-> (amount * 999) \div 1000]

\* _flatten_to_stables: what the reading shows above dust is sold.
Flatten ==
    /\ pc = "flatten"
    /\ \/ value["COIN"] > Dust /\ Execute(SellOff)
       \/ value["COIN"] <= Dust /\ UNCHANGED <<cash, coin, pending>>
    /\ EndCycle
    /\ UNCHANGED <<now, price, store, live, startedAt, past>>

\* _trade_watchlist: an entry (for one coin), an exit or nothing.
Trade ==
    /\ pc = "trade"
    /\ \/ UNCHANGED <<cash, coin, pending>>
       \/ value["COIN"] > Dust /\ Execute(SellOff)
       \/ /\ value["COIN"] <= Dust /\ risk \in {"NORMAL", "ALERT"}
          /\ Execute([side |-> "buy", amount |-> 1000])
    /\ EndCycle
    /\ UNCHANGED <<now, price, store, live, startedAt, past>>

Next == PriceMoves \/ LateSwap \/ Tick \/ Fund \/ Start \/ Stop \/ Crash \/ Reconcile
        \/ SetBaseline \/ ObservePortfolio \/ RecordSnapshot \/ Climb
        \/ Flatten \/ Trade

Spec == Init /\ [][Next]_vars

-----------------------------------------------------------------------------
(* Properties *)

\* Every snapshot on disk lies at or below the mark on disk, crash or no crash
\* between observe_portfolio and record_snapshot (snapshot.py:31-35).
SnapshotsBelowMark == \A i \in DOMAIN snaps : snaps[i].usd <= hwm

\* The judge's drawdown is covered (snapshot.py:4): a cycle that goes on
\* trading is not past the hard stop when measured from any hourly snapshot,
\* whatever was misread and whichever saves a crash has cut off.
LadderCoversJudge ==
    pc = "trade" =>
        \A i \in DOMAIN snaps : ~DrawdownReaches(Total, snaps[i].usd, HardStopPct)

\* What the wallet was worth has fallen by hard_stop_pct from its peak.
RealLoss == peak > 0 /\ 100 * worth <= (100 - HardStopPct) * peak

\* As long as nothing was misread or cut off, the wallet is flattened exactly
\* when what it is really worth has fallen by the hard stop from the most it
\* was ever worth at a reading.
HardStopIsExact ==
    clean =>
      /\ pc = "flatten" => RealLoss
      /\ pc = "trade"   => ~RealLoss

\* The return baseline is what the first live reading of the wallet showed,
\* over every later restart, dry run, deposit and trade (loop.py:363).
BaselineIsFirstLive == clean => baseline \in {0, firstLive}

\* Of the coin there is dust, no swap is under way, and no quote would lift the
\* wallet above the hard stop.
Sunk ==
    /\ pending = <<>>
    /\ \A q \in Quoted : /\ coin * q["COIN"] <= Dust
                         /\ DrawdownReaches(cash * q["CASH"] + coin * q["COIN"] + Gas * q["BNB"],
                                            hwm, HardStopPct)

\* The hard stop is final although no flag says so (loop.py:380): once a cycle
\* finds nothing to sell and the wallet sunk, no later cycle trades again, over every
\* restart, dry run, crash and missing balance or quote, until one shows more than
\* there is.  The operator pays in only before there is a baseline.
FlatIsFinal ==
    [](pc = "flatten" /\ value["COIN"] <= Dust /\ baseline > 0 /\ Sunk
         => [](pc # "trade" \/ inflated))
=============================================================================
