---------------------------- MODULE TradingAgent ----------------------------
(***************************************************************************)
(* The live trading cycle of agent/loop.py together with everything it     *)
(* drives: reconcile (agent/state/reconcile.py), the executor              *)
(* (agent/execution/executor.py), the liquidity sentinel's baseline        *)
(* (agent/risk/liquidity.py) and the JSON store (agent/state/store.py).    *)
(* The wallet on chain is external: a swap confirms, fails, or is still    *)
(* pending when the twak call gives up.                                    *)
(*                                                                         *)
(* A position is counted in bullets: the tokens one entry buys.  Prices,   *)
(* sizes and indicators are choices the environment makes.  Every save of  *)
(* the store is a step of its own, so a crash can fall between two saves.  *)
(***************************************************************************)
EXTENDS RiskEngine, Sequences, FiniteSets

CONSTANTS
    Watchlist,          \* tokens.watchlist, in the order it is traded
    Stable,             \* tokens.stables[0], the trading stable
    OtherStable,        \* tokens.stables[1]
    GasCounts,          \* the wallet holds more than $1 of native BNB
    Cooldown,           \* limits.reentry_cooldown_h, in ticks
    DayLen,             \* ticks in a UTC day
    Deadline,           \* compliance.daily_trade_deadline_utc, tick of the day
    Ladder,             \* the risk states a cycle may find itself in
    Faults,             \* which of FaultKinds the environment may inject
    MaxTime,            \* bound on the clock
    MaxFaults,          \* bound on crashes plus timed-out swaps
    MaxFlight           \* bound on swaps pending after a timeout

FaultKinds == {"crash",     \* the process dies at any step, then restarts
               "timeout",   \* twak gives up on a swap that was broadcast
               "misread",   \* a balance or a price is missing or out of date
               "nodata",    \* CMC or RPC errors: skip, data gate or abort
               "revert",    \* quote or swap refused: no transaction
               "stop"}      \* request_stop, and a later start

ASSUME WatchlistAssumption ==
    /\ Watchlist \in Seq(Allowlist)
    /\ \A i, j \in DOMAIN Watchlist : Watchlist[i] = Watchlist[j] => i = j
    /\ \A i \in DOMAIN Watchlist : Watchlist[i] \notin {Stable, OtherStable}

ASSUME ClockAssumption ==
    /\ Cooldown \in Nat /\ MaxTime \in Nat
    /\ DayLen \in Nat \ {0} /\ Deadline \in 0 .. DayLen - 1

ASSUME EnvironmentAssumption ==
    /\ Faults \subseteq FaultKinds /\ Ladder \subseteq RiskState
    /\ GasCounts \in BOOLEAN
    /\ MaxFaults \in Nat /\ MaxFlight \in Nat

Token == {Watchlist[i] : i \in DOMAIN Watchlist}
Time  == 0 .. MaxTime
Day(n)  == n \div DayLen
Hour(n) == n % DayLen
Days  == {Day(n) : n \in Time}

\* No exit on record counts as one that lies a whole cooldown back.
LongAgo == 0 - Cooldown

VARIABLES
    now,        \* the UTC clock
    \* the wallet on chain
    held,       \* bullets of each token in the wallet
    flight,     \* swaps broadcast whose twak call gave up, in nonce order
    \* data/state.json
    entry,      \* entry_prices: is a cost basis on record?
    lastExit,   \* last_exits
    pool,       \* pool_baselines: is a liquidity baseline on record?
    trades,     \* trades_by_day
    \* the process
    pc,         \* where the cycle stands
    idx,        \* position in the loop over the watchlist
    seen,       \* the Portfolio snapshot of this cycle
    risk,       \* its drawdown state
    mayEnter,   \* regime scale times macro scale is not 0
    startedAt,  \* `now` of cycle(), -1 before the first
    signalAt,   \* signal_ts
    job,        \* the swap being executed
    \* history; at most what the environment may do depends on it
    soldAt,     \* when a token was last sold on chain
    swapped,    \* swaps on chain, by the day they were proposed
    entered,    \* those of them that opened a position
    misread,    \* tokens a snapshot has shown otherwise than they were
    faults      \* crashes and timeouts so far

clockVars == <<now, faults>>
wallet    == <<held, flight>>
store     == <<entry, lastExit, pool, trades>>
locals    == <<seen, risk, mayEnter, startedAt, signalAt>>
history   == <<soldAt, swapped, entered, misread>>
vars == <<clockVars, wallet, store, pc, idx, locals, job, history>>

SwapKind == {"entry", "exit", "flatten", "compliance"}
Swap  == [kind : SwapKind, tok : Token \cup {Stable}, amt : Nat, at : Time]
NoJob == [kind |-> "none", tok |-> Stable, amt |-> 0, at |-> 0]
Nothing == [t \in Token |-> 0]

TypeOK ==
    /\ now \in Time /\ faults \in Nat
    /\ held \in [Token -> Nat] /\ flight \in Seq(Swap)
    /\ entry \in [Token -> BOOLEAN] /\ pool \in [Token -> BOOLEAN]
    /\ lastExit \in [Token -> Time \cup {LongAgo}]
    /\ trades \in [Days -> Nat]
    /\ pc \in {"rest", "stopped", "reconcile", "flatten", "regime", "scan",
               "sentinel", "signal", "comply", "swap", "ledger", "book",
               "baseline", "unbook", "stamp", "unpool"}
    /\ idx \in 1 .. Len(Watchlist) + 1
    /\ seen \in [Token -> Nat] /\ risk \in RiskState /\ mayEnter \in BOOLEAN
    /\ startedAt \in Time \cup {-1} /\ signalAt \in Time
    /\ job \in Swap \cup {NoJob}
    /\ soldAt \in [Token -> Time \cup {LongAgo}]
    /\ swapped \in [Days -> Nat] /\ entered \in [Days -> Nat]
    /\ misread \subseteq Token

Init ==
    /\ now = 0 /\ faults = 0
    /\ held = Nothing /\ flight = <<>>
    /\ entry = [t \in Token |-> FALSE] /\ pool = [t \in Token |-> FALSE]
    /\ lastExit = [t \in Token |-> LongAgo]
    /\ trades = [d \in Days |-> 0]
    /\ pc = "rest" /\ idx = 1 /\ job = NoJob
    /\ seen = Nothing /\ risk = "NORMAL" /\ mayEnter = FALSE
    /\ startedAt = -1 /\ signalAt = 0
    /\ soldAt = [t \in Token |-> LongAgo]
    /\ swapped = [d \in Days |-> 0] /\ entered = [d \in Days |-> 0]
    /\ misread = {}

-----------------------------------------------------------------------------
(* Helpers *)

\* The token whose turn it is in a loop over the watchlist.
Tok == Watchlist[idx]

\* Portfolio.open_positions: every non-stable above dust, BNB included.
OpenPositions ==
    Cardinality({t \in Token : seen[t] > 0}) + (IF GasCounts THEN 1 ELSE 0)

InCooldown(t) == now - lastExit[t] < Cooldown

\* cycle() returns or raises: its locals are gone.
EndCycle ==
    /\ pc' = "rest" /\ idx' = 1 /\ job' = NoJob
    /\ seen' = Nothing /\ mayEnter' = FALSE /\ signalAt' = 0
    /\ UNCHANGED <<risk, startedAt>>

NextToken ==
    /\ pc' = "scan" /\ idx' = idx + 1 /\ job' = NoJob
    /\ UNCHANGED locals

\* Where execute() returns to when it has no result to book, or when the
\* caller books nothing.
Return(kind) ==
    \/ kind \in {"entry", "exit"} /\ NextToken
    \/ /\ kind = "flatten"
       /\ pc' = "flatten" /\ idx' = idx + 1 /\ job' = NoJob
       /\ UNCHANGED locals
    \/ kind = "compliance" /\ EndCycle

\* execute(): the verdict, on the trade count of the day it is asked.  A
\* proposal that passes goes on to the quote and the swap.
Execute(kind, t, p) ==
    LET s == [state |-> risk, signalAge |-> IF p.isEntry THEN now - signalAt ELSE 0,
              tradesToday |-> trades[Day(now)], openPositions |-> OpenPositions,
              cap |-> 1]
        amt == IF kind = "entry" THEN 1 ELSE IF t \in Token THEN seen[t] ELSE 0
    IN  \/ /\ Approves(p, s)
           /\ pc' = "swap"
           /\ job' = [kind |-> kind, tok |-> t, amt |-> amt, at |-> now]
           /\ UNCHANGED <<idx, locals>>
        \/ /\ ~Approves(p, s)
           /\ Return(kind)

Sell(t) == [from |-> t, to |-> Stable, isEntry |-> FALSE, usd |-> 1, edge |-> 0]
Buy(t, e) == [from |-> Stable, to |-> t, isEntry |-> TRUE, usd |-> 1, edge |-> e]

-----------------------------------------------------------------------------
(* The wallet on chain (external) *)

\* A sale of more than the wallet holds reverts.
Feasible(j) == j.kind \in {"exit", "flatten"} => held[j.tok] >= j.amt

Buys(j, t)  == j.kind = "entry" /\ t = j.tok
Sells(j, t) == j.kind \in {"exit", "flatten"} /\ t = j.tok

\* Swap j is mined.
Lands(j) ==
    /\ Feasible(j)
    /\ held' = [t \in Token |-> IF Buys(j, t) THEN held[t] + j.amt
                               ELSE IF Sells(j, t) THEN held[t] - j.amt ELSE held[t]]
    /\ soldAt' = [t \in Token |-> IF Sells(j, t) THEN now ELSE soldAt[t]]
    /\ swapped' = [swapped EXCEPT ![Day(j.at)] = @ + 1]
    /\ entered' = [entered EXCEPT ![Day(j.at)] =
                      IF j.kind = "entry" THEN @ + 1 ELSE @]
    /\ UNCHANGED misread

FlightLands ==
    /\ flight # <<>>
    /\ Lands(Head(flight))
    /\ flight' = Tail(flight)
    /\ UNCHANGED <<clockVars, store, pc, idx, locals, job>>

\* Dropped from the mempool, replaced, or reverted.
FlightDrops ==
    /\ flight # <<>>
    /\ flight' = Tail(flight)
    /\ UNCHANGED <<clockVars, held, store, pc, idx, locals, job, history>>

-----------------------------------------------------------------------------
(* run(): the clock, stopping, crashing *)

\* Time passes at any moment: a swap may take minutes.
Tick ==
    /\ now < MaxTime
    /\ now' = now + 1
    /\ UNCHANGED <<faults, wallet, store, pc, idx, locals, job, history>>

\* request_stop is honoured between cycles only.
Stop ==
    /\ "stop" \in Faults /\ pc = "rest"
    /\ pc' = "stopped"
    /\ UNCHANGED <<clockVars, wallet, store, idx, locals, job, history>>

Start ==
    /\ pc = "stopped"
    /\ pc' = "rest"
    /\ UNCHANGED <<clockVars, wallet, store, idx, locals, job, history>>

\* The process dies inside a cycle and comes back with what is on disk.  A
\* swap it was waiting for may have been broadcast.
Crash ==
    /\ "crash" \in Faults /\ faults < MaxFaults
    /\ pc \notin {"rest", "stopped"}
    /\ faults' = faults + 1
    /\ \/ UNCHANGED flight
       \/ /\ pc = "swap" /\ Len(flight) < MaxFlight
          /\ flight' = Append(flight, job)
    /\ EndCycle
    /\ UNCHANGED <<now, held, store, history>>

-----------------------------------------------------------------------------
(* cycle(): reconcile, ladder, regime *)

BeginCycle ==
    /\ pc = "rest"
    /\ pc' = "reconcile" /\ startedAt' = now
    /\ UNCHANGED <<clockVars, wallet, store, idx, seen, risk, mayEnter,
                   signalAt, job, history>>

\* What the snapshot may show: on-chain truth, $0 for a token whose balance or
\* price could not be read, or, where the transport's balances stand in for the
\* chain's, a bullet of a token that has been sold.
Readings ==
    IF "misread" \in Faults
    THEN {r \in [Token -> {0, 1} \cup {held[t] : t \in Token}] :
            \A t \in Token : \/ r[t] \in {0, held[t]}
                             \/ r[t] = 1 /\ soldAt[t] # LongAgo}
    ELSE {held}

\* The snapshot, and the rung of the ladder its value stands on.  Baseline,
\* high-water mark and hourly snapshots, saved here too, are kept in module
\* DrawdownMonitor; nothing below depends on them but risk.
Reconcile ==
    /\ pc = "reconcile"
    /\ seen' \in Readings
    /\ risk' \in Ladder
    /\ pc' = IF risk' = "HARD_STOP" THEN "flatten" ELSE "regime"
    /\ signalAt' = now
    /\ misread' = misread \cup {t \in Token : seen'[t] # held[t]}
    /\ UNCHANGED <<clockVars, wallet, store, idx, mayEnter, startedAt, job,
                   soldAt, swapped, entered>>

\* Mutant: a position worth one bullet passes for dust.
FlattenSkipOne ==
    /\ pc = "flatten" /\ idx <= Len(Watchlist) /\ seen[Tok] <= 1
    /\ Return("flatten")
    /\ UNCHANGED <<clockVars, wallet, store, history>>

\* _flatten_to_stables, one token of the snapshot at a time.
FlattenSkip ==
    /\ pc = "flatten" /\ idx <= Len(Watchlist) /\ seen[Tok] = 0
    /\ Return("flatten")
    /\ UNCHANGED <<clockVars, wallet, store, history>>

FlattenSell ==
    /\ pc = "flatten" /\ idx <= Len(Watchlist) /\ seen[Tok] > 0
    /\ Execute("flatten", Tok, Sell(Tok))
    /\ UNCHANGED <<clockVars, wallet, store, history>>

FlattenDone ==
    /\ pc = "flatten" /\ idx > Len(Watchlist)
    /\ EndCycle
    /\ UNCHANGED <<clockVars, wallet, store, history>>

\* Regime and macro calendar: together they open or close entries.
Regime ==
    /\ pc = "regime"
    /\ mayEnter' \in BOOLEAN
    /\ pc' = "scan"
    /\ UNCHANGED <<clockVars, wallet, store, idx, seen, risk, startedAt,
                   signalAt, job, history>>

\* No regime data: cycle() returns.
DataGate ==
    /\ "nodata" \in Faults /\ pc = "regime"
    /\ EndCycle
    /\ UNCHANGED <<clockVars, wallet, store, history>>

\* Any other exception while data is fetched or a swap is quoted unwinds to
\* run(), which counts it and goes on with the next cycle.
Abort ==
    /\ "nodata" \in Faults /\ pc \in {"reconcile", "scan", "sentinel", "signal", "swap"}
    /\ EndCycle
    /\ UNCHANGED <<clockVars, wallet, store, history>>

-----------------------------------------------------------------------------
(* _trade_watchlist: position management of one token *)

Scanning == pc = "scan" /\ idx <= Len(Watchlist)

\* No id or no price series for the token.
SkipToken ==
    /\ "nodata" \in Faults /\ Scanning
    /\ NextToken
    /\ UNCHANGED <<clockVars, wallet, store, history>>

\* A holding without a cost basis adopts the current price and goes on.
AdoptEntry ==
    /\ Scanning /\ seen[Tok] > 0 /\ ~entry[Tok]
    /\ entry' = [entry EXCEPT ![Tok] = TRUE]
    /\ pc' = "sentinel"
    /\ UNCHANGED <<clockVars, wallet, lastExit, pool, trades, idx, locals,
                   job, history>>

StopLoss ==
    /\ Scanning /\ seen[Tok] > 0 /\ entry[Tok]
    /\ Execute("exit", Tok, Sell(Tok))
    /\ UNCHANGED <<clockVars, wallet, store, history>>

AboveStop ==
    /\ Scanning /\ seen[Tok] > 0 /\ entry[Tok]
    /\ pc' = "sentinel"
    /\ UNCHANGED <<clockVars, wallet, store, idx, locals, job, history>>

\* Mutant: the cost basis is dropped but the exit is not booked.
SweepUnbooked ==
    /\ Scanning /\ seen[Tok] = 0 /\ entry[Tok]
    /\ entry' = [entry EXCEPT ![Tok] = FALSE]
    /\ pc' = "signal"
    /\ UNCHANGED <<clockVars, wallet, lastExit, pool, trades, idx, locals,
                   job, history>>

\* Mutant: a position on record is closed without looking at the snapshot.
SweepHeld ==
    /\ Scanning /\ entry[Tok]
    /\ pc' = "unbook"
    /\ UNCHANGED <<clockVars, wallet, store, idx, locals, job, history>>

\* The snapshot shows no position but a cost basis is on record: the
\* position left without an exit being booked.
Sweep ==
    /\ Scanning /\ seen[Tok] = 0 /\ entry[Tok]
    /\ pc' = "unbook"
    /\ UNCHANGED <<clockVars, wallet, store, idx, locals, job, history>>

NotHeld ==
    /\ Scanning /\ seen[Tok] = 0 /\ ~entry[Tok]
    /\ pc' = "signal"
    /\ UNCHANGED <<clockVars, wallet, store, idx, locals, job, history>>

\* sentinel.check without a baseline adopts one, unless CMC has no data.
AdoptPool ==
    /\ pc = "sentinel" /\ ~pool[Tok]
    /\ \/ pool' = [pool EXCEPT ![Tok] = TRUE]
       \/ "nodata" \in Faults /\ UNCHANGED pool
    /\ pc' = "signal"
    /\ UNCHANGED <<clockVars, wallet, entry, lastExit, trades, idx, locals,
                   job, history>>

PoolHolds ==
    /\ pc = "sentinel" /\ pool[Tok]
    /\ pc' = "signal"
    /\ UNCHANGED <<clockVars, wallet, store, idx, locals, job, history>>

PoolDrained ==
    /\ pc = "sentinel" /\ pool[Tok]
    /\ Execute("exit", Tok, Sell(Tok))
    /\ UNCHANGED <<clockVars, wallet, store, history>>

-----------------------------------------------------------------------------
(* _trade_watchlist: the signal of one token *)

\* HOLD, or a signal one of the gates (conviction, edge floor, volume,
\* minimum size, refused premium data) turns away.
NoTrade ==
    /\ pc = "signal"
    /\ NextToken
    /\ UNCHANGED <<clockVars, wallet, store, history>>

\* Mutant: the check that the token is not held is gone.
EnterHeld ==
    /\ pc = "signal" /\ mayEnter /\ ~InCooldown(Tok)
    /\ \E e \in {0, MinEdge} : Execute("entry", Tok, Buy(Tok, e))
    /\ UNCHANGED <<clockVars, wallet, store, history>>

\* BUY, or a grey-zone HOLD the premium data confirms.
Enter ==
    /\ pc = "signal" /\ seen[Tok] = 0 /\ mayEnter /\ ~InCooldown(Tok)
    /\ \E e \in {0, MinEdge} : Execute("entry", Tok, Buy(Tok, e))
    /\ UNCHANGED <<clockVars, wallet, store, history>>

SignalExit ==
    /\ pc = "signal" /\ seen[Tok] > 0
    /\ Execute("exit", Tok, Sell(Tok))
    /\ UNCHANGED <<clockVars, wallet, store, history>>

ScanDone ==
    /\ pc = "scan" /\ idx > Len(Watchlist)
    /\ pc' = "comply" /\ idx' = 1
    /\ UNCHANGED <<clockVars, wallet, store, locals, job, history>>

-----------------------------------------------------------------------------
(* _ensure_daily_trade, on the cycle's `now` *)

\* Mutant: the deadline itself is not yet late enough.
ComplianceDueLate == trades[Day(startedAt)] = 0 /\ Hour(startedAt) > Deadline

ComplianceDue == trades[Day(startedAt)] = 0 /\ Hour(startedAt) >= Deadline

NotDue ==
    /\ pc = "comply" /\ ~ComplianceDue
    /\ EndCycle
    /\ UNCHANGED <<clockVars, wallet, store, history>>

\* The heavier stable is swapped into the other one.
ForceTrade ==
    /\ pc = "comply" /\ ComplianceDue
    /\ \E s \in {<<Stable, OtherStable>>, <<OtherStable, Stable>>} :
         Execute("compliance", Stable,
                 [from |-> s[1], to |-> s[2], isEntry |-> FALSE, usd |-> 1, edge |-> 0])
    /\ UNCHANGED <<clockVars, wallet, store, history>>

-----------------------------------------------------------------------------
(* execute(): the swap and its bookkeeping *)

\* twak blocks until the transaction is confirmed, which the nonce order
\* allows only once every earlier transaction is out of the way.
SwapConfirms ==
    /\ pc = "swap" /\ flight = <<>>
    /\ Lands(job)
    /\ pc' = "ledger"
    /\ UNCHANGED <<clockVars, flight, store, idx, locals, job>>

\* Quote error, price impact above the tolerance, or a reverted swap.
SwapFails ==
    /\ pc = "swap"
    /\ "revert" \in Faults \/ ~Feasible(job)
    /\ Return(job.kind)
    /\ UNCHANGED <<clockVars, wallet, store, history>>

\* The call gives up (TimeoutExpired, non-JSON output) on a swap that was
\* broadcast: for the executor a failure like any other.
SwapTimesOut ==
    /\ "timeout" \in Faults /\ faults < MaxFaults
    /\ pc = "swap" /\ Len(flight) < MaxFlight
    /\ faults' = faults + 1
    /\ flight' = Append(flight, job)
    /\ Return(job.kind)
    /\ UNCHANGED <<now, held, store, history>>

\* Mutant: the trade is booked under the day its bookkeeping happens.
RecordTradeLate ==
    /\ pc = "ledger"
    /\ trades' = [trades EXCEPT ![Day(now)] = @ + 1]
    /\ \/ job.kind = "entry" /\ pc' = "book" /\ UNCHANGED <<idx, locals, job>>
       \/ job.kind = "exit" /\ pc' = "unbook" /\ UNCHANGED <<idx, locals, job>>
       \/ job.kind \in {"flatten", "compliance"} /\ Return(job.kind)
    /\ UNCHANGED <<clockVars, wallet, entry, lastExit, pool, history>>

\* Mutant: flattening and compliance swaps are not booked.
RecordTradeSome ==
    /\ pc = "ledger"
    /\ \/ /\ job.kind \in {"entry", "exit"}
          /\ trades' = [trades EXCEPT ![Day(job.at)] = @ + 1]
          /\ pc' = IF job.kind = "entry" THEN "book" ELSE "unbook"
          /\ UNCHANGED <<idx, locals, job>>
       \/ job.kind \in {"flatten", "compliance"} /\ Return(job.kind) /\ UNCHANGED trades
    /\ UNCHANGED <<clockVars, wallet, entry, lastExit, pool, history>>

\* store.record_trade, under the day execute() began.
RecordTrade ==
    /\ pc = "ledger"
    /\ trades' = [trades EXCEPT ![Day(job.at)] = @ + 1]
    /\ \/ job.kind = "entry" /\ pc' = "book" /\ UNCHANGED <<idx, locals, job>>
       \/ job.kind = "exit" /\ pc' = "unbook" /\ UNCHANGED <<idx, locals, job>>
       \/ job.kind \in {"flatten", "compliance"} /\ Return(job.kind)
    /\ UNCHANGED <<clockVars, wallet, entry, lastExit, pool, history>>

RecordEntry ==
    /\ pc = "book"
    /\ entry' = [entry EXCEPT ![Tok] = TRUE]
    /\ pc' = "baseline"
    /\ UNCHANGED <<clockVars, wallet, lastExit, pool, trades, idx, locals,
                   job, history>>

\* sentinel.on_entry: without data the baseline stays what it was.
RecordPool ==
    /\ pc = "baseline"
    /\ \/ pool' = [pool EXCEPT ![Tok] = TRUE]
       \/ "nodata" \in Faults /\ UNCHANGED pool
    /\ NextToken
    /\ UNCHANGED <<clockVars, wallet, entry, lastExit, trades, history>>

\* _position_closed: three saves.
ClearEntry ==
    /\ pc = "unbook"
    /\ entry' = [entry EXCEPT ![Tok] = FALSE]
    /\ pc' = "stamp"
    /\ UNCHANGED <<clockVars, wallet, lastExit, pool, trades, idx, locals,
                   job, history>>

\* Mutant: the exit is stamped with the time the cycle began.
StampExitEarly ==
    /\ pc = "stamp"
    /\ lastExit' = [lastExit EXCEPT ![Tok] = startedAt]
    /\ pc' = "unpool"
    /\ UNCHANGED <<clockVars, wallet, entry, pool, trades, idx, locals,
                   job, history>>

StampExit ==
    /\ pc = "stamp"
    /\ lastExit' = [lastExit EXCEPT ![Tok] = now]
    /\ pc' = "unpool"
    /\ UNCHANGED <<clockVars, wallet, entry, pool, trades, idx, locals,
                   job, history>>

\* Mutant: the baseline stays behind.
ClearPoolNot ==
    /\ pc = "unpool"
    /\ \/ job = NoJob /\ pc' = "signal" /\ UNCHANGED <<idx, locals, job>>
       \/ job # NoJob /\ NextToken
    /\ UNCHANGED <<clockVars, wallet, store, history>>

\* After a booked exit the loop continues; after a sweep the same token's
\* signal is evaluated.
ClearPool ==
    /\ pc = "unpool"
    /\ pool' = [pool EXCEPT ![Tok] = FALSE]
    /\ \/ job = NoJob /\ pc' = "signal" /\ UNCHANGED <<idx, locals, job>>
       \/ job # NoJob /\ NextToken
    /\ UNCHANGED <<clockVars, wallet, entry, lastExit, trades, history>>

-----------------------------------------------------------------------------
(* The system *)

Manage  == AdoptEntry \/ StopLoss \/ AboveStop \/ Sweep \/ NotHeld \/ SkipToken
           \/ AdoptPool \/ PoolHolds \/ PoolDrained
Signal  == NoTrade \/ Enter \/ SignalExit \/ ScanDone
Flatten == FlattenSkip \/ FlattenSell \/ FlattenDone
Comply  == NotDue \/ ForceTrade
Swapping == SwapConfirms \/ SwapFails \/ SwapTimesOut
Book    == RecordTrade \/ RecordEntry \/ RecordPool
           \/ ClearEntry \/ StampExit \/ ClearPool
Agent   == BeginCycle \/ Reconcile \/ Regime \/ DataGate \/ Abort \/ Flatten
           \/ Manage \/ Signal \/ Comply \/ Swapping \/ Book
Chain   == FlightLands \/ FlightDrops

Next == Agent \/ Chain \/ Tick \/ Stop \/ Start \/ Crash

Spec == Init /\ [][Next]_vars

\* The process keeps stepping, a pending transaction is mined or dropped,
\* and neither the balance read nor a swap that is retried for ever fails
\* every time.
Fairness == WF_vars(Agent) /\ WF_vars(Chain) /\ WF_vars(Start) /\ SF_vars(BeginCycle)
            /\ SF_vars(Reconcile) /\ SF_vars(SwapConfirms)

FairSpec == Spec /\ Fairness

\* The abstract lifecycle, with the wallet itself as its positions.
Lifecycle == INSTANCE PositionLifecycle
    WITH clock <- now, position <- held, closedAt <- soldAt

-----------------------------------------------------------------------------
(* Properties *)

\* record_trade (executor.py:123) never runs for a swap that is not on chain,
\* and books it under the day it was proposed, whatever crashes, times out or
\* is misread on the way: the daily ledger never shows more than happened.
LedgerNeverOverstates == \A d \in Days : trades[d] <= swapped[d]

\* One fault costs the ledger at most one line: a swap that is on chain but in
\* no ledger was cut off from its record by a crash or a timeout of its own.
LedgerLossBounded ==
    pc = "rest" => \A d \in Days : swapped[d] <= trades[d] + faults

\* Between two cycles, the ledger shows exactly the swaps of the wallet, as
\* long as no crash and no timeout has come between a swap and its record.
LedgerExactAtRest == pc = "rest" => trades = swapped

\* limits.max_trades_per_day: no more than that many entries are opened
\* among the swaps proposed on one UTC day.
DailyEntryCap == \A d \in Days : entered[d] <= MaxTradesPerDay

\* One fault buys at most one entry over the limit: whatever crashes, times out or
\* is misread, the entries of a day exceed it by no more than the faults so far.
EntriesPerFault == \A d \in Days : entered[d] <= MaxTradesPerDay + faults

\* One position is one bullet: a token already in the wallet is not bought
\* again, although holding is judged by a snapshot from before the scan.
NoDoubleEntry == \A t \in Token : held[t] <= 1

\* One fault buys at most one bullet too many: an entry given up on may still land
\* after the next one, or be repeated before it lands, but every such bullet has a
\* crash or a timeout of its own, unless that token was held and read as $0.
BulletsPerFault == \A t \in Token \ misread : held[t] <= 1 + faults

\* position.max_concurrent: the wallet never holds more positions than that.
ConcurrencyCap == Cardinality({t \in Token : held[t] > 0}) <= MaxConcurrent

\* Re-entry cooldown (#9): a token is not bought within Cooldown of its last
\* sale on chain, whoever sold it: stop-loss, sentinel, signal or flatten.
CooldownHolds ==
    [][\A t \in Token : held'[t] > held[t] => now - soldAt[t] >= Cooldown]_vars

\* The wallet goes through the abstract lifecycle: the cycle, with its stale
\* snapshot, its separate saves and its sweep, implements PositionLifecycle.
LifecycleSpec == Lifecycle!Spec

\* Between two cycles every position has the cost basis its stop-loss needs.
StopLossArmed == pc = "rest" => \A t \in Token : held[t] > 0 => entry[t]

\* A swap cut off from its bookkeeping, or mined after its cycle gave it up, may
\* leave a position without the cost basis of its stop-loss, and a stale snapshot may
\* sweep one away (_trade_watchlist, loop.py:518); one fault disarms at most one,
\* those apart that were held and read as $0.
Unarmed == {t \in Token \ misread : held[t] > 0 /\ ~entry[t]}
UnarmedPerFault == pc = "rest" => Cardinality(Unarmed) <= faults

\* Between two cycles a liquidity baseline belongs to a position on record,
\* so that no later position is measured against an older one's pool.
NoOrphanBaseline == pc = "rest" => \A t \in Token : pool[t] => entry[t]

\* A restart between the three saves of an exit (_position_closed, loop.py:625-628)
\* may leave a baseline behind, for a later position to be measured against; one
\* crash leaves at most one.
Orphans == {t \in Token : pool[t] /\ ~entry[t]}
OrphansPerCrash == pc = "rest" => Cardinality(Orphans) <= faults

\* Hard stop (loop.py:380): if the drawdown stays past the hard stop, the
\* wallet is flat in the end and stays flat.
HardStopFlattens == <>[](risk = "HARD_STOP") => <>[](held = Nothing)

\* Compliance (docs/ARCHITECTURE.md, Cycle step 7): a day on which cycles past
\* the deadline go on to their last step sees a swap, although swaps fail,
\* cycles are given up and the agent is stopped in between.
DailyTrade ==
    \A d \in Days :
        []<>(pc = "comply" /\ Day(startedAt) = d /\ Hour(startedAt) >= Deadline)
            => <>(swapped[d] > 0)
=============================================================================
