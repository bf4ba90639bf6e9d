# Verification of the trading agent

TLA+ models of the autonomous BSC trading agent in this repository, the TLC
configurations that check them and the theorems TLAPS proves about them.
Paths below are relative to `src/`.

## The system

The agent is one process: `AgentLoop.run` (`agent/loop.py`) calls `cycle()`
every `cycle_interval_s`. A cycle reads the wallet, judges its drawdown,
manages positions, perhaps opens new ones, and makes sure that every UTC day
sees one trade. A swap is a blocking call of the external `twak` tool. A few
facts live in one JSON file; everything else is read from the chain anew. A
second process sells the agent's products over x402; scripts share files with
both.

| Component | State | Operations | Talks to | What makes it correct |
|---|---|---|---|---|
| Trading cycle, `agent/loop.py` | locals of one cycle: snapshot, risk state, `signal_ts` | `cycle`, `_trade_watchlist`, `_position_closed`, `_flatten_to_stables`, `_ensure_daily_trade` | all below | one bullet per token, caps, cooldown, stop-loss always armed, flat after a hard stop, one trade a day |
| Executor, `agent/execution/executor.py` | none | `execute` | risk engine, twak, store | the ledger shows what is on chain |
| Risk engine, `agent/risk/engine.py` | none | `evaluate`, `drawdown_state` | - | limits hold on the facts handed in; the ladder follows the real drawdown |
| Store, `agent/state/store.py` | `data/state.json` | a save per fact, atomic by `os.replace` | disk | what is on disk after a crash is usable |
| Reconcile and chain, `agent/state/reconcile.py`, `agent/chain.py` | none | `reconcile`, `holdings`, `get_logs` | RPC, CMC, twak | the snapshot is the wallet |
| Liquidity sentinel, `agent/risk/liquidity.py` | baselines in the store | `on_entry`, `check`, `clear` | CMC | a baseline belongs to the position it judges |
| Self-monitor, `agent/monitor/snapshot.py` | mark and snapshots in the store | `maybe_snapshot` | store | drawdown as the judge measures it |
| Run loop, window, restart | deadline, error count, stop flag | `run`, `request_stop`, docker restart | cycle | keeps to its window, heeds a stop, survives errors |
| Friction measurement, `scripts/liquidity_filter.py` | `liquidity_report.json`, `watchlist.local.yaml` | `main`, run by the entrypoint and by the loop | twak quotes | a waived fee is noticed, and nothing else sends the agent away |
| Macro calendar, `agent/risk/macro.py` | event table, mtime | `status`, `_load` | a file an operator edits | entries closed in a window, open otherwise |
| CMC client, `agent/cmc/client.py` | TTL cache | `_get` and readers | HTTP | data no older than the freshness gate believes |
| Signals, strategies, `agent/signals`, `agent/strategies` | none | `evaluate`, `classify` | - | an entry is not an exit on the same data |
| TWAK client, `agent/twak/client.py` | none | `balances`, `quote`, `swap` with one retry | subprocess or REST | a call swaps once |
| x402 buyer, ledger, `agent/x402/premium.py`, `ledger.py` | `data/payments.jsonl` | `tie_break`, `mcp_paid_call`, `record_spend` | HTTP, twak | what is reported as spent was spent |
| Digest, `agent/monitor/digest.py` | none | `build_digest` | decision log, ledger | an exit is paired with its own entry |
| x402 server, `agent/x402/server.py` | wallet nonce, ledger | `do_GET`, `verify_payment`, `settle`, one thread a request | RPC, chain | no product without payment, no payment twice |
| Leaderboard, `agent/monitor/leaderboard.py` | `leaderboard_state.json` | `refresh`, `refresh_participants` | RPC, CMC | no participant missed, baselines stand |
| Backtests, `scripts/*_bt.py`, `backtest.py`, `trade_split.py` | one simulation | `simulate` | strategies | the books balance, the slots hold |

What is hard to test here is time and failure. The cycle acts on a snapshot
taken before it. A swap takes minutes and may be mined after its caller gave
up. The process may die between any two saves. A reading may silently lack one
token or one price. Files are written by one process while another reads them.
PROJECT.json lists these hazards at their lines, with the properties that
would catch each.

## Modules

| Module | Models | Checked by run | Proved in |
|---|---|---|---|
| `RiskEngine` | `evaluate` as `Approves` | those of `TradingAgent` | - |
| `TradingAgent` | cycle, executor, reconcile, sentinel, store | `Bookkeeping`, `FaultyWorld`, `TwoBuysOneCycle` | `TradingAgent_proofs` |
| `PositionLifecycle` | what a trader promises about its wallet | `Bookkeeping`, `Backtest` (refinements) | `TradingAgent_proofs`, `Backtests_proofs` |
| `DrawdownMonitor` | valuation, baseline, mark, snapshots, ladder | `Drawdown` | `DrawdownMonitor_proofs` |
| `RunLoop` | entrypoint, `run`, window, signals, docker | `Window` | `RunLoop_proofs` |
| `Friction` | the measurement, its files, the refresh and the boot that read them | `Refresh`, `PositionUnseen` | `RunLoop_proofs` |
| `MarketData` | CMC cache, regime, calendar, freshness gate | `Feeds` | `MarketData_proofs` |
| `Strategies` | every strategy as a decision, the gates | `Entry`, `Backtest` | `PremiumEntry_proofs` |
| `PremiumEntry` | signal, tie-break, payment, swap call, digest | `Entry` | `PremiumEntry_proofs` |
| `X402Server` | the shop's threads, the settlement, the charge | `Payments` | `X402Server_proofs` |
| `PaidProduct` | what the shop promises | `Payments` (refinement) | `X402Server_proofs` |
| `Leaderboard` | scan, valuation, baselines, shared file | `Board` | `Leaderboard_proofs` |
| `Backtests` | the simulators, bar by bar | `Backtest` | `Backtests_proofs` |

An `MC` module gives each its constants.

How they fit together: `TradingAgent` uses `RiskEngine`. `RunLoop` is the
process around its cycles, `Friction` what that process has on disk,
`MarketData` and `PremiumEntry` what goes into one of its entries; each keeps
the others' part as a free choice or a mere length of time. `PremiumEntry` and
`Backtests` decide with the same `Strategies`, and `Backtests` and
`TradingAgent` implement the same `PositionLifecycle`.

### TradingAgent

`pc` is where the cycle stands, `idx` the token whose turn it is. One action is
one step between two points at which the outside world can move or the process
can die: a save of the store, a swap, a reading. `Execute` is the verdict half
of `Executor.execute`; `SwapConfirms`, `SwapFails`, `SwapTimesOut` are the
outcomes of its twak call; `RecordTrade` is its ledger line, with the UTC day
of the verdict (`now` is read at the top of `execute`). `ClearEntry`,
`StampExit`, `ClearPool` are the three saves of `_position_closed`, and
`RecordEntry`, `RecordPool` those after an entry. `Abort` is the exception that
`run()` catches.

A position is counted in bullets, the amount one entry buys: two entries into
one token make two. The 0.1 % an exit leaves behind is dust. Prices and
indicators do not appear: any signal may come out of any token in any cycle,
so stop-loss, sentinel and strategy are free choices, and all size and edge
gates are `NoTrade`; the edge is kept to exercise the verdict. The wallet is
live (the paper mode of a dry run trades nothing). The macro and regime scales
only open or close entries (`mayEnter`).

The chain is external and modelled from how the code uses it. A confirmed call
has been mined. A call that gives up after 180 s leaves its transaction in
`flight`, from where it is mined or dropped in nonce order; a later swap cannot
confirm before that. Selling more than the wallet holds reverts. A wrong
reading of a token shows nothing of what is held, or, when the chain cannot be
asked and the transport's balances stand in, a bullet of what was sold.

`Faults` says which faults a run allows: a crash with restart, a timed-out
call, a misread, missing data, a refused swap, a stop. `soldAt`, `swapped`,
`entered`, `misread` and `faults` are history; no action of the program reads
them.

### DrawdownMonitor

The three saves of one reading (`set_baseline`, `observe_portfolio`,
`record_snapshot`), in the code's order, then the ladder, then one trade or a
flatten. The wallet holds a stable, one volatile coin and BNB, counted in
thousandths; each has a quote of its own that moves at any moment, the stable's
like the others (`_value_holdings` asks for all of them). A reading multiplies a
balance with a quote. Where a reading may be wrong (`MayMisread`) a balance is
missing or out of date (`Balances`) and any quote is missing (`Quotes`). A swap
goes through at the quotes of its moment, the stable at `Par`; a sale leaves a
thousandth of what was read behind (`SellOff`). The client may give up on a swap
(`pending`), which is then mined or dropped at any later time, before any later
one. Dry and live processes share the state file. In this module one tick is one
cycle interval, and a cycle starts at most once a tick.

### RunLoop and Friction

`RunLoop`'s `pc` is where the container stands: `entry` is the measurement of
`deploy/entrypoint.sh`, `boot` the head of `run()` up to its look at the window,
`waiting` its wait for the start, `top` the head of the loop, `floor` the
measurement of `_maybe_refresh_floors`, `sleep` the back-off, `over` the pause
before a restarted agent finds its window gone and exits. A cycle takes time
and succeeds or fails. `cost` is the mean a measurement would show; a
measurement may fail, or find no quote and leave an empty report. Docker
restarts whatever exits (`restart: unless-stopped`) until the operator stops
the service; SIGTERM reaches the agent unless the entrypoint is still
measuring, and SIGKILL follows after `Grace`.

`Friction` leaves the timing out and has the measurement token by token:
`QuoteToken` or `QuoteFails` for each candidate, then the report and the
watchlist, each emptied before it is written (`write_text`), so that a crash or
the ten-minute timeout may leave either cut off. The fee may be waived or
charged again between two quotes. A mean is a sum and a number, compared by
cross-multiplication. Positions are entered and left through the watchlist
only, since `reconcile` asks for no other balance. The measurement that
`recalibrate.py` may make beside the container is left out.

### MarketData

One cycle from its `now` to its entry. `Get`, `Answer` and `Refuse` are
`CMCClient._get`: a cached answer, one that arrives later (made by CMC at some
moment of the call), an error. The endpoint `regime` stands for the two calls
`classify` is made from, which have one TTL; `series` for the price series. The
quote endpoint feeds valuations only and is left out. `MacroStat` and
`MacroRead` are the two steps of `_load`, between which the operator may edit
the file, under a new mtime or under the one it has. A file may be no YAML, which
keeps the old table, or YAML of another shape or no text, which raises and ends
the cycle (`MacroRaises`). One token is enough: the steps of
a scan differ only in the endpoint's argument.

### Strategies and PremiumEntry

A reading says how price and averages are ordered, in which interval between
thresholds the RSI lies, and which way histogram and price moved: all the
strategies compare. `Coherent` excludes readings no series has. Each strategy
is one operator over a reading and whether the token is held.

`PremiumEntry` follows one token: `look` is what the active strategy says of the
data as they are, and changes when the data do. The tie-break pays, then books
the payment, then reads the verdict; an answer may be lost after the payment,
and a ledger line may be cut short, in which case the next one is appended to
it. `swap` of either transport fails with an error of its own list
(`CliErrors`, `RestErrors`), each a kind and whether its text has one of the
three phrases the client takes for an approval race; the texts that quote what
`twak` printed may have one whatever happened. After such a text the call is made
once more (`_is_approval_race`; the CLI client likewise in `swap`), and an attempt
of any kind but a missing CLI may be under way all the same and be mined at any
later time. `misled` keeps the calls where both came together. A call may meet the
errors of both transports, which only adds behaviours. An answer of the seller
leaves a line in the ledger whether or not it names a payment, as in the code.
The cycle's gates and the executor's guards may block any entry.
`RoundTrips` is the FIFO pairing of `build_digest`, over a log that may miss a
trade.

### X402Server

One thread a request: `VerifyAccepts` or `VerifyRefuses`, `ReadNonce`, then the
submission, the wait for the receipt, the charge, the product. Nothing is
locked, so threads read the same transaction nonce, and a node of the pool may
not have heard of a pending or even of a mined transaction. A submission may be
taken and its answer lost; a wait may end too early. The token lets an
authorization move money once, inside its window. A header may be sent again at
any time, also while another thread works on it: `do_GET` keeps no list of what it
has seen. A buyer may give up and ask again (`Abandon`). `blame` is history, so
that the properties can say what holds when nothing went wrong with an
authorization: "failed" when a request with it failed half way or was left,
"repeated" when it was presented again before its first request was dealt with.
`PaidProduct` counts revenue lines and keeps each product handed out, with the
request it answered, so that a second one is a step of its own.

### Leaderboard

Two monitors, the agent's own report and a script, each with the whole state in
memory from its start, each writing it whole with `write_text`. `get_logs`
reads chunk by chunk and halves its chunk on a refusal; the head and the logs
may come from different nodes, and one that lags answers for blocks it does not
have with an empty list (`skipped`). One rival wallet is enough, as no step
joins two of them.

### Backtests

A bar is a pass over exits, one over resting orders (only
`limit_entry_bt.py`), one over entries, token by token: positions and orders in
any order, as a dict gives them in the order they were made; entries in one
fixed order, that of the series. The simulators differ in stops, entry prices and gates; a script is
fixed for a behaviour. Edge, conviction and volume gates may pass over any
token. A leg costs a quarter, so that money stays integral. The filtered
variants only take signals away.

## Runs

| Run | Module | Faults | Shows |
|---|---|---|---|
| `Bookkeeping` | `TradingAgent` | refused swaps, missing data, stops | the ledger is the chain's (`LedgerExactAtRest`), a cooldown is kept (`CooldownHolds`), the cycle implements `PositionLifecycle`, a lasting hard stop ends flat, a day gets its trade |
| `FaultyWorld` | `TradingAgent` | all, among them balances missing or out of date | the ledger never overstates; one fault costs at most one ledger line, one entry over the daily cap, one bullet too many, one position without cost basis, one liquidity baseline left behind |
| `Drawdown` | `DrawdownMonitor` | crashes, wrong readings, reverts, timeouts | the judge's drawdown is covered whatever happens; while nothing was cut off or misread, the ladder is exact, the baseline the first live reading; a wallet found sunk does not trade again until a reading shows more than there is |
| `Window` | `RunLoop` | crash, stops, failed cycles and measurements | cycles keep to the window, a stop is heeded, restarts settle |
| `Refresh` | `Friction` | failed quotes, failed or cut measurements, crashes | one restart for each waiver or fault at most; a waiver that lasts is captured |
| `Feeds` | `MarketData` | late and refused answers, restarts, edits that break, mangle, remove or keep the time | how old the data of an entry may be; blackouts hold; a table that counts as current is the file's |
| `Entry` | `PremiumEntry` | lost answers, cut lines, timed-out swaps, lost log lines | no round trip on one reading, a second swap of a call only after a misleading error, round trips rightly paired, spending on record |
| `Payments` | `X402Server` | lost answers, early ends of waits, lagging nodes, impatient buyers, crashes | nothing unpaid leaves, no payment is wasted unless a request with it failed half way, none is booked twice unless presented twice at a time, the shop implements `PaidProduct` |
| `Board` | `Leaderboard` | lagging and refusing nodes, restarts, cut writes | nobody registered is missed, baselines stand, a scan ends |
| `Backtest` | `Backtests` | - | books balance, slots hold, the simulators implement `PositionLifecycle` |

Bounds, and why they are enough:

- `Bookkeeping`: two tokens, so that an entry may depend on what the cycle did
  to another token; the loop is the same body for each. Days of two ticks, the
  second past the deadline, and two whole days: a position is held across
  midnight, a cycle begins on one day and ends on the next, and a cooldown of
  two ticks ends on the next day. There is no process death here: with
  `"crash"`, `CooldownHolds` fails (a crash between the saves of
  `_position_closed` leaves neither cost basis nor exit stamp).
- `FaultyWorld`: two tokens, two days of a tick each, two faults, a cap of one
  trade a day and no cooldown, so that nothing but what the faults cost keeps the
  agent from buying again. Each bound is reached: two faults lose two ledger
  lines, put three entries on one day and three bullets into one token, and leave
  two positions without a cost basis or two baselines behind. The ladder stays
  `NORMAL`, as a flatten sells through the same steps as an exit; with the hard
  stop the instance has 7.4 million states, and the invariants hold there too.
  A misread is not counted as a fault and may happen in every cycle: a token
  omitted by one failed call of a multicall is swept and bought again, each time,
  and one that was sold may be read as held.
  `misread` keeps the tokens this happened to while they were held, and
  `BulletsPerFault` and `UnarmedPerFault` speak of the others.
- `Drawdown`: a stable quoted at $0.99 or $1 and a coin at $2 or $4, a unit of
  each to begin with, and a deposit of five: a halving coin alone is far past
  the hard stop, and after the deposit it is a fall of about 20 per cent, where
  a cent on the stable decides. There is no gas, which the theorems leave free.
  Three ticks give an hourly snapshot, a cycle without one and the next
  snapshot; one wrong reading, one swap given up on, and all the faults.
- `Window`: a window of three ticks holds several cycles, two failures in a
  row, which reach the capped back-off, and a restart; the ticks after it let
  every sleep end. Grace is no longer than a cycle, as deployed, and SIGKILL may
  fall anywhere in it.
- `Refresh`: three tokens, one under the ceiling always, one that the waiver
  brings under it, one that never gets there but weighs on the mean, so that a
  mean without it looks like a waiver. Two faults, three changes of the fee.
- `Feeds`: a cache that lives one tick, one that lives two, a request and a
  reconciliation of up to a tick; a calendar with a high and a medium window
  that overlap, one with an unknown level, two edits, either of which may keep
  the file's time or leave a file that is no calendar.
- `Entry`: four swap calls make two round trips; a payment begins while fewer
  than three calls, answers and faults lie behind; one swap given up on or log
  line lost. A second attempt lost after a first one is left to the proof.
- `Payments`: three requests for two good authorizations and one that pays too
  little, two wallet nonces: two settlements may race for one nonce, and a
  third request may repeat either. All faults are on.
- `Board`: a chain of two blocks, a first chunk of two that a refusal halves to
  the floor.
- `Backtest`: three tokens for two slots, three bars, orders that rest one bar,
  a cooldown of one; prices that halve and double pass every stop.

`Feeds`, `Payments`, `Board` and `Backtest` switch the deadlock check off: the
clock, the wallet's nonces or the bars run out, and a state file cut short
keeps every later monitor from starting (`json.loads` in the constructor).

Two runs must find a violation. They are findings: the code does other than
its own documentation says.

| Run | What happens |
|---|---|
| `TwoBuysOneCycle` | two entries of one cycle pass `max_concurrent: 1`, both judged on the snapshot taken before the scan |
| `PositionUnseen` | a quote that fails at a restart takes a held token off the watchlist; it is neither valued nor sold, although "restarts are always safe" |

Behaviour met while modelling, which the properties name as their exceptions:

- A gas reserve above $1 counts as an open position (`reconcile.py:37`) and with
  `max_concurrent: 1` blocks every entry; the runs set `GasCounts` to FALSE.
- `cycle` returns on HARD_STOP before the daily trade, so `DailyTrade` speaks of
  cycles that reach that step.
- An entry whose call timed out may be mined after the next cycle has bought
  again; `BulletsPerFault` says what each such call costs.
- A missing price values a holding at $0 and may flatten the rest of the wallet;
  `HardStopIsExact` holds while nothing was misread.
- The hard stop is not kept anywhere: a reading that shows more than there is (a
  balance of the transport or of the indexer that is out of date,
  `reconcile.py:75`), a swap mined after it was given up on, or a quote, of a
  stable as well, that lifts what is left above the stop lets a flat wallet
  trade again. `FlatIsFinal` speaks of wallets without a swap pending that no
  quote would lift, up to such a reading.
- A swap whose failure is reported with a text that names an approval is made
  again, although the first attempt may still be mined: what `twak` printed is
  part of the text (`client.py:75`, `client.py:197`). Such a call may swap twice.
- The report counts every answer of the seller as money spent, also one that
  came without a payment (`premium.py:166`); `SpendsOnRecord` bounds what it
  counts by the answers, and what it misses by the faults.
- Two requests with one authorization that overlap may read one nonce, send the
  same transaction, find the same receipt and both be booked and served
  (`server.py:297`), although `server.py:16` makes the token's nonce the guard
  against replays: one payment, two products. The exceptions for "repeated" are
  this.
- A calendar that is valid YAML but no mapping, or no UTF-8, raises out of
  `status` and ends every cycle before its exits (`macro.py:74`), although
  `macro.py:13` lets a broken calendar fail open. An edit that keeps the file's
  time is not read (`macro.py:66`).
- docker's 90 s end inside the 180 s a swap may take.
- A refresh whose every quote fails replaces the edge floors by none, although
  `_maybe_refresh_floors` says that a hiccup keeps them; the same at a boot
  leaves no baseline, and then a waiver is not noticed (`WaiverCaptured`).

## Fairness

`Bookkeeping`: the process keeps stepping, and a stopped one is started again
(docker's restart policy; `WF(Agent)`, `WF(Start)`); a pending transaction is
mined or dropped (`WF(Chain)`). An agent that is stopped and started again and
again gets to a cycle sometimes (`SF(BeginCycle)`). A reading and a sale that
are tried every cycle succeed sometimes (`SF(Reconcile)`, `SF(SwapConfirms)`):
the code retries both for ever, and if they never succeeded no program could
flatten the wallet. `Refresh`: the container keeps stepping (`WF(Process)`);
faults are bounded, so in the end measurements succeed. The other runs check
safety only.

## Proofs

All theorems hold for every value of the constants; these are restricted only
by the named ASSUMEs of the modules and by the assumptions named here.

`LedgerSound` holds under all faults. Its invariant says of each `pc` how the
ledger of a day compares with the chain: equal or less, and strictly less for
the day of a swap that is mined and about to be recorded.

`EntriesCapped` assumes no crash and no timeout (`NoCutoff`), the two faults
that separate a swap from its ledger line; then entries of a day are at most
its ledger lines, plus the one in progress, which was approved below the cap.

Four theorems say what is left of such promises when swaps are cut off, under
all faults. `EntriesPaidFor`: the entries of a day, the one under way and all
that is pending are no more than the cap and the faults (`EntryInv`). An
approval asks the ledger, and the ledger is behind by no more than the faults
(`LossInv`), so an entry let go below the cap keeps the sum. `BulletsPaidFor`:
its invariant `BulletInv` looks at the tokens whose turn is still to come
(`Ahead`): one seen without a bullet holds, with everything pending counted in,
no more than the faults, since the snapshot was true of it when it was taken and
what lands after it was pending then or has cost a fault since. `UnarmedPaidFor`:
a position loses its cost basis, or never gets one, in four ways: it is mined
late, a crash comes before its record, it is mined late after a snapshot that
does not show it and is swept, or it outgrows the sale whose exit is booked. So
`ExposedInv` counts, besides the positions without one, the tokens still to come
that hold more than their snapshot shows (`Unshown`) and the one that a sale
being booked leaves something of (`Leaving`), but not the one whose entry is
about to be booked (`Arming`); together with everything pending these are no
more than the faults. In each of these the misread tokens are left out, and the
snapshot is then the wallet where it must be. `OrphansPaidFor`: a step that is
no crash adds nothing to the baselines without a position on record, the one
about to be cleared left out (`RecordsStep`), and a crash adds that one. TLC
found the four invariants true of every state of `FaultyWorld` before they were
proved.

`SingleBullets`, `StopLossAlwaysArmed`, `CooldownRespected` and
`ImplementsLifecycle` assume moreover that no reading is wrong (`Faithful`).
`NoDoubleEntry`, `StopLossArmed`, and with them `DailyEntryCap` and
`NoOrphanBaseline` below, are the bounds of `FaultyWorld` for no fault at all;
no run lists them again. The four theorems share one inductive invariant,
`TradeInv`, of four parts. The snapshot is
the wallet for every token whose turn is still to come, and for the token at
hand up to its own swap (`SnapshotTrue`). Every position not at hand has its
cost basis (`Armed`). A sale that is not on record, which a flatten always
leaves, has left the cost basis behind, so whenever the exit stamp is older
than the sale the token is `Marked`. And within a token's turn the marker is
consumed by the sweep before an entry is considered (`Turn`). The marker is
what the cooldown rests on: the code stamps exits by what the next scan finds,
not by what happened.

`LedgerExact` assumes `NoCutoff` as well: then that comparison is an equality.
`LossBounded` holds under all faults and counts: what is mined or pending is no
more than the ledger shows, the swap about to be recorded and one for each fault
(`LossInv`). `BaselineOwned` assumes
only that no process dies: the three saves of an exit, once begun, end before
the cycle rests, so a baseline without a cost basis is one about to be cleared
(`Abandoned` is empty).

`JudgeCovered` holds under all faults: snapshots lie below the mark because the
mark is saved first, and a drawdown short of `p <= 100` per cent of a mark is
short of it for every lower mark (`LowerMark`). `HardStopExact` and
`BaselineFirstLive` speak of executions in which nothing was misread or cut
off; their invariant `Remembers` says that mark and baseline on disk are then
the real peak and the first live worth, up to the saves of the reading at hand.
`HardStopIsFinal` holds under all faults and with any gas reserve. Where no swap
is pending and no quote makes more of the wallet than dust of the coin and a
worth past the hard stop (`Sunk`), a cycle that has begun to flatten has nothing
to sell (`SunkNow`); a later reading shows at most what is in the wallet at some
quote (`ReadingsBelow`), is past the stop as well and leaves the mark alone
(`Finished`), until one shows more than there is, which `inflated` then
remembers (`InflatedStays`). The property speaks of wallets that have a baseline:
before there is one the operator may pay in.

`NoRestartLoop` rests on `SettleInv`: whenever the baseline or the report on
disk is above the market's cost, a fall lies behind it that no exit has used
up. An exit uses one, and writes the report the next process starts from.
`WindowKept` and `StopHeeded` share `LoopInv`, which says what held when the
measurement at hand began.

`RefreshExitsOnce` says the same of `Friction`, token by token and with fees that
change between two quotes; `RunLoop_proofs` extends both views of the container
(what they have in common carries different names). Its invariant `ExitInv` says what an exit cannot happen
without: as long as the exits have used up every waiver and every fault
(`Clean`), no measurement has lost a token (`NoneLost`), the measurement behind
the baseline is nowhere above the market's costs, and so nowhere above a later
quote (`Based`). Then the two means are over the same tokens and the new one is
not lower (`SumsGrow`, `NotMuchCheaper`). TLC found `ExitInv` true of every
state of `Refresh` before it was proved.

`NoRoundTripOnOneReading` rests on a fact about each strategy, that no coherent
reading is an entry and an exit (`TrendApart`, `OthersApart`), and assumes
`NoReclaim`: the exits of `reclaim` may hold where its entry does.
`RetriesSafe` counts for each call what it has mined and what is under way of
its first and of its second attempt: `SwapInv` says that this is at most two,
at most one unless the call was misled, and for the call at hand nothing of the
attempt it is at. `RoundTripsRight` is about what `build_digest` makes
of the log. `DigestInv` says, of every period that no unlogged swap falls into,
that the pairing so far has joined each exit with its own entry and that no
entry is open but that of the position held; a logged trade takes one right
pairing to the next (`PairingAppend`). `SpendsReported` rests on
`SpendInv`: the lines of spends are never more than the answers, which each line
follows, and short of them by two for each fault at most, its own and the line
joined to the half one it left, which stays `Owed` until that happens.

`SoldOnlyForPayment` and `ImplementsPromise` hold under all faults. `ShopInv`
says that a thread past the verification has an authorization for us, that one
past its wait has the receipt as well, and that revenue is on record for used
authorizations only. `PaymentsServed`, `BookedOnce` and the refinement share
`FateInv`: a receipt's nonce is spent (`ChainTrue`); a thread at work has a buyer
who listens, or a failed authorization (`Listened`); two threads at work for one
authorization mean that it was presented twice (`Together`); a settlement that
is pending or mined, and that no fault touched, has the request that waits for
it (`Expected`); and an authorization that was booked or served has no request
left that could be booked or served again, unless it was presented twice
(`SoldLast`). The refinement maps `served` to pairs of an authorization and the
request that was answered, and `booked` to the number of its lines; so a second
product or line of one payment is a step, which the promise forbids.

The theorems of `MarketData` hold for every delay and TTL. `AgeInv`
bounds the age of a datum by the length of the call that fetched it and, if it
came from the cache, the TTL; a cycle takes data up only after its `signal_ts`.
`CalendarInv` says that a table marked with a version of the file holds that
version, unless the file was written again under the same time (`hidden`), and
that without an edit the macro scale is the one of the cycle's beginning.

`FieldKept` holds because a scan passes a chunk only after its registrations
are known or found, in memory and on disk alike. `BaselinesStand` follows one
monitor at a time: the one that is up agrees with the first baseline saved, or
has saved none. `ScansEnd` needs a chunk of at least one block.

The simulations share `BookInv`: what a pass still has to visit is held or
resting, never both, and who has an order has rested since its last exit
(`WalkInv`); a position and its record know each other, a record is either
that of a position or settled, and cash is the balance of the records
(`RecordInv`). From it follow `SlotsHold`, `RecordsBalance` and
`SimulationKeepsLifecycle`. `TicketAssumption` is a choice of units: what a
ticket leaves behind its fee buys a whole number of units at any price; the
scripts compute with floats that are not rounded.

What a fold or a recursive function computes is shown by a least counterexample
(`LeastNumber` and `LeastSet`, from the well-foundedness of finite sets under
inclusion): the table behind the fold exists, and an entry is one step from a
smaller one (`TableIsFold` for the pairing, `AfterStep` for the balance,
`SumsExist` for a sum over a set of tokens).

Model-checked only: the liveness properties `HardStopFlattens`, `DailyTrade`
and `WaiverCaptured`, as liveness under fairness is out of the prover's reach.

## Not modelled

Keys, alerts, the decision log's format, dashboard and deployment files have no
state a property could be about. Floating-point indicators (EMA, RSI, MACD,
ATR) are abstracted to the comparisons made with them. The one-shot modes of
`__main__.py` (canary, flatten), the heartbeat and the 12-hour report change no
state the cycle reads. `sse_proxy.py` passes bytes on. `scenario_bt.py`,
`fee_sim.py`, `waiver_watchlist.py` and `recalibrate.py` compute tables without
a state of their own.

Open to proof: the safety core of `WaiverCaptured`, that an agent which stays
after an undisturbed refresh has a baseline not much dearer than the fees in
force or a watchlist measured at them.
