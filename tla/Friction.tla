------------------------------- MODULE Friction -------------------------------
(***************************************************************************)
(* The friction measurement (scripts/liquidity_filter.py) and what lives off *)
(* its two files: the entrypoint that runs it at every start                *)
(* (deploy/entrypoint.sh), the watchlist read at boot (agent/config.py), and *)
(* the edge floors and the baseline of the loop, which repeats it every few  *)
(* hours and leaves for a restart when the swap fees have been waived        *)
(* (agent/loop.py).  RunLoop has the window, the signals and the timing of   *)
(* the same container; here are its files, token by token.  What both have   *)
(* carries different names in the two, so that one module can extend both.   *)
(***************************************************************************)
EXTENDS Naturals, Sequences, FiniteSets, FiniteSetsExt

CONSTANTS
    Candidates,         \* DEFAULT_CANDIDATES, a sequence
    Standard, Waived,   \* round-trip cost of each with the fee and without
    Ceiling,            \* WATCHLIST_MAX_COST_PCT
    Margin,             \* edge_floor_margin_pct
    Faults,             \* which of "quote", "fail", "timeout", "crash" happen
    MaxFaults, MaxFlips \* bounds on their number and on changes of the fee

Tokens == {Candidates[i] : i \in 1 .. Len(Candidates)}

ASSUME FrictionAssumption ==
    /\ Candidates \in Seq(Tokens)
    /\ {Standard, Waived} \subseteq [Tokens -> Nat]
    /\ \A t \in Tokens : Waived[t] <= Standard[t]
    /\ {Ceiling, Margin, MaxFaults, MaxFlips} \subseteq Nat

VARIABLES
    waiver,     \* is the fee waived?
    reported,   \* liquidity_report.json: the cost of each token quoted
    torn,       \* ... or cut off in the middle of a write
    list,       \* watchlist.local.yaml; empty when cut off
    todo, found, stage,     \* of the measurement under way
    place,      \* "down", "entry", "boot", "loop", "refresh"
    watch,      \* cfg.tokens.watchlist
    floors,     \* edge_floors
    baseline,   \* _friction_baseline
    held,       \* tokens in the wallet
    faults, flips, waivers, exits     \* how often so far

files == <<reported, torn, list>>
measurement == <<todo, found, stage>>
agent == <<watch, floors, baseline>>
counts == <<faults, flips, waivers, exits>>
frictionVars == <<waiver, files, measurement, place, agent, held, counts>>

\* A mean is kept as a sum and a number; of nothing there is none.
NoMean == [sum |-> 0, n |-> 0]
Nothing == [t \in {} |-> 0]
Mean(costs) ==
    [sum |-> MapThenSumSet(LAMBDA t : costs[t], DOMAIN costs),
     n |-> Cardinality(DOMAIN costs)]

CostsNow == IF waiver THEN Waived ELSE Standard
Survivors(costs) == {t \in DOMAIN costs : costs[t] <= Ceiling}

\* The server was set up with the files of a measurement at the standard fee.
FrictionInit ==
    /\ waiver \in BOOLEAN
    /\ reported = Standard /\ torn = FALSE /\ list = Survivors(Standard)
    /\ todo = <<>> /\ found = Nothing /\ stage = "done"
    /\ place = "down" /\ watch = {} /\ floors = Nothing /\ baseline = NoMean
    /\ held = {}
    /\ faults = 0 /\ flips = 0 /\ waivers = 0 /\ exits = 0

Fault(kind) == kind \in Faults /\ faults < MaxFaults /\ faults' = faults + 1

FeeChanges ==
    /\ flips < MaxFlips /\ flips' = flips + 1
    /\ waiver' = ~waiver
    /\ waivers' = IF waiver THEN waivers ELSE waivers + 1
    /\ UNCHANGED <<files, measurement, place, agent, held, faults, exits>>

-----------------------------------------------------------------------------
(* The measurement *)

Begin == todo' = Candidates /\ found' = Nothing /\ stage' = "quotes"

\* measure: both legs of the round trip are quoted.
QuoteToken ==
    /\ stage = "quotes" /\ todo # <<>>
    /\ found' = [t \in DOMAIN found \cup {Head(todo)} |->
                    IF t \in DOMAIN found THEN found[t] ELSE CostsNow[t]]
    /\ todo' = Tail(todo)
    /\ UNCHANGED <<waiver, files, stage, place, agent, held, counts>>

\* A leg that cannot be quoted leaves the token out, and that is all.
QuoteFails ==
    /\ stage = "quotes" /\ todo # <<>> /\ Fault("quote")
    /\ todo' = Tail(todo)
    /\ UNCHANGED <<waiver, files, found, stage, place, agent, held, flips, waivers, exits>>

\* write_text empties the file before it writes: first the report, then the list.
OpenReport ==
    /\ stage = "quotes" /\ todo = <<>>
    /\ reported' = Nothing /\ torn' = TRUE /\ stage' = "report"
    /\ UNCHANGED <<waiver, list, todo, found, place, agent, held, counts>>

WriteReport ==
    /\ stage = "report"
    /\ reported' = found /\ torn' = FALSE /\ stage' = "survivors"
    /\ UNCHANGED <<waiver, list, todo, found, place, agent, held, counts>>

OpenList ==
    /\ stage = "survivors"
    /\ list' = {} /\ stage' = "list"
    /\ UNCHANGED <<waiver, reported, torn, todo, found, place, agent, held, counts>>

WriteList ==
    /\ stage = "list"
    /\ list' = Survivors(found) /\ stage' = "done"
    /\ todo' = <<>> /\ found' = Nothing
    /\ UNCHANGED <<waiver, reported, torn, place, agent, held, counts>>

Halt == todo' = <<>> /\ found' = Nothing /\ stage' = "done"

-----------------------------------------------------------------------------
(* The container *)

\* restart: unless-stopped, and the entrypoint measures first.
Start ==
    /\ place = "down" /\ place' = "entry" /\ Begin
    /\ UNCHANGED <<waiver, files, agent, held, counts>>

Measured ==
    /\ place = "entry" /\ stage = "done" /\ place' = "boot"
    /\ UNCHANGED <<waiver, files, measurement, agent, held, counts>>

\* The script may fail before its first quote (its config, its allowlist); the
\* entrypoint carries on with the files there are.
EntryFails ==
    /\ place = "entry" /\ stage = "quotes" /\ todo = Candidates /\ Fault("fail")
    /\ place' = "boot" /\ Halt
    /\ UNCHANGED <<waiver, files, agent, held, flips, waivers, exits>>

\* _load_edge_floors, of a report that can be read.
Floors == [t \in DOMAIN reported |-> reported[t] + Margin]

\* load_config and the constructor: an empty list leaves the empty placeholder,
\* an unreadable report no floors and no baseline.
Boot ==
    /\ place = "boot" /\ place' = "loop"
    /\ watch' = list
    /\ floors' = IF torn THEN Nothing ELSE Floors
    /\ baseline' = IF torn THEN NoMean ELSE Mean(reported)
    /\ UNCHANGED <<waiver, files, measurement, held, counts>>

Down == place' = "down" /\ watch' = {} /\ floors' = Nothing /\ baseline' = NoMean /\ Halt

ContainerDies ==
    /\ place # "down" /\ Fault("crash") /\ Down
    /\ UNCHANGED <<waiver, files, held, flips, waivers, exits>>

-----------------------------------------------------------------------------
(* The loop *)

\* The cycles of the agent trade what is on the watchlist, and see no other token:
\* reconcile asks the chain for no other balance.
EnterToken(t) ==
    /\ place = "loop" /\ t \in watch /\ held = {} /\ held' = {t}
    /\ UNCHANGED <<waiver, files, measurement, place, agent, counts>>

LeaveToken(t) ==
    /\ place = "loop" /\ t \in watch \cap held /\ held' = held \ {t}
    /\ UNCHANGED <<waiver, files, measurement, place, agent, counts>>

BeginRefresh ==
    /\ place = "loop" /\ place' = "refresh" /\ Begin
    /\ UNCHANGED <<waiver, files, agent, held, counts>>

\* An exit code other than 0, or the end of the ten minutes at any point of the
\* script: the floors in force stay.
RefreshFails ==
    /\ place = "refresh" /\ stage # "done"
    /\ \/ todo = Candidates /\ stage = "quotes" /\ Fault("fail")
       \/ Fault("timeout")
    /\ place' = "loop" /\ Halt
    /\ UNCHANGED <<waiver, files, agent, held, flips, waivers, exits>>

\* Mutant: the two means are swapped.
CheaperSwapped(new, old) ==
    old.n > 0 /\ new.n > 0 /\ old.sum * new.n * 10 < new.sum * old.n * 7

\* Mutant: a tenth of the drop asked for.
CheaperTenth(new, old) ==
    old.n > 0 /\ new.n > 0 /\ new.sum * old.n * 100 < old.sum * new.n * 7

\* new_mean < base * 0.7, when there are both.
FarCheaper(new, old) ==
    old.n > 0 /\ new.n > 0 /\ new.sum * old.n * 10 < old.sum * new.n * 7

\* Nothing much cheaper: the floors are replaced, the watchlist and the baseline
\* are those of the boot.
Reload ==
    /\ place = "refresh" /\ stage = "done" /\ ~FarCheaper(Mean(reported), baseline)
    /\ place' = "loop" /\ floors' = Floors
    /\ UNCHANGED <<waiver, files, measurement, watch, baseline, held, counts>>

RefreshExit ==
    /\ place = "refresh" /\ stage = "done" /\ FarCheaper(Mean(reported), baseline)
    /\ Down /\ exits' = exits + 1
    /\ UNCHANGED <<waiver, files, held, faults, flips, waivers>>

FrictionProcess ==
    \/ QuoteToken \/ OpenReport \/ WriteReport \/ OpenList \/ WriteList
    \/ Start \/ Measured \/ Boot \/ BeginRefresh \/ Reload \/ RefreshExit

FrictionNext ==
    \/ FrictionProcess \/ FeeChanges
    \/ QuoteFails \/ EntryFails \/ RefreshFails \/ ContainerDies
    \/ \E t \in Tokens : EnterToken(t) \/ LeaveToken(t)

FrictionSpec ==
    FrictionInit /\ [][FrictionNext]_frictionVars /\ WF_frictionVars(FrictionProcess)

-----------------------------------------------------------------------------
(* Properties *)

\* The agent leaves for a restart at most once for every fee waived and every
\* fault: no mean of other tokens, or of a fee that changed between two quotes,
\* sends it away again and again (_maybe_refresh_floors).
ExitsAccounted == exits <= waivers + faults

\* A baseline the waiver falls below by more than three tenths.
MuchDearer(old) == Mean(Waived).sum * old.n * 10 < old.sum * Mean(Waived).n * 7

\* When the fee is waived and stays so, the agent in the end runs with every
\* token the waiver brings under the ceiling, unless what it measured at its
\* start was nothing, or not materially dearer (_maybe_refresh_floors,
\* entrypoint.sh).
Captured ==
    /\ place \in {"loop", "refresh"}
    /\ \/ Survivors(Waived) \subseteq watch
       \/ ~MuchDearer(baseline)
WaiverCaptured == waiver ~> (Captured \/ ~waiver)

\* "Restarts are always safe": when the agent runs, what it holds is among the
\* tokens it reads, values and sells (reconcile, _trade_watchlist).
RestartSafe == place = "loop" => held \subseteq watch
===============================================================================
