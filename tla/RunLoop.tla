------------------------------ MODULE RunLoop -------------------------------
(***************************************************************************)
(* The life of the agent's container: the entrypoint that measures         *)
(* friction (deploy/entrypoint.sh), AgentLoop.run with its UTC window,     *)
(* back-off and friction re-measure (agent/loop.py), the signals of        *)
(* `docker stop` and the restart policy of docker-compose.yml.  What a     *)
(* cycle does is TradingAgent's business; here it takes time and may fail. *)
(***************************************************************************)
EXTENDS Integers

CONSTANTS
    StartAt, StopAt,    \* the window
    MaxHours,           \* --max-hours, in ticks
    Interval,           \* cycle_interval_s
    CycleLen,           \* the longest a cycle takes
    MeasureLen,         \* the timeout of the loop's friction measurement
    FloorEvery,         \* FLOOR_REFRESH_H, 0 disables
    Costs,              \* mean round-trip costs the market may show
    Grace,              \* stop_grace_period
    BackOffCap,         \* the longest sleep, in intervals (6 in the code)
    MaxErrors,          \* bound on consecutive_errors
    MaxCrashes,         \* bound on crashes
    MaxDrops,           \* bound on how often costs fall
    MaxTime             \* bound on the clock

ASSUME WindowAssumption ==
    /\ {StartAt, StopAt, FloorEvery, Grace, MaxErrors, MaxCrashes, MaxDrops,
        MaxTime} \subseteq Nat
    /\ {MaxHours, Interval, CycleLen, MeasureLen, BackOffCap} \subseteq Nat \ {0}
    /\ Costs \subseteq Nat \ {0} /\ Costs # {}

Never == MaxTime + 1
LongestSleep == Interval * BackOffCap

VARIABLES
    now,
    cost,       \* the mean round-trip cost a measurement would show
    wanted,     \* the service is up for docker: not stopped by the operator
    killAt,     \* when docker sends SIGKILL, Never if it was not asked to stop
    report,     \* mean of data/liquidity_report.json, 0 if it lists none
    \* the process
    pc,
    since,      \* when the entrypoint, the measurement or the cycle began
    stop,       \* _stop
    base,       \* _friction_baseline, 0 for None
    deadline,
    nextFloor,  \* _next_floor_check, Never for None
    errors,     \* consecutive_errors
    wake,       \* when the sleep between two cycles ends
    \* history, read by no action
    crashes,
    drops,      \* how often the market became cheaper
    floorExits, \* how often the agent left to be restarted
    extra       \* and it began so many cycles since

docker == <<wanted, killAt>>
locals == <<stop, base, deadline, nextFloor, errors, wake>>
history == <<crashes, drops, floorExits, extra>>
vars == <<now, cost, docker, report, pc, since, locals, history>>

\* Every variable has its type; no sleep is longer than the capped back-off.
TypeOK ==
    /\ now \in 0 .. MaxTime /\ cost \in Costs /\ report \in Costs \cup {0}
    /\ wanted \in BOOLEAN /\ killAt \in Nat
    /\ pc \in {"down", "entry", "boot", "waiting", "top", "floor", "cycle",
               "sleep", "over"}
    /\ since \in 0 .. MaxTime /\ stop \in BOOLEAN /\ base \in Costs \cup {0}
    /\ deadline \in Nat /\ nextFloor \in Nat /\ errors \in 0 .. MaxErrors
    /\ wake \in 0 .. now + LongestSleep
    /\ crashes \in 0 .. MaxCrashes /\ drops \in 0 .. MaxDrops /\ floorExits \in Nat
    /\ extra \in Nat

Init ==
    /\ now = 0 /\ cost \in Costs /\ report = 0
    /\ wanted = TRUE /\ killAt = Never
    /\ pc = "down" /\ since = 0 /\ stop = FALSE /\ base = 0
    /\ deadline = 0 /\ nextFloor = Never /\ errors = 0 /\ wake = 0
    /\ crashes = 0 /\ drops = 0 /\ floorExits = 0
    /\ extra = 0

-----------------------------------------------------------------------------
(* The world: the clock, the market, docker *)

\* The loop's measurements and its cycles end in time, docker kills in time.
Tick ==
    /\ now < MaxTime
    /\ pc = "floor" => now < since + MeasureLen
    /\ pc = "cycle" => now < since + CycleLen
    /\ pc # "down" => now < killAt
    /\ now' = now + 1
    /\ UNCHANGED <<cost, docker, report, pc, since, locals, history>>

MarketMoves ==
    /\ cost' \in Costs \ {cost}
    /\ drops' = IF cost' < cost THEN drops + 1 ELSE drops
    /\ drops' <= MaxDrops
    /\ UNCHANGED <<now, docker, report, pc, since, locals, crashes, floorExits, extra>>

\* restart: unless-stopped, whatever the exit code.
DockerStart ==
    /\ pc = "down" /\ wanted
    /\ pc' = "entry" /\ since' = now
    /\ UNCHANGED <<now, cost, docker, report, locals, history>>

DockerUp ==
    /\ pc = "down" /\ ~wanted
    /\ wanted' = TRUE /\ killAt' = Never
    /\ UNCHANGED <<now, cost, report, pc, since, locals, history>>

\* SIGTERM goes to PID 1.  The entrypoint's shell does not forward it, and the
\* agent has installed its handler once run() begins.
DockerStop ==
    /\ wanted /\ now + Grace <= MaxTime
    /\ wanted' = FALSE /\ killAt' = now + Grace
    /\ stop' = (stop \/ pc \notin {"down", "entry"}) /\ extra' = 0
    /\ UNCHANGED <<now, cost, report, pc, since, base, deadline, nextFloor,
                   errors, wake, crashes, drops, floorExits>>

\* The process is gone and with it all it knew.
Gone ==
    /\ pc' = "down" /\ stop' = FALSE /\ base' = 0 /\ deadline' = 0
    /\ nextFloor' = Never /\ errors' = 0 /\ wake' = 0

\* SIGKILL at the end of the grace period.
Kill ==
    /\ pc # "down" /\ ~wanted /\ now >= killAt
    /\ Gone
    /\ UNCHANGED <<now, cost, docker, report, since, history>>

Crash ==
    /\ pc # "down" /\ crashes < MaxCrashes
    /\ Gone
    /\ crashes' = crashes + 1
    /\ UNCHANGED <<now, cost, docker, report, since, drops, floorExits, extra>>

Exit ==
    /\ Gone
    /\ UNCHANGED <<now, cost, docker, report, since, history>>

-----------------------------------------------------------------------------
(* The entrypoint and the head of run() *)

\* A failed measurement leaves the report there was; one in which no quote
\* succeeds writes an empty report.  The agent reads what there is as its
\* baseline.
Measure ==
    /\ pc = "entry"
    /\ report' \in {report, cost, 0}
    /\ base' = report'
    /\ pc' = "boot"
    /\ UNCHANGED <<now, cost, docker, since, stop, deadline, nextFloor, errors,
                   wake, history>>

\* The id map or an address could not be resolved: run() raises.
BootFails == pc = "boot" /\ Exit

EnterLoop(firstCheck) ==
    /\ deadline' = IF now + MaxHours < StopAt THEN now + MaxHours ELSE StopAt
    /\ nextFloor' = IF FloorEvery > 0 THEN firstCheck ELSE Never
    /\ errors' = 0 /\ pc' = "top"
    /\ UNCHANGED <<now, cost, docker, report, since, stop, base, wake, history>>

\* Restarted after the end: sleep a little, then exit.
WindowOver ==
    /\ pc = "boot" /\ now >= StopAt
    /\ pc' = "over"
    /\ UNCHANGED <<now, cost, docker, report, since, locals, history>>

LeaveOver == pc = "over" /\ Exit

WaitForWindow ==
    /\ pc = "boot" /\ now < StopAt /\ now < StartAt
    /\ pc' = "waiting"
    /\ UNCHANGED <<now, cost, docker, report, since, locals, history>>

InWindow ==
    /\ pc = "boot" /\ now < StopAt /\ now >= StartAt
    /\ EnterLoop(now + FloorEvery)

\* A wait that ends checks the friction at once.
WindowOpens ==
    /\ pc = "waiting" /\ ~stop /\ now >= StartAt
    /\ EnterLoop(now)

StopWaiting == pc = "waiting" /\ stop /\ Exit

-----------------------------------------------------------------------------
(* The loop *)

Leave == pc = "top" /\ (stop \/ now >= deadline) /\ Exit

\* Mutant: the deadline is not looked at.
ContinuesLate == ~stop

\* Mutant: the stop flag is not looked at.
ContinuesStopped == now < deadline

Continues == ~stop /\ now < deadline

StartCycle ==
    /\ pc' = "cycle" /\ since' = now
    /\ extra' = IF stop THEN extra + 1 ELSE extra
    /\ UNCHANGED <<crashes, drops, floorExits>>

BeginCycle ==
    /\ pc = "top" /\ Continues /\ now < nextFloor
    /\ StartCycle
    /\ UNCHANGED <<now, cost, docker, report, locals>>

BeginFloorCheck ==
    /\ pc = "top" /\ Continues /\ now >= nextFloor
    /\ pc' = "floor" /\ since' = now
    /\ UNCHANGED <<now, cost, docker, report, locals, history>>

\* Mutant: any cheaper mean is a waiver.
MuchCheaperEver(new) == base > 0

\* new_mean < base * 0.7
MuchCheaper(new) == base > 0 /\ new * 10 < base * 7

\* The measurement failed, or shows nothing much cheaper: this cycle runs.  The
\* stop flag and the deadline are not looked at again.
FloorCheck ==
    /\ pc = "floor"
    /\ \/ report' \in {report, 0}
       \/ ~MuchCheaper(cost) /\ report' = cost
    /\ nextFloor' = now + FloorEvery
    /\ StartCycle
    /\ UNCHANGED <<now, cost, docker, stop, base, deadline, errors, wake>>

\* The fee waiver went live: leave, to be restarted with a new universe.
FloorExit ==
    /\ pc = "floor" /\ MuchCheaper(cost)
    /\ report' = cost
    /\ Gone
    /\ floorExits' = floorExits + 1
    /\ UNCHANGED <<now, cost, docker, since, crashes, drops, extra>>

\* Mutant: the back-off grows with every error.
BackOffForever(n) == Interval * (n + 1)

BackOff(n) == Interval * (IF n + 1 < BackOffCap THEN n + 1 ELSE BackOffCap)

\* cycle() returns or raises; after errors in a row the agent sleeps longer.
EndCycle(n) ==
    /\ pc = "cycle"
    /\ errors' = n
    /\ wake' = now + BackOff(n)
    /\ pc' = "sleep"
    /\ UNCHANGED <<now, cost, docker, report, since, stop, base, deadline,
                   nextFloor, history>>

CycleSucceeds == EndCycle(0)
CycleFails    == errors < MaxErrors /\ EndCycle(errors + 1)

Wake ==
    /\ pc = "sleep" /\ (stop \/ now >= wake)
    /\ pc' = "top"
    /\ UNCHANGED <<now, cost, docker, report, since, locals, history>>

Process == Measure \/ BootFails \/ WindowOver \/ LeaveOver \/ WaitForWindow
           \/ InWindow \/ WindowOpens \/ StopWaiting \/ Leave \/ BeginCycle
           \/ BeginFloorCheck \/ FloorCheck \/ FloorExit
           \/ CycleSucceeds \/ CycleFails \/ Wake

Next == Process \/ Tick \/ MarketMoves \/ DockerStart \/ DockerUp \/ DockerStop
        \/ Kill \/ Crash

Spec == Init /\ [][Next]_vars

-----------------------------------------------------------------------------
(* Properties *)

\* No cycle begins outside the window, over crashes, restarts and waits; after
\* its end at most by the length of the friction measurement that stands
\* between the look at the deadline and the cycle (loop.py:231-241).
CycleNearWindow ==
    pc = "cycle" =>
        /\ since >= StartAt
        /\ deadline <= StopAt
        /\ since < deadline + MeasureLen

\* After a stop it has heard the agent begins at most one cycle more, the one
\* behind a friction measurement the signal arrived in (loop.py:231-241).
StopIsHeeded == extra <= 1

\* The agent leaves for a restart no more often than the market became
\* cheaper: the restart that follows finds the new cost as its baseline, even
\* when the entrypoint's own measurement fails (loop.py:127-158).
RestartsSettle == floorExits <= drops
=============================================================================
