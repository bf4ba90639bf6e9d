------------------------------ MODULE MarketData ------------------------------
(***************************************************************************)
(* What a cycle knows when it decides to enter: the TTL cache of the CMC    *)
(* client (agent/cmc/client.py), the regime made of its answers             *)
(* (agent/signals/regime.py), the macro calendar that is reloaded while an  *)
(* operator edits it (agent/risk/macro.py), and the freshness gate of the   *)
(* risk engine.  One token; CMC answers late, with an error, or not at all. *)
(***************************************************************************)
EXTENDS Integers, FiniteSets

CONSTANTS
    TTL,            \* per endpoint, in ticks
    CallLen,        \* the longest a request takes
    ReconcileLen,   \* the longest from the start of a cycle to signal_ts
    MaxSignalAge,   \* max_signal_age_min
    Calendars,      \* calendars the operator may write: sets of events
    MaxEdits,       \* bound on writes of the calendar file
    MaxTime         \* bound on the clock

Endpoints == {"regime", "series"}

ASSUME FeedAssumption ==
    /\ {CallLen, ReconcileLen, MaxSignalAge, MaxEdits, MaxTime} \subseteq Nat
    /\ TTL \in [Endpoints -> Nat \ {0}]
    /\ \A c \in Calendars : c \subseteq [level : STRING, from : Int, to : Int]

\* fear_greed; 10 also stands for a response that lacks it or btc_dominance.
Moods == {10, 50, 90}
NoData == [at |-> -1, made |-> -1, val |-> 0]
Values(k) == IF k = "regime" THEN Moods ELSE {0, 1}     \* 0 for an empty series
CallOf == [regime |-> "regimeCall", series |-> "seriesCall"]

\* A file may be no YAML, and it may be YAML of another shape or not be text.
Kinds == {"ok", "broken", "malformed", "gone"}

VARIABLES
    now,
    \* the calendar file and the operator
    file,       \* [kind, ver, mtime, events]; ver counts its edits
    \* the agent's memory
    cache,      \* per endpoint, when it was stored and what
    table, mtime,   \* MacroCalendar._windows, _mtime (0 for None)
    \* the cycle at hand; locals that are gone are 0
    pc, start,  \* its now
    since,      \* when the reconciliation or the request at hand began
    signalTs,
    got,        \* the answers it works with
    seen,       \* the mtime of the file it is about to read
    scale,      \* macro_scale in halves
    holding,
    \* history, read by no action
    moved,      \* the file was written since this cycle began
    hidden      \* it was written again under the mtime of the table

cycle == <<pc, start, since, signalTs, got, seen, scale, holding>>
vars == <<now, file, cache, table, mtime, cycle, moved, hidden>>

Answers == [at : -1 .. MaxTime, made : -1 .. MaxTime, val : Moods \cup {0, 1}]

\* Every variable has its type, and nothing in the cache is from the future.
TypeOK ==
    /\ now \in 0 .. MaxTime
    /\ file.kind \in Kinds /\ file.ver \in 1 .. MaxEdits + 1 /\ file.mtime \in 1 .. file.ver
    /\ \A c \in {cache[k] : k \in Endpoints} \cup {got[k] : k \in Endpoints} :
          c \in Answers /\ c.made <= c.at /\ c.at <= now
    /\ mtime \in 0 .. file.ver
    /\ pc \in {"idle", "reconcile", "regime", "regimeCall", "stat", "read", "series",
               "seriesCall", "enter"}
    /\ {start, since, signalTs} \subseteq 0 .. now
    /\ seen \in 0 .. file.ver /\ scale \in 0 .. 2
    /\ {holding, moved, hidden} \subseteq BOOLEAN

Init ==
    /\ now = 0 /\ pc = "idle" /\ start = 0 /\ since = 0 /\ signalTs = 0
    /\ \E c \in Calendars : file = [kind |-> "ok", ver |-> 1, mtime |-> 1, events |-> c]
    /\ cache = [k \in Endpoints |-> NoData] /\ got = [k \in Endpoints |-> NoData]
    /\ table = {} /\ mtime = 0 /\ seen = 0 /\ scale = 2
    /\ holding = FALSE /\ moved = FALSE /\ hidden = FALSE

-----------------------------------------------------------------------------
(* The world *)

Calling == pc \in {CallOf[k] : k \in Endpoints}

Tick ==
    /\ now < MaxTime
    /\ Calling => now < since + CallLen
    /\ pc = "reconcile" => now < since + ReconcileLen
    /\ now' = now + 1
    /\ UNCHANGED <<file, cache, table, mtime, cycle, moved, hidden>>

\* The calendar is written by hand or by a pull: whole, unreadable, of no use, or
\* removed.  An edit that follows close on another, or a copy that keeps its
\* time, leaves the mtime as it was.
Edit ==
    /\ file.ver <= MaxEdits
    /\ \E kind \in Kinds, c \in Calendars, m \in {file.mtime, file.ver + 1} :
          /\ file' = [kind |-> kind, ver |-> file.ver + 1, mtime |-> m,
                      events |-> IF kind = "ok" THEN c ELSE {}]
          /\ hidden' = (m = mtime)
    /\ moved' = TRUE
    /\ UNCHANGED <<now, cache, table, mtime, cycle>>

\* A cycle ends, and with it what it knew.
EndCycle ==
    /\ pc' = "idle"
    /\ start' = 0 /\ since' = 0 /\ signalTs' = 0 /\ seen' = 0 /\ scale' = 2
    /\ got' = [k \in Endpoints |-> NoData]

\* The process ends and forgets; MacroCalendar and the cache begin empty.
Restart ==
    /\ pc # "idle"
    /\ EndCycle
    /\ cache' = [k \in Endpoints |-> NoData] /\ table' = {} /\ mtime' = 0
    /\ hidden' = FALSE
    /\ UNCHANGED <<now, file, holding, moved>>

-----------------------------------------------------------------------------
(* CMCClient._get *)

\* Mutant: what is in the cache is good for ever.
CachedAlways(k) == cache[k] # NoData

Cached(k) == cache[k] # NoData /\ now - cache[k].at < TTL[k]

\* A cached answer, or a request; next is where the cycle goes on.
Get(k, next) ==
    /\ pc = k
    /\ IF Cached(k)
       THEN /\ got' = [got EXCEPT ![k] = cache[k]]
            /\ pc' = next /\ UNCHANGED since
       ELSE pc' = CallOf[k] /\ since' = now /\ UNCHANGED got
    /\ UNCHANGED <<now, file, cache, table, mtime, start, signalTs, seen, scale, holding,
                   moved, hidden>>

\* The answer arrives.  CMC made it at some moment of the call; it is stored
\* with the time it arrived.
Answer(k, next) ==
    /\ pc = CallOf[k]
    /\ \E m \in since .. now, v \in Values(k) :
          /\ cache' = [cache EXCEPT ![k] = [at |-> now, made |-> m, val |-> v]]
          /\ got' = [got EXCEPT ![k] = cache'[k]]
    /\ pc' = next /\ since' = 0
    /\ UNCHANGED <<now, file, table, mtime, start, signalTs, seen, scale, holding, moved,
                   hidden>>

\* CMCError: a missing regime is the data gate, a missing series skips its token;
\* whatever else requests raises ends the cycle as well.
Refuse ==
    /\ Calling
    /\ EndCycle
    /\ UNCHANGED <<now, file, cache, table, mtime, holding, moved, hidden>>

-----------------------------------------------------------------------------
(* MacroCalendar *)

Levels == [high |-> 0, medium |-> 1]        \* LEVEL_SCALE, in halves

\* Malformed events are skipped.
Windows(events) == {e \in events : e.level \in DOMAIN Levels}

ActiveAt(w, t) == w.from <= t /\ t <= w.to

\* Mutant: the mildest active window wins.
MildestScale(t, wins) ==
    IF \E w \in wins : ActiveAt(w, t) /\ w.level = "medium" THEN 1
    ELSE IF \E w \in wins : ActiveAt(w, t) THEN 0 ELSE 2

\* status(): the most restrictive of the active windows.
ScaleAt(t, wins) ==
    LET active == {Levels[w.level] : w \in {v \in wins : ActiveAt(v, t)}} IN
    CHOOSE s \in active \cup {2} : \A o \in active : s <= o

\* Mutant: the table is marked current before it is read.
MacroStatEager ==
    /\ pc = "stat"
    /\ IF file.kind = "gone" THEN mtime' = 0 /\ table' = {} ELSE mtime' = file.mtime /\ UNCHANGED table
    /\ seen' = IF file.kind = "gone" THEN 0 ELSE file.mtime
    /\ IF file.kind = "gone" \/ file.mtime = mtime
       THEN pc' = "series" /\ scale' = ScaleAt(start, table')
       ELSE pc' = "read" /\ UNCHANGED scale
    /\ UNCHANGED <<now, file, cache, start, since, signalTs, got, holding, moved, hidden>>

\* _load looks at the time of the file, ...
MacroStat ==
    /\ pc = "stat"
    /\ IF file.kind = "gone"
       THEN mtime' = 0 /\ table' = {} /\ hidden' = FALSE
       ELSE UNCHANGED <<mtime, table, hidden>>
    /\ IF file.kind = "gone" \/ file.mtime = mtime
       THEN pc' = "series" /\ scale' = ScaleAt(start, table') /\ UNCHANGED seen
       ELSE pc' = "read" /\ seen' = file.mtime /\ UNCHANGED scale
    /\ UNCHANGED <<now, file, cache, start, since, signalTs, got, holding, moved>>

\* ... then reads it; an unreadable file leaves the previous table in force.
MacroRead ==
    /\ pc = "read" /\ file.kind # "malformed"
    /\ IF file.kind = "ok"
       THEN table' = Windows(file.events) /\ mtime' = seen /\ hidden' = FALSE
       ELSE UNCHANGED <<table, mtime, hidden>>
    /\ pc' = "series" /\ scale' = ScaleAt(start, table') /\ seen' = 0
    /\ UNCHANGED <<now, file, cache, start, since, signalTs, got, holding, moved>>

\* What is no mapping, or no text, raises out of status() and ends the cycle.
MacroRaises ==
    /\ pc = "read" /\ file.kind = "malformed"
    /\ EndCycle
    /\ UNCHANGED <<now, file, cache, table, mtime, holding, moved, hidden>>

-----------------------------------------------------------------------------
(* The cycle *)

BeginCycle ==
    /\ pc = "idle"
    /\ pc' = "reconcile" /\ start' = now /\ since' = now /\ moved' = FALSE
    /\ UNCHANGED <<now, file, cache, table, mtime, signalTs, got, seen, scale, holding, hidden>>

\* signal_ts is taken once, before any data is asked for.
Reconciled ==
    /\ pc = "reconcile"
    /\ pc' = "regime" /\ signalTs' = now /\ since' = 0
    /\ holding' \in BOOLEAN
    /\ UNCHANGED <<now, file, cache, table, mtime, start, got, seen, scale, moved, hidden>>

\* classify: greed closes entries, fear and missing data halve them.
RegimeScale(mood) == CASE mood = 90 -> 0 [] mood = 10 -> 1 [] mood = 50 -> 2

\* Mutant: the age of the signal is not looked at.
FreshAlways == TRUE

\* evaluate: signal_age_min against max_signal_age_min.
Fresh == now - signalTs <= MaxSignalAge

Enter ==
    /\ pc = "enter" /\ got["series"].val # 0
    /\ ~holding /\ RegimeScale(got["regime"].val) * scale > 0
    /\ Fresh
    /\ EndCycle /\ holding' = TRUE
    /\ UNCHANGED <<now, file, cache, table, mtime, moved, hidden>>

\* No signal, a gate that is shut, or closes[-1] of an empty series, which raises.
NoEntry ==
    /\ pc = "enter"
    /\ EndCycle
    /\ UNCHANGED <<now, file, cache, table, mtime, holding, moved, hidden>>

Read ==
    \/ Get("regime", "stat") \/ Answer("regime", "stat")
    \/ Get("series", "enter") \/ Answer("series", "enter")
    \/ Refuse

Step ==
    \/ BeginCycle \/ Reconciled \/ Read
    \/ MacroStat \/ MacroRead \/ MacroRaises \/ Enter \/ NoEntry

Next == Tick \/ Edit \/ Restart \/ Step

Spec == Init /\ [][Next]_vars

-----------------------------------------------------------------------------
(* Properties *)

\* Whatever CMC data a cycle takes up was made at most its TTL and one request
\* ago, through restarts, refused calls and answers of any delay (_get).
AnswersYoung ==
    [][\A k \in Endpoints : got'[k] # got[k] /\ got'[k] # NoData =>
          now - got'[k].made < TTL[k] + CallLen]_vars

Entered == pc = "enter" /\ ~holding /\ holding'

\* An entry rests on data no older than the freshness gate, the TTL and one
\* request together: max_signal_age_min alone does not bound it, since signal_ts
\* is the time of asking (cycle, evaluate, _get).
EntryDataBounded ==
    [][Entered => \A k \in {"regime", "series"} :
          now - got[k].made < MaxSignalAge + TTL[k] + CallLen]_vars

\* While the calendar stands unedited no entry is made inside a high window,
\* but for the cycles that had begun when it opened (status reads the time the
\* cycle began): the window, not the release, must allow for their length.  An
\* edit that keeps the mtime goes unseen until the next one or a restart.
BlackoutHolds ==
    [][Entered /\ ~moved /\ ~hidden /\ file.kind = "ok" =>
          ~ \E w \in Windows(file.events) :
                /\ w.level = "high"
                /\ ActiveAt(w, now) /\ ActiveAt(w, now - ReconcileLen - MaxSignalAge)]_vars

\* A table that counts as current is what the file says, even when the operator
\* writes between the look at its time and the reading (_load), unless what was
\* written since kept the mtime.
CalendarInForce ==
    mtime = file.mtime /\ file.kind = "ok" /\ ~hidden => table = Windows(file.events)
===============================================================================
