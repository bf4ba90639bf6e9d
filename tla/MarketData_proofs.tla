--------------------------- MODULE MarketData_proofs ---------------------------
(***************************************************************************)
(* The age of the data behind an entry and the calendar in force, for every *)
(* TTL, delay, freshness limit, set of calendars and bound of MarketData.   *)
(***************************************************************************)
EXTENDS MarketData, TLAPS

Datum == [at : Int, made : Int, val : Int]
Event == [level : STRING, from : Int, to : Int]
Files == [kind : Kinds, ver : Nat \ {0}, mtime : Nat \ {0}, events : SUBSET Event]
Places == {"idle", "reconcile", "regime", "regimeCall", "stat", "read", "series",
           "seriesCall", "enter"}

FeedType ==
    /\ now \in Int /\ start \in Int /\ since \in Int /\ signalTs \in Int
    /\ cache \in [Endpoints -> Datum] /\ got \in [Endpoints -> Datum]
    /\ file \in Files
    /\ mtime \in Nat /\ seen \in Nat
    /\ pc \in Places /\ holding \in BOOLEAN /\ moved \in BOOLEAN /\ hidden \in BOOLEAN

LEMMA Lengths ==
    /\ CallLen \in Nat /\ ReconcileLen \in Nat /\ MaxSignalAge \in Nat
    /\ MaxEdits \in Nat /\ MaxTime \in Nat
    /\ TTL["regime"] \in Nat \ {0} /\ TTL["series"] \in Nat \ {0}
  BY FeedAssumption DEF Endpoints

LEMMA Calls ==
    /\ Calling <=> pc \in {"regimeCall", "seriesCall"}
    /\ CallOf["regime"] = "regimeCall" /\ CallOf["series"] = "seriesCall"
  BY DEF Calling, CallOf, Endpoints

LEMMA NoDatum == NoData \in Datum
  BY DEF NoData, Datum

LEMMA CalendarEvents == \A c \in Calendars : c \in SUBSET Event
  BY FeedAssumption DEF Event

LEMMA FeedTypeInit == Init => FeedType
  <1>. SUFFICES ASSUME Init PROVE FeedType
    OBVIOUS
  <1>1. file \in Files
    <2>1. PICK c \in Calendars : file = [kind |-> "ok", ver |-> 1, mtime |-> 1, events |-> c]
      BY DEF Init
    <2>2. c \in SUBSET Event
      BY CalendarEvents
    <2>. QED BY <2>1, <2>2 DEF Files, Kinds
  <1>2. cache \in [Endpoints -> Datum] /\ got \in [Endpoints -> Datum]
    BY NoDatum DEF Init
  <1>3. now = 0 /\ start = 0 /\ since = 0 /\ signalTs = 0 /\ mtime = 0 /\ seen = 0
        /\ pc = "idle" /\ holding = FALSE /\ moved = FALSE /\ hidden = FALSE
    BY DEF Init
  <1>4. /\ now \in Int /\ start \in Int /\ since \in Int /\ signalTs \in Int
        /\ mtime \in Nat /\ seen \in Nat
    BY <1>3
  <1>5. pc \in Places /\ holding \in BOOLEAN /\ moved \in BOOLEAN /\ hidden \in BOOLEAN
    BY <1>3 DEF Places
  <1>. QED BY <1>1, <1>2, <1>4, <1>5 DEF FeedType

LEMMA FeedTypeNext == FeedType /\ [Next]_vars => FeedType'
  <1>. SUFFICES ASSUME FeedType, [Next]_vars PROVE FeedType'
    OBVIOUS
  <1>. USE DEF FeedType
  <1>1. ASSUME NEW k \in Endpoints, NEW next \in Places, Get(k, next)
        PROVE  FeedType'
    <2>1. /\ got' = [got EXCEPT ![k] = cache[k]] \/ got' = got
          /\ pc' = next \/ pc' = CallOf[k]
          /\ since' = now \/ since' = since
          /\ UNCHANGED <<now, file, cache, mtime, start, signalTs, seen, holding, moved,
                         hidden>>
      BY <1>1 DEF Get
    <2>2. pc' \in Places
      BY <1>1, <2>1, Calls DEF Endpoints, Places
    <2>3. got' \in [Endpoints -> Datum]
      BY <2>1
    <2>. QED BY <2>1, <2>2, <2>3
  <1>2. ASSUME NEW k \in Endpoints, NEW next \in Places, Answer(k, next)
        PROVE  FeedType'
    <2>1. PICK m \in since .. now, v \in Values(k) :
             /\ cache' = [cache EXCEPT ![k] = [at |-> now, made |-> m, val |-> v]]
             /\ got' = [got EXCEPT ![k] = cache'[k]]
      BY <1>2 DEF Answer
    <2>2. [at |-> now, made |-> m, val |-> v] \in Datum
      BY DEF Datum, Values, Moods
    <2>3. cache' \in [Endpoints -> Datum] /\ got' \in [Endpoints -> Datum]
      BY <2>1, <2>2
    <2>. QED BY <1>2, <2>3 DEF Answer
  <1>3. ASSUME EndCycle, UNCHANGED <<now, file>>, cache' \in [Endpoints -> Datum],
               mtime' \in Nat, holding' \in BOOLEAN, moved' \in BOOLEAN,
               hidden' \in BOOLEAN
        PROVE  FeedType'
    BY <1>3, NoDatum DEF EndCycle, Places
  <1>4. CASE Tick
    BY <1>4 DEF Tick, cycle
  <1>5. CASE Edit
    <2>1. PICK kind \in Kinds, c \in Calendars, m \in {file.mtime, file.ver + 1} :
             /\ file' = [kind |-> kind, ver |-> file.ver + 1, mtime |-> m,
                         events |-> IF kind = "ok" THEN c ELSE {}]
             /\ hidden' = (m = mtime)
      BY <1>5 DEF Edit
    <2>2. file' \in Files
      <3>1. (IF kind = "ok" THEN c ELSE {}) \in SUBSET Event
        BY CalendarEvents
      <3>2. file.ver + 1 \in Nat \ {0} /\ m \in Nat \ {0}
        BY DEF Files
      <3>. QED BY <2>1, <3>1, <3>2 DEF Files
    <2>3. hidden' \in BOOLEAN
      BY <2>1
    <2>. QED BY <1>5, <2>2, <2>3 DEF Edit, cycle
  <1>6. CASE Restart
    BY <1>3, <1>6, NoDatum DEF Restart
  <1>7. CASE Refuse
    BY <1>3, <1>7 DEF Refuse
  <1>8. CASE Enter
    BY <1>3, <1>8 DEF Enter
  <1>9. CASE NoEntry
    BY <1>3, <1>9 DEF NoEntry
  <1>10. CASE BeginCycle
    BY <1>10 DEF BeginCycle, Places
  <1>11. CASE Reconciled
    BY <1>11 DEF Reconciled, Places
  <1>12. CASE MacroStat
    <2>1. mtime' \in Nat /\ seen' \in Nat /\ pc' \in Places
      BY <1>12 DEF MacroStat, Places, Files
    <2>. QED BY <1>12, <2>1 DEF MacroStat
  <1>13. CASE MacroRead
    BY <1>13 DEF MacroRead, Places
  <1>14. CASE Get("regime", "stat") \/ Answer("regime", "stat")
              \/ Get("series", "enter") \/ Answer("series", "enter")
    BY <1>1, <1>2, <1>14 DEF Endpoints, Places
  <1>15. CASE UNCHANGED vars
    BY <1>15 DEF vars, cycle
  <1>16. CASE MacroRaises
    BY <1>3, <1>16 DEF MacroRaises
  <1>. QED BY <1>4, <1>5, <1>6, <1>7, <1>8, <1>9, <1>10, <1>11, <1>12, <1>13, <1>14, <1>15, <1>16
           DEF Next, Step, Read

-----------------------------------------------------------------------------
(* The age of data *)

\* When a cycle goes on with the answer of an endpoint.
Using == [regime |-> {"stat", "read", "series", "seriesCall", "enter"}, series |-> {"enter"}]

\* What a request took is in the age of its answer, what the cache added is less
\* than the TTL, and a cycle took its answers after signal_ts.
AgeInv ==
    /\ FeedType
    /\ Calling => since <= now /\ now <= since + CallLen
    /\ pc \notin {"idle", "reconcile"} => signalTs <= now
    /\ \A k \in Endpoints :
          /\ cache[k] # NoData => cache[k].at <= now /\ cache[k].at - cache[k].made <= CallLen
                                 /\ cache[k].val \in Values(k)
          /\ pc \in Using[k] => signalTs - got[k].made < TTL[k] + CallLen
                                /\ got[k].val \in Values(k)

LEMMA AgeInit == Init => AgeInv
  <1>. SUFFICES ASSUME Init PROVE AgeInv
    OBVIOUS
  <1>1. pc = "idle" /\ \A k \in Endpoints : cache[k] = NoData
    BY DEF Init
  <1>2. ~Calling /\ \A k \in Endpoints : pc \notin Using[k]
    BY <1>1, Calls DEF Using, Endpoints
  <1>. QED BY <1>1, <1>2, FeedTypeInit DEF AgeInv

\* An answer the cycle takes up, from the cache or from the request.
LEMMA AgeOfCached ==
    ASSUME AgeInv, NEW k \in Endpoints, Cached(k)
    PROVE  now - cache[k].made < TTL[k] + CallLen
  <1>1. cache[k] \in Datum /\ now \in Int /\ TTL[k] \in Nat
    BY Lengths DEF AgeInv, FeedType, Endpoints
  <1>2. cache[k].at \in Int /\ cache[k].made \in Int
    BY <1>1 DEF Datum
  <1>3. cache[k].at - cache[k].made <= CallLen /\ now - cache[k].at < TTL[k]
    BY DEF AgeInv, Cached
  <1>. QED BY <1>1, <1>2, <1>3, Lengths

LEMMA AgeOfAnswer ==
    ASSUME AgeInv, NEW k \in Endpoints, NEW next, Answer(k, next)
    PROVE  \E d \in Datum : /\ cache' = [cache EXCEPT ![k] = d]
                           /\ got' = [got EXCEPT ![k] = d]
                           /\ d.at = now /\ now - d.made <= CallLen /\ d.val \in Values(k)
  <1>1. PICK m \in since .. now, v \in Values(k) :
           /\ cache' = [cache EXCEPT ![k] = [at |-> now, made |-> m, val |-> v]]
           /\ got' = [got EXCEPT ![k] = cache'[k]]
    BY DEF Answer
  <1>. DEFINE d == [at |-> now, made |-> m, val |-> v]
  <1>2. now \in Int /\ since \in Int /\ cache \in [Endpoints -> Datum]
    BY DEF AgeInv, FeedType
  <1>3. d \in Datum /\ d.at = now /\ d.made = m /\ d.val \in Values(k)
    BY <1>2 DEF Datum, Values, Moods
  <1>4. now <= since + CallLen
    <2>1. Calling
      BY Calls DEF Answer, Endpoints
    <2>. QED BY <2>1 DEF AgeInv
  <1>5. now - d.made <= CallLen
    BY <1>2, <1>3, <1>4, Lengths
  <1>6. cache' = [cache EXCEPT ![k] = d] /\ got' = [got EXCEPT ![k] = d]
    BY <1>1, <1>2
  <1>. HIDE DEF d
  <1>. QED BY <1>3, <1>5, <1>6

LEMMA AgeNext == AgeInv /\ [Next]_vars => AgeInv'
  <1>. SUFFICES ASSUME AgeInv, [Next]_vars PROVE AgeInv'
    OBVIOUS
  <1>1. FeedType /\ FeedType'
    BY FeedTypeNext DEF AgeInv
  <1>2. /\ now \in Int /\ since \in Int /\ signalTs \in Int /\ pc \in Places
        /\ cache \in [Endpoints -> Datum] /\ got \in [Endpoints -> Datum]
    BY <1>1 DEF FeedType
  <1>3. /\ \A k \in Endpoints : cache[k].at \in Int /\ cache[k].made \in Int /\ got[k].made \in Int
        /\ \A k \in Endpoints : TTL[k] \in Nat \ {0}
    BY <1>2, Lengths DEF Datum, Endpoints
  <1>4. ASSUME pc' = "idle", now' = now,
               \A k \in Endpoints : cache'[k] = cache[k] \/ cache'[k] = NoData
        PROVE  AgeInv'
    <2>1. ~(Calling') /\ \A k \in Endpoints : pc' \notin Using[k]
      BY <1>4 DEF Calling, CallOf, Using, Endpoints
    <2>. QED BY <1>1, <1>4, <2>1 DEF AgeInv
  <1>5. ASSUME NEW k \in Endpoints, NEW next \in Places, Get(k, next),
               <<k, next>> \in {<<"regime", "stat">>, <<"series", "enter">>}
        PROVE  AgeInv'
    <2>1. pc = k /\ UNCHANGED <<now, cache, signalTs>>
      BY <1>5 DEF Get
    <2>2. signalTs <= now
      BY <2>1 DEF AgeInv, Endpoints
    <2>3. CASE Cached(k)
      <3>1. got' = [got EXCEPT ![k] = cache[k]] /\ pc' = next
        BY <1>5, <2>3 DEF Get
      <3>2. signalTs - got'[k].made < TTL[k] + CallLen
        BY <1>2, <1>3, <2>2, <2>3, <3>1, AgeOfCached, Lengths
      <3>5. got'[k].val \in Values(k)
        BY <1>2, <2>3, <3>1 DEF AgeInv, Cached
      <3>3. ~(Calling') /\ pc' \notin {"idle", "reconcile"}
        BY <1>5, <3>1 DEF Calling, CallOf, Endpoints
      <3>4. ASSUME NEW j \in Endpoints, pc' \in Using[j]
            PROVE  signalTs' - got'[j].made < TTL[j] + CallLen /\ got'[j].val \in Values(j)
        <4>1. CASE j = k
          BY <2>1, <3>2, <3>5, <4>1
        <4>2. CASE j # k
          <5>1. j = "regime" /\ k = "series"
            BY <1>5, <3>1, <3>4, <4>2 DEF Using, Endpoints
          <5>2. pc \in Using[j] /\ got'[j] = got[j]
            BY <1>2, <2>1, <3>1, <5>1 DEF Using, Endpoints
          <5>. QED BY <2>1, <5>2 DEF AgeInv
        <4>. QED BY <4>1, <4>2
      <3>. QED BY <1>1, <2>1, <2>2, <3>3, <3>4 DEF AgeInv
    <2>4. CASE ~Cached(k)
      <3>1. pc' = CallOf[k] /\ since' = now /\ got' = got
        BY <1>5, <2>4 DEF Get
      <3>2. since' <= now' /\ now' <= since' + CallLen
        BY <1>2, <2>1, <3>1, Lengths
      <3>3. pc' \notin {"idle", "reconcile"}
        BY <3>1, Calls DEF Endpoints
      <3>4. ASSUME NEW j \in Endpoints, pc' \in Using[j]
            PROVE  signalTs' - got'[j].made < TTL[j] + CallLen /\ got'[j].val \in Values(j)
        <4>1. j = "regime" /\ k = "series"
          BY <3>1, <3>4, Calls DEF Using, Endpoints
        <4>2. pc \in Using[j]
          BY <2>1, <4>1 DEF Using
        <4>. QED BY <2>1, <3>1, <4>2 DEF AgeInv
      <3>. QED BY <1>1, <2>1, <2>2, <3>2, <3>3, <3>4 DEF AgeInv
    <2>. QED BY <2>3, <2>4
  <1>6. ASSUME NEW k \in Endpoints, NEW next \in Places, Answer(k, next),
               <<k, next>> \in {<<"regime", "stat">>, <<"series", "enter">>}
        PROVE  AgeInv'
    <2>1. pc = CallOf[k] /\ pc' = next /\ UNCHANGED <<now, signalTs>>
      BY <1>6 DEF Answer
    <2>2. PICK d \in Datum : /\ cache' = [cache EXCEPT ![k] = d]
                            /\ got' = [got EXCEPT ![k] = d]
                            /\ d.at = now /\ now - d.made <= CallLen /\ d.val \in Values(k)
      BY <1>6, AgeOfAnswer
    <2>3. signalTs <= now
      BY <2>1, Calls DEF AgeInv, Endpoints
    <2>4. d.made \in Int
      BY DEF Datum
    <2>5. ~(Calling') /\ pc' \notin {"idle", "reconcile"}
      BY <1>6, <2>1 DEF Calling, CallOf, Endpoints
    <2>6. ASSUME NEW j \in Endpoints
          PROVE  cache'[j] # NoData => cache'[j].at <= now' /\ cache'[j].at - cache'[j].made <= CallLen
                                   /\ cache'[j].val \in Values(j)
      <3>1. CASE j = k
        BY <1>2, <2>1, <2>2, <2>4, <3>1
      <3>2. CASE j # k
        BY <1>2, <2>1, <2>2, <3>2 DEF AgeInv
      <3>. QED BY <3>1, <3>2
    <2>7. ASSUME NEW j \in Endpoints, pc' \in Using[j]
          PROVE  signalTs' - got'[j].made < TTL[j] + CallLen /\ got'[j].val \in Values(j)
      <3>1. CASE j = k
        <4>1. got'[j] = d
          BY <1>2, <2>2, <3>1
        <4>2. TTL[k] \in Nat \ {0} /\ now - d.made <= CallLen
          BY <1>3, <2>2
        <4>3. signalTs - d.made < TTL[k] + CallLen
          BY <1>2, <2>3, <2>4, <4>2, Lengths
        <4>. QED BY <2>1, <2>2, <3>1, <4>1, <4>3
      <3>2. CASE j # k
        <4>1. j = "regime" /\ k = "series"
          BY <1>6, <2>1, <2>7, <3>2 DEF Using, Endpoints
        <4>2. pc \in Using[j] /\ got'[j] = got[j]
          BY <1>2, <2>1, <2>2, <4>1, Calls DEF Using, Endpoints
        <4>. QED BY <2>1, <4>2 DEF AgeInv
      <3>. QED BY <3>1, <3>2
    <2>. QED BY <1>1, <2>1, <2>3, <2>5, <2>6, <2>7 DEF AgeInv
  <1>7. CASE Tick
    <2>1. /\ now' = now + 1 /\ (Calling => now < since + CallLen)
          /\ UNCHANGED <<cache, pc, since, signalTs, got>>
      BY <1>7 DEF Tick, cycle
    <2>2. Calling' <=> Calling
      BY <2>1 DEF Calling
    <2>3. Calling' => since' <= now' /\ now' <= since' + CallLen
      BY <1>2, <2>1, <2>2, Lengths DEF AgeInv
    <2>4. pc' \notin {"idle", "reconcile"} => signalTs' <= now'
      BY <1>2, <2>1 DEF AgeInv
    <2>5. ASSUME NEW k \in Endpoints
          PROVE  cache'[k] # NoData => cache'[k].at <= now' /\ cache'[k].at - cache'[k].made <= CallLen
                                   /\ cache'[k].val \in Values(k)
      BY <1>2, <1>3, <2>1 DEF AgeInv
    <2>. QED BY <1>1, <2>1, <2>3, <2>4, <2>5 DEF AgeInv
  <1>8. CASE Edit \/ UNCHANGED vars
    <2>1. UNCHANGED <<now, cache, pc, since, signalTs, got>>
      BY <1>8 DEF Edit, vars, cycle
    <2>. QED BY <1>1, <2>1 DEF AgeInv, Calling
  <1>9. CASE Restart \/ Refuse \/ MacroRaises \/ Enter \/ NoEntry
    BY <1>4, <1>9 DEF Restart, Refuse, MacroRaises, Enter, NoEntry, EndCycle
  <1>10. CASE BeginCycle
    <2>1. pc' = "reconcile" /\ UNCHANGED <<now, cache>>
      BY <1>10 DEF BeginCycle
    <2>2. ~(Calling') /\ \A k \in Endpoints : pc' \notin Using[k]
      BY <2>1 DEF Calling, CallOf, Using, Endpoints
    <2>. QED BY <1>1, <2>1, <2>2 DEF AgeInv
  <1>11. CASE Reconciled
    <2>1. pc' = "regime" /\ signalTs' = now /\ UNCHANGED <<now, cache>>
      BY <1>11 DEF Reconciled
    <2>2. ~(Calling') /\ \A k \in Endpoints : pc' \notin Using[k]
      BY <2>1 DEF Calling, CallOf, Using, Endpoints
    <2>. QED BY <1>1, <1>2, <2>1, <2>2 DEF AgeInv
  <1>12. CASE MacroStat \/ MacroRead
    <2>1. /\ pc \in {"stat", "read"} /\ pc' \in {"read", "series"}
          /\ UNCHANGED <<now, cache, signalTs, got>>
      BY <1>12 DEF MacroStat, MacroRead
    <2>2. ~(Calling') /\ pc' \notin {"idle", "reconcile"}
      BY <2>1 DEF Calling, CallOf, Endpoints
    <2>3. \A k \in Endpoints : pc' \in Using[k] => pc \in Using[k]
      BY <2>1 DEF Using, Endpoints
    <2>4. signalTs <= now
      BY <2>1 DEF AgeInv
    <2>. QED BY <1>1, <2>1, <2>2, <2>3, <2>4 DEF AgeInv
  <1>13. CASE Get("regime", "stat") \/ Answer("regime", "stat")
              \/ Get("series", "enter") \/ Answer("series", "enter")
    BY <1>5, <1>6, <1>13 DEF Endpoints, Places
  <1>. QED BY <1>7, <1>8, <1>9, <1>10, <1>11, <1>12, <1>13 DEF Next, Step, Read

LEMMA AgeAlways == Spec => []AgeInv
  BY AgeInit, AgeNext, PTL DEF Spec

\* A datum the cycle takes up was made at most its TTL and one request ago.
THEOREM DataYoung == Spec => AnswersYoung
  <1>1. AgeInv /\ [Next]_vars =>
          [\A k \in Endpoints : got'[k] # got[k] /\ got'[k] # NoData =>
             now - got'[k].made < TTL[k] + CallLen]_vars
    <2>. SUFFICES ASSUME AgeInv, Next, NEW j \in Endpoints, got'[j] # got[j], got'[j] # NoData
                  PROVE  now - got'[j].made < TTL[j] + CallLen
      OBVIOUS
    <2>1. /\ now \in Int /\ got \in [Endpoints -> Datum] /\ TTL[j] \in Nat \ {0}
          /\ cache \in [Endpoints -> Datum]
      BY Lengths DEF AgeInv, FeedType, Endpoints
    <2>2. ASSUME NEW k \in Endpoints, NEW next, Get(k, next)
          PROVE  now - got'[j].made < TTL[j] + CallLen
      <3>1. Cached(k) /\ got' = [got EXCEPT ![k] = cache[k]]
        BY <2>2 DEF Get
      <3>2. j = k /\ got'[j] = cache[k]
        BY <2>1, <3>1
      <3>. QED BY <3>1, <3>2, AgeOfCached
    <2>3. ASSUME NEW k \in Endpoints, NEW next, Answer(k, next)
          PROVE  now - got'[j].made < TTL[j] + CallLen
      <3>1. PICK d \in Datum : got' = [got EXCEPT ![k] = d] /\ now - d.made <= CallLen
        BY <2>3, AgeOfAnswer
      <3>2. got'[j] = d /\ d.made \in Int
        BY <2>1, <3>1 DEF Datum
      <3>. QED BY <2>1, <3>1, <3>2, Lengths
    <2>4. CASE Get("regime", "stat") \/ Answer("regime", "stat")
               \/ Get("series", "enter") \/ Answer("series", "enter")
      BY <2>2, <2>3, <2>4 DEF Endpoints
    <2>5. CASE ~(Get("regime", "stat") \/ Answer("regime", "stat")
               \/ Get("series", "enter") \/ Answer("series", "enter"))
      <3>1. got' = got \/ got' = [k \in Endpoints |-> NoData]
        BY <2>5 DEF Next, Tick, Edit, Restart, Step, Read, Refuse, BeginCycle, Reconciled,
           MacroStat, MacroRead, MacroRaises, Enter, NoEntry, EndCycle, cycle
      <3>. QED BY <3>1
    <2>. QED BY <2>4, <2>5
  <1>. QED BY <1>1, AgeAlways, PTL DEF Spec, AnswersYoung

\* Only Enter enters.
LEMMA EnteredOnce == Next /\ Entered => Enter
  BY Calls DEF Entered, Next, Tick, Edit, Restart, Step, Read, Get, Answer, Refuse, BeginCycle,
     Reconciled, MacroStat, MacroRead, MacroRaises, NoEntry, EndCycle, cycle, Endpoints

\* The data behind an entry is no older than freshness gate, TTL and one request
\* together.
THEOREM EntryDataYoung == Spec => EntryDataBounded
  <1>1. AgeInv /\ [Next]_vars =>
          [Entered => \A k \in {"regime", "series"} :
             now - got[k].made < MaxSignalAge + TTL[k] + CallLen]_vars
    <2>. SUFFICES ASSUME AgeInv, Next, Entered, NEW k \in {"regime", "series"}
                  PROVE  now - got[k].made < MaxSignalAge + TTL[k] + CallLen
      OBVIOUS
    <2>1. k \in Endpoints /\ pc = "enter" /\ Fresh
      BY EnteredOnce DEF Enter, Endpoints
    <2>2. signalTs - got[k].made < TTL[k] + CallLen
      <3>1. pc \in Using[k]
        BY <2>1 DEF Using
      <3>. QED BY <2>1, <3>1 DEF AgeInv
    <2>3. now \in Int /\ signalTs \in Int /\ got[k].made \in Int /\ TTL[k] \in Nat
      BY <2>1, Lengths DEF AgeInv, FeedType, Datum, Endpoints
    <2>4. now - signalTs <= MaxSignalAge
      BY <2>1 DEF Fresh
    <2>. QED BY <2>2, <2>3, <2>4, Lengths
  <1>. QED BY <1>1, AgeAlways, PTL DEF Spec, EntryDataBounded

-----------------------------------------------------------------------------
(* The calendar *)

\* The table is that of the version it is marked with, and the scale of a cycle
\* that began with the file as it stands is the one of its beginning.
CalendarInv ==
    /\ FeedType
    /\ mtime <= file.ver /\ seen <= file.ver /\ file.mtime <= file.ver
    /\ CalendarInForce
    /\ pc = "reconcile" => start = since /\ start <= now /\ now <= start + ReconcileLen
    /\ pc \notin {"idle", "reconcile"} => start <= now /\ signalTs <= start + ReconcileLen
    /\ pc \in {"series", "seriesCall", "enter"} /\ ~moved /\ ~hidden /\ file.kind = "ok" =>
          scale = ScaleAt(start, Windows(file.events))

LEMMA CalendarInit == Init => CalendarInv
  <1>. SUFFICES ASSUME Init PROVE CalendarInv
    OBVIOUS
  <1>1. file.ver = 1 /\ file.mtime = 1 /\ mtime = 0 /\ seen = 0 /\ pc = "idle"
    BY DEF Init
  <1>. QED BY <1>1, FeedTypeInit DEF CalendarInv, CalendarInForce

LEMMA CalendarNext == CalendarInv /\ [Next]_vars => CalendarInv'
  <1>. SUFFICES ASSUME CalendarInv, [Next]_vars PROVE CalendarInv'
    OBVIOUS
  <1>1. FeedType /\ FeedType'
    BY FeedTypeNext DEF CalendarInv
  <1>2. /\ now \in Int /\ start \in Int /\ since \in Int /\ signalTs \in Int
        /\ file.ver \in Nat \ {0} /\ file.mtime \in Nat \ {0} /\ mtime \in Nat /\ seen \in Nat
    BY <1>1 DEF FeedType, Files
  <1>3. ASSUME UNCHANGED <<now, file, table, mtime, start, signalTs, seen, scale, moved, hidden>>,
               pc \notin {"idle", "reconcile"}, pc' \notin {"idle", "reconcile"},
               pc' \in {"series", "seriesCall", "enter"} => pc \in {"series", "seriesCall", "enter"}
        PROVE  CalendarInv'
    BY <1>1, <1>3 DEF CalendarInv, CalendarInForce
  <1>4. ASSUME EndCycle, UNCHANGED file, UNCHANGED <<table, mtime, hidden>> \/ mtime' = 0
        PROVE  CalendarInv'
    <2>1. pc' = "idle" /\ seen' = 0
      BY <1>4 DEF EndCycle
    <2>2. CalendarInForce'
      BY <1>2, <1>4, <2>1 DEF CalendarInv, CalendarInForce
    <2>3. mtime' <= file'.ver /\ seen' <= file'.ver /\ file'.mtime <= file'.ver
      BY <1>2, <1>4, <2>1 DEF CalendarInv
    <2>. QED BY <1>1, <2>1, <2>2, <2>3 DEF CalendarInv
  <1>5. CASE Tick
    <2>1. /\ now' = now + 1 /\ (pc = "reconcile" => now < since + ReconcileLen)
          /\ UNCHANGED <<file, table, mtime, pc, start, since, signalTs, seen, scale, moved,
                         hidden>>
      BY <1>5 DEF Tick, cycle
    <2>2. pc = "reconcile" => start = since /\ start <= now' /\ now' <= start + ReconcileLen
      BY <1>2, <2>1, Lengths DEF CalendarInv
    <2>3. pc \notin {"idle", "reconcile"} => start <= now' /\ signalTs <= start + ReconcileLen
      BY <1>2, <2>1 DEF CalendarInv
    <2>. QED BY <1>1, <2>1, <2>2, <2>3 DEF CalendarInv, CalendarInForce
  <1>6. CASE Edit
    <2>1. PICK kind \in Kinds, c \in Calendars, m \in {file.mtime, file.ver + 1} :
             /\ file' = [kind |-> kind, ver |-> file.ver + 1, mtime |-> m,
                         events |-> IF kind = "ok" THEN c ELSE {}]
             /\ hidden' = (m = mtime)
      BY <1>6 DEF Edit
    <2>2. moved' = TRUE /\ UNCHANGED <<now, table, mtime, pc, start, since, signalTs, seen>>
      BY <1>6 DEF Edit, cycle
    <2>3. file'.ver = file.ver + 1 /\ file'.mtime = m
      BY <2>1
    <2>4. mtime' <= file'.ver /\ seen' <= file'.ver /\ file'.mtime <= file'.ver
      BY <1>2, <2>1, <2>2, <2>3 DEF CalendarInv
    <2>5. CalendarInForce'
      BY <2>1, <2>2, <2>3 DEF CalendarInForce
    <2>. QED BY <1>1, <2>2, <2>4, <2>5 DEF CalendarInv
  <1>7. CASE Restart \/ Refuse \/ MacroRaises \/ Enter \/ NoEntry
    BY <1>4, <1>7 DEF Restart, Refuse, MacroRaises, Enter, NoEntry
  <1>8. CASE BeginCycle
    <2>1. /\ pc' = "reconcile" /\ start' = now /\ since' = now
          /\ UNCHANGED <<now, file, table, mtime, seen, hidden>>
      BY <1>8 DEF BeginCycle
    <2>. QED BY <1>1, <1>2, <2>1, Lengths DEF CalendarInv, CalendarInForce
  <1>9. CASE Reconciled
    <2>1. /\ pc = "reconcile" /\ pc' = "regime" /\ signalTs' = now
          /\ UNCHANGED <<now, file, table, mtime, start, seen, hidden>>
      BY <1>9 DEF Reconciled
    <2>2. start <= now /\ now <= start + ReconcileLen
      BY <2>1 DEF CalendarInv
    <2>. QED BY <1>1, <2>1, <2>2 DEF CalendarInv, CalendarInForce
  <1>10. CASE MacroStat
    <2>1. pc = "stat" /\ pc' \in {"read", "series"} /\ UNCHANGED <<now, file, start, signalTs>>
      BY <1>10 DEF MacroStat
    <2>2. start <= now /\ signalTs <= start + ReconcileLen
      BY <2>1 DEF CalendarInv
    <2>3. CASE file.kind = "gone"
      <3>1. mtime' = 0 /\ seen' = seen
        BY <1>10, <2>3 DEF MacroStat
      <3>. QED BY <1>1, <1>2, <2>1, <2>2, <2>3, <3>1 DEF CalendarInv, CalendarInForce
    <2>4. CASE file.kind # "gone"
      <3>1. seen' \in {file.mtime, seen} /\ UNCHANGED <<mtime, table, hidden>>
            /\ (pc' = "series" => file.mtime = mtime /\ scale' = ScaleAt(start, table))
        BY <1>10, <2>4 DEF MacroStat
      <3>2. pc' = "series" /\ ~hidden' /\ file'.kind = "ok" =>
              scale' = ScaleAt(start', Windows(file'.events))
        BY <2>1, <3>1 DEF CalendarInv, CalendarInForce
      <3>3. CalendarInForce'
        BY <2>1, <3>1 DEF CalendarInv, CalendarInForce
      <3>4. mtime' <= file'.ver /\ seen' <= file'.ver /\ file'.mtime <= file'.ver
        BY <2>1, <3>1 DEF CalendarInv
      <3>. QED BY <1>1, <2>1, <2>2, <3>2, <3>3, <3>4 DEF CalendarInv
    <2>. QED BY <2>3, <2>4
  <1>11. CASE MacroRead
    <2>1. /\ pc = "read" /\ pc' = "series"
          /\ UNCHANGED <<now, file, start, signalTs>> /\ seen' = 0
          /\ scale' = ScaleAt(start, table')
          /\ file.kind = "ok" => table' = Windows(file.events) /\ mtime' = seen
          /\ file.kind # "ok" => UNCHANGED <<table, mtime, hidden>>
      BY <1>11 DEF MacroRead
    <2>2. start <= now /\ signalTs <= start + ReconcileLen
      BY <2>1 DEF CalendarInv
    <2>3. mtime' <= file'.ver /\ seen' <= file'.ver /\ CalendarInForce'
      BY <1>2, <2>1 DEF CalendarInv, CalendarInForce
    <2>. QED BY <1>1, <2>1, <2>2, <2>3 DEF CalendarInv
  <1>12. CASE Get("regime", "stat") \/ Answer("regime", "stat")
    BY <1>3, <1>12, Calls DEF Get, Answer
  <1>13. CASE Get("series", "enter") \/ Answer("series", "enter")
    BY <1>3, <1>13, Calls DEF Get, Answer
  <1>14. CASE UNCHANGED vars
    BY <1>1, <1>14 DEF vars, cycle, CalendarInv, CalendarInForce
  <1>. QED BY <1>5, <1>6, <1>7, <1>8, <1>9, <1>10, <1>11, <1>12, <1>13, <1>14
           DEF Next, Step, Read

LEMMA CalendarAlways == Spec => []CalendarInv
  BY CalendarInit, CalendarNext, PTL DEF Spec

\* A table marked as current is the file's, wherever an edit falls.
THEOREM TableCurrent == Spec => []CalendarInForce
  BY CalendarAlways, PTL DEF CalendarInv

\* status() closes entries while a high window is active.
LEMMA HighCloses ==
    ASSUME NEW t, NEW wins \in SUBSET Event, NEW w \in wins,
           \A v \in wins : v.level \in {"high", "medium"},
           w.level = "high", ActiveAt(w, t)
    PROVE  ScaleAt(t, wins) = 0
  <1>. DEFINE active == {Levels[v.level] : v \in {u \in wins : ActiveAt(u, t)}}
  <1>1. active \subseteq {0, 1} /\ 0 \in active
    BY DEF Levels
  <1>2. \A s \in active \cup {2} : (\A o \in active : s <= o) <=> s = 0
    BY <1>1
  <1>3. ScaleAt(t, wins) = CHOOSE s \in active \cup {2} : \A o \in active : s <= o
    BY DEF ScaleAt
  <1>. HIDE DEF active
  <1>. QED BY <1>1, <1>2, <1>3

\* While the calendar stands unedited no cycle that began in a high window enters.
THEOREM BlackoutKept == Spec => BlackoutHolds
  <1>1. AgeInv /\ CalendarInv /\ [Next]_vars =>
          [Entered /\ ~moved /\ ~hidden /\ file.kind = "ok" =>
             ~ \E w \in Windows(file.events) :
                 /\ w.level = "high"
                 /\ ActiveAt(w, now) /\ ActiveAt(w, now - ReconcileLen - MaxSignalAge)]_vars
    <2>. SUFFICES ASSUME AgeInv, CalendarInv, Next, Entered, ~moved, ~hidden, file.kind = "ok",
                         NEW w \in Windows(file.events), w.level = "high",
                         ActiveAt(w, now), ActiveAt(w, now - ReconcileLen - MaxSignalAge)
                  PROVE  FALSE
      OBVIOUS
    <2>1. pc = "enter" /\ Fresh /\ RegimeScale(got["regime"].val) * scale > 0
      BY EnteredOnce DEF Enter
    <2>2. /\ now \in Int /\ start \in Int /\ signalTs \in Int
          /\ file.events \in SUBSET Event
      BY DEF CalendarInv, FeedType, Files
    <2>3. /\ Windows(file.events) \in SUBSET Event
          /\ \A v \in Windows(file.events) : v.level \in {"high", "medium"}
      BY <2>2 DEF Windows, Levels
    <2>4. start <= now /\ now - ReconcileLen - MaxSignalAge <= start
      <3>1. start <= now /\ signalTs <= start + ReconcileLen
        BY <2>1 DEF CalendarInv
      <3>2. now - signalTs <= MaxSignalAge
        BY <2>1 DEF Fresh
      <3>. QED BY <2>2, <3>1, <3>2, Lengths
    <2>5. w.from \in Int /\ w.to \in Int
      BY <2>3 DEF Event
    <2>6. ActiveAt(w, start)
      BY <2>2, <2>4, <2>5, Lengths DEF ActiveAt
    <2>7. scale = 0
      BY <2>1, <2>3, <2>6, HighCloses DEF CalendarInv
    <2>8. RegimeScale(got["regime"].val) * scale = 0
      <3>1. got["regime"].val \in Moods
        BY <2>1 DEF AgeInv, Using, Values, Endpoints
      <3>2. RegimeScale(got["regime"].val) \in Int
        BY <3>1 DEF RegimeScale, Moods
      <3>. QED BY <2>7, <3>2
    <2>. QED BY <2>1, <2>8
  <1>. QED BY <1>1, AgeAlways, CalendarAlways, PTL DEF Spec, BlackoutHolds
===============================================================================
