--------------------------- MODULE RunLoop_proofs ---------------------------
(***************************************************************************)
(* The container's life for every window, interval, market and bound of    *)
(* RunLoop, and at the end what it has on disk, for every list of tokens,  *)
(* cost and fault of Friction.                                             *)
(***************************************************************************)
EXTENDS RunLoop, Friction, FiniteSetTheorems, WellFoundedInduction, TLAPS

\* The back-off after n errors is positive and capped.
LEMMA BackOffCapped ==
    ASSUME NEW n \in Nat
    PROVE  BackOff(n) \in 0 .. LongestSleep
  <1>. DEFINE k == IF n + 1 < BackOffCap THEN n + 1 ELSE BackOffCap
  <1>1. k \in Nat /\ k <= BackOffCap /\ Interval \in Nat /\ BackOffCap \in Nat
    BY WindowAssumption
  <1>2. PICK d \in Nat : BackOffCap = k + d
    <2>1. BackOffCap - k \in Nat /\ BackOffCap = k + (BackOffCap - k)
      BY <1>1
    <2>. QED BY <2>1
  <1>. HIDE DEF k
  <1>3. Interval * BackOffCap = Interval * k + Interval * d
    BY <1>1, <1>2
  <1>4. Interval * k \in Nat /\ Interval * d \in Nat
    BY <1>1, <1>2
  <1>5. Interval * k \in 0 .. Interval * BackOffCap
    BY <1>3, <1>4
  <1>. QED BY <1>5 DEF BackOff, LongestSleep, k

LEMMA CapNat == LongestSleep \in Nat
  BY WindowAssumption DEF LongestSleep

LEMMA TypeInit == Init => TypeOK
  <1>. SUFFICES ASSUME Init PROVE TypeOK
    OBVIOUS
  <1>1. wake \in 0 .. now + LongestSleep
    BY CapNat DEF Init
  <1>2. MaxTime \in Nat /\ MaxErrors \in Nat /\ MaxCrashes \in Nat /\ MaxDrops \in Nat
        /\ Never \in Nat
    BY WindowAssumption DEF Never
  <1>3. now \in 0 .. MaxTime /\ since \in 0 .. MaxTime /\ errors \in 0 .. MaxErrors
        /\ crashes \in 0 .. MaxCrashes /\ drops \in 0 .. MaxDrops
    BY <1>2 DEF Init
  <1>4. wanted \in BOOLEAN /\ stop \in BOOLEAN
    BY DEF Init
  <1>. QED BY <1>1, <1>2, <1>3, <1>4 DEF Init, TypeOK

LEMMA GoneTyped ==
    ASSUME TypeOK, Gone, now' = now
    PROVE  /\ pc' \in {"down", "entry", "boot", "waiting", "top", "floor", "cycle",
                       "sleep", "over"}
           /\ stop' \in BOOLEAN /\ base' \in Costs \cup {0} /\ deadline' \in Nat
           /\ nextFloor' \in Nat /\ errors' \in 0 .. MaxErrors
           /\ wake' \in 0 .. now' + LongestSleep
  <1>1. wake' \in 0 .. now' + LongestSleep
    BY CapNat DEF TypeOK, Gone
  <1>2. errors' \in 0 .. MaxErrors /\ nextFloor' \in Nat
    BY WindowAssumption DEF Gone, Never
  <1>3. stop' \in BOOLEAN /\ base' \in Costs \cup {0}
    BY DEF Gone
  <1>4. deadline' \in Nat
    BY DEF Gone
  <1>5. pc' = "down"
    BY DEF Gone
  <1>. QED BY <1>1, <1>2, <1>3, <1>4, <1>5

LEMMA TypeStep == TypeOK /\ [Next]_vars => TypeOK'
  <1>. SUFFICES ASSUME TypeOK, [Next]_vars PROVE TypeOK'
    OBVIOUS
  <1>. USE WindowAssumption DEF docker, locals, history
  <1>1. CASE Tick
    <2>1. wake' \in 0 .. now' + LongestSleep
      BY <1>1, CapNat DEF TypeOK, Tick
    <2>. QED BY <1>1, <2>1 DEF TypeOK, Tick
  <1>2. CASE MarketMoves
    BY <1>2 DEF TypeOK, MarketMoves
  <1>3. CASE DockerStart
    BY <1>3 DEF TypeOK, DockerStart
  <1>4. CASE DockerUp
    BY <1>4 DEF TypeOK, DockerUp, Never
  <1>5. CASE DockerStop
    <2>1. stop' \in BOOLEAN
      BY <1>5 DEF TypeOK, DockerStop
    <2>2. killAt' \in Nat
      BY <1>5 DEF TypeOK, DockerStop
    <2>. QED BY <1>5, <2>1, <2>2 DEF TypeOK, DockerStop
  <1>6. CASE Kill
    BY <1>6, GoneTyped DEF TypeOK, Kill
  <1>7. CASE Crash
    BY <1>7, GoneTyped DEF TypeOK, Crash
  <1>8. CASE Exit
    BY <1>8, GoneTyped DEF TypeOK, Exit
  <1>9. CASE Measure
    BY <1>9 DEF TypeOK, Measure
  <1>10. CASE WindowOver \/ WaitForWindow \/ Wake
    BY <1>10 DEF TypeOK, WindowOver, WaitForWindow, Wake
  <1>11. CASE InWindow \/ WindowOpens
    BY <1>11 DEF TypeOK, InWindow, WindowOpens, EnterLoop, Never
  <1>12. CASE BeginCycle \/ BeginFloorCheck
    BY <1>12 DEF TypeOK, BeginCycle, BeginFloorCheck, StartCycle
  <1>13. CASE FloorCheck
    BY <1>13 DEF TypeOK, FloorCheck, StartCycle
  <1>14. CASE FloorExit
    BY <1>14, GoneTyped DEF TypeOK, FloorExit
  <1>15. CASE CycleSucceeds
    <2>1. wake' \in 0 .. now' + LongestSleep
      BY <1>15, CapNat, BackOffCapped DEF TypeOK, CycleSucceeds, EndCycle
    <2>. QED BY <1>15, <2>1 DEF TypeOK, CycleSucceeds, EndCycle
  <1>16. CASE CycleFails
    <2>1. wake' \in 0 .. now' + LongestSleep
      <3>1. errors + 1 \in Nat /\ now \in Nat
        BY DEF TypeOK
      <3>2. wake' = now + BackOff(errors + 1) /\ now' = now
        BY <1>16 DEF CycleFails, EndCycle
      <3>. QED BY <3>1, <3>2, CapNat, BackOffCapped
    <2>. QED BY <1>16, <2>1 DEF TypeOK, CycleFails, EndCycle
  <1>17. CASE UNCHANGED vars
    BY <1>17 DEF TypeOK, vars
  <1>. QED
    BY <1>1, <1>2, <1>3, <1>4, <1>5, <1>6, <1>7, <1>8, <1>9, <1>10, <1>11, <1>12,
       <1>13, <1>14, <1>15, <1>16, <1>17
       DEF Next, Process, BootFails, LeaveOver, StopWaiting, Leave

\* Type correctness of the run loop: every state of the container is well
\* typed, and no back-off is longer than its cap (loop.py:255).
THEOREM LoopTyped == Spec => []TypeOK
  <1>1. Init => TypeOK
    BY TypeInit
  <1>2. TypeOK /\ [Next]_vars => TypeOK'
    BY TypeStep
  <1>. QED BY <1>1, <1>2, PTL DEF Spec

-----------------------------------------------------------------------------
(* Restarts for a cheaper market *)

\* A baseline or a report above the market's cost has a fall behind it that no
\* exit has used up.
SettleInv ==
    /\ floorExits <= drops
    /\ base > cost => floorExits < drops
    /\ report > cost => floorExits < drops

LEMMA SettleStep == TypeOK /\ SettleInv /\ [Next]_vars => SettleInv'
  <1>. SUFFICES ASSUME TypeOK, SettleInv, [Next]_vars PROVE SettleInv'
    OBVIOUS
  <1>. USE WindowAssumption DEF docker, locals, history
  <1>0. /\ cost \in Nat /\ cost > 0 /\ base \in Nat /\ report \in Nat
        /\ drops \in Nat /\ floorExits \in Nat
    BY DEF TypeOK
  <1>1. CASE MarketMoves
    <2>1. cost' \in Nat
      BY <1>1 DEF MarketMoves
    <2>. QED BY <1>0, <1>1, <2>1 DEF SettleInv, MarketMoves
  <1>2. CASE Measure
    BY <1>0, <1>2 DEF SettleInv, Measure
  <1>3. CASE FloorCheck
    BY <1>0, <1>3 DEF SettleInv, FloorCheck, StartCycle
  <1>4. CASE FloorExit
    <2>1. base > cost
      BY <1>0, <1>4 DEF FloorExit, MuchCheaper
    <2>. QED BY <1>0, <1>4, <2>1 DEF SettleInv, FloorExit, Gone
  <1>5. CASE Kill \/ Crash \/ Exit
    BY <1>0, <1>5 DEF SettleInv, Kill, Crash, Exit, Gone
  <1>6. CASE \/ Tick \/ DockerStart \/ DockerUp \/ DockerStop \/ WindowOver
             \/ WaitForWindow \/ BeginFloorCheck \/ Wake \/ UNCHANGED vars
    BY <1>6 DEF SettleInv, Tick, DockerStart, DockerUp, DockerStop, WindowOver,
                WaitForWindow, BeginFloorCheck, Wake, vars
  <1>7. CASE InWindow \/ WindowOpens \/ BeginCycle \/ CycleSucceeds \/ CycleFails
    BY <1>7 DEF SettleInv, InWindow, WindowOpens, EnterLoop, BeginCycle, StartCycle,
                CycleSucceeds, CycleFails, EndCycle
  <1>. QED
    BY <1>1, <1>2, <1>3, <1>4, <1>5, <1>6, <1>7
       DEF Next, Process, BootFails, LeaveOver, StopWaiting, Leave

\* The agent leaves for a restart at most as often as the market became cheaper
\* (loop.py:127-158, deploy/entrypoint.sh), whatever crashes and whatever
\* measurements fail.
THEOREM NoRestartLoop == Spec => []RestartsSettle
  <1>1. Init => SettleInv
    BY WindowAssumption DEF Init, SettleInv
  <1>2. TypeOK /\ SettleInv /\ [Next]_vars => SettleInv'
    BY SettleStep
  <1>3. SettleInv => RestartsSettle
    BY DEF SettleInv, RestartsSettle
  <1>. QED BY <1>1, <1>2, <1>3, LoopTyped, PTL DEF Spec

-----------------------------------------------------------------------------
(* The window and the stop flag *)

\* The loop is entered inside the window, and a measurement begins before the
\* deadline and ends within its time; the stop flag is down when it begins, so
\* that a stop that arrives in it has seen no cycle begin.
LoopInv ==
    /\ pc \in {"top", "floor", "cycle", "sleep"} => now >= StartAt /\ deadline <= StopAt
    /\ pc = "floor" => since < deadline /\ now <= since + MeasureLen
    /\ CycleNearWindow
    /\ extra \in {0, 1}
    /\ stop /\ pc = "floor" => extra = 0

LEMMA LoopStep == TypeOK /\ LoopInv /\ [Next]_vars => LoopInv'
  <1>. SUFFICES ASSUME TypeOK, LoopInv, [Next]_vars PROVE LoopInv'
    OBVIOUS
  <1>. USE WindowAssumption DEF docker, locals, history
  <1>0. /\ now \in Nat /\ since \in Nat /\ deadline \in Nat /\ stop \in BOOLEAN
        /\ StartAt \in Nat /\ StopAt \in Nat /\ MeasureLen \in Nat /\ MeasureLen > 0
    BY DEF TypeOK
  <1>1. CASE Tick
    BY <1>0, <1>1 DEF LoopInv, CycleNearWindow, Tick
  <1>2. CASE DockerStop
    BY <1>0, <1>2 DEF LoopInv, CycleNearWindow, DockerStop
  <1>3. CASE Kill \/ Crash \/ Exit \/ FloorExit
    BY <1>3 DEF LoopInv, CycleNearWindow, Kill, Crash, Exit, FloorExit, Gone
  <1>4. CASE MarketMoves \/ DockerStart \/ DockerUp \/ Measure \/ UNCHANGED vars
    BY <1>4 DEF LoopInv, CycleNearWindow, MarketMoves, DockerStart, DockerUp, Measure,
                vars
  <1>5. CASE WindowOver \/ WaitForWindow
    BY <1>5 DEF LoopInv, CycleNearWindow, WindowOver, WaitForWindow
  <1>6. CASE InWindow \/ WindowOpens
    <2>1. now >= StartAt /\ deadline' <= StopAt /\ pc' = "top" /\ now' = now
          /\ extra' = extra
      BY <1>0, <1>6 DEF InWindow, WindowOpens, EnterLoop
    <2>. QED BY <2>1 DEF LoopInv, CycleNearWindow
  <1>7. CASE BeginCycle
    BY <1>0, <1>7 DEF LoopInv, CycleNearWindow, BeginCycle, Continues, StartCycle
  <1>8. CASE BeginFloorCheck
    BY <1>0, <1>8 DEF LoopInv, CycleNearWindow, BeginFloorCheck, Continues
  <1>9. CASE FloorCheck
    BY <1>0, <1>9 DEF LoopInv, CycleNearWindow, FloorCheck, StartCycle
  <1>10. CASE CycleSucceeds \/ CycleFails \/ Wake
    BY <1>10 DEF LoopInv, CycleNearWindow, CycleSucceeds, CycleFails, EndCycle, Wake
  <1>. QED
    BY <1>1, <1>2, <1>3, <1>4, <1>5, <1>6, <1>7, <1>8, <1>9, <1>10
       DEF Next, Process, BootFails, LeaveOver, StopWaiting, Leave

LEMMA LoopSound == Spec => []LoopInv
  <1>1. Init => LoopInv
    BY DEF Init, LoopInv, CycleNearWindow
  <1>2. TypeOK /\ LoopInv /\ [Next]_vars => LoopInv'
    BY LoopStep
  <1>. QED BY <1>1, <1>2, LoopTyped, PTL DEF Spec

\* Every cycle begins in the UTC window, or after its end by less than one
\* friction measurement (loop.py:184-241), over every crash and restart.
THEOREM WindowKept == Spec => []CycleNearWindow
  <1>1. LoopInv => CycleNearWindow
    BY DEF LoopInv
  <1>. QED BY <1>1, LoopSound, PTL

\* After a stop the agent has heard, at most one more cycle begins
\* (loop.py:99-104, 230-241).
THEOREM StopHeeded == Spec => []StopIsHeeded
  <1>1. LoopInv => StopIsHeeded
    BY DEF LoopInv, StopIsHeeded
  <1>. QED BY <1>1, LoopSound, PTL

-----------------------------------------------------------------------------
(* Sums of costs *)

\* Of the subsets of a finite set in T one leaves T whichever element it loses:
\* what stands in for induction over finite sets, as a least counterexample.
LEMMA LeastSet ==
    ASSUME NEW D, IsFiniteSet(D), NEW T \in SUBSET SUBSET D, T # {}
    PROVE  \E s \in T : \A x \in s : s \ {x} \notin T
  <1>1. T \subseteq FiniteSubsetsOf(D)
    BY FS_Subset DEF FiniteSubsetsOf
  <1>2. PICK s \in T : \A u \in T : <<u, s>> \notin StrictSubsetOrdering(D)
    BY <1>1, FS_StrictSubsetOrderingWellFounded, WFMin
  <1>3. \A x \in s : <<s \ {x}, s>> \in StrictSubsetOrdering(D)
    BY DEF StrictSubsetOrdering
  <1>. QED BY <1>2, <1>3

\* What MapThenSumSet adds up, as the table of its sums over every set of tokens.
First(s) == CHOOSE x \in s : TRUE
Sum(c, g, s) == IF s = {} THEN 0 ELSE c[First(s)] + g[s \ {First(s)}]
Sums(c) == CHOOSE g : g = [s \in SUBSET DOMAIN c |-> Sum(c, g, s)]

LEMMA FirstIn == \A s : s # {} => First(s) \in s
  BY DEF First

LEMMA MeanBySums ==
    ASSUME NEW c
    PROVE  Mean(c) = [sum |-> Sums(c)[DOMAIN c], n |-> Cardinality(DOMAIN c)]
  <1>1. MapThenSumSet(LAMBDA t : c[t], DOMAIN c) = Sums(c)[DOMAIN c]
    BY DEF MapThenSumSet, MapThenFoldSet, Sums, Sum, First
  <1>. QED BY <1>1 DEF Mean

LEMMA SumsExist ==
    ASSUME NEW c, IsFiniteSet(DOMAIN c)
    PROVE  Sums(c) = [s \in SUBSET DOMAIN c |-> Sum(c, Sums(c), s)]
  <1>. DEFINE D == DOMAIN c
              Upto(u) == {s \in SUBSET D : Cardinality(s) <= Cardinality(u)}
              T == {u \in SUBSET D : ~\E g : g = [s \in Upto(u) |-> Sum(c, g, s)]}
  <1>1. \A s \in SUBSET D : IsFiniteSet(s) /\ Cardinality(s) \in Nat
    BY FS_Subset, FS_CardinalityType
  <1>2. ASSUME NEW s \in SUBSET D, NEW x \in s
        PROVE  s \ {x} \in SUBSET D /\ Cardinality(s) = Cardinality(s \ {x}) + 1
    <2>1. Cardinality(s \ {x}) = Cardinality(s) - 1
      BY <1>1, FS_RemoveElement
    <2>. QED BY <1>1, <2>1
  <1>3. ASSUME NEW u \in T, \A x \in u : u \ {x} \notin T PROVE FALSE
    <2>1. CASE u = {}
      <3>1. Upto(u) = {{}}
        BY <1>1, <2>1, FS_EmptySet
      <3>. DEFINE g == [s \in Upto(u) |-> 0]
      <3>2. g = [s \in Upto(u) |-> Sum(c, g, s)]
        BY <3>1 DEF Sum
      <3>. QED BY <3>2
    <2>2. CASE u # {}
      <3>. DEFINE v == u \ {First(u)}
      <3>1. v \in SUBSET D /\ Cardinality(u) = Cardinality(v) + 1 /\ v \notin T
        BY <1>2, <1>3, <2>2, FirstIn
      <3>. HIDE DEF v
      <3>2. PICK g : g = [s \in Upto(v) |-> Sum(c, g, s)]
        BY <3>1
      <3>. DEFINE h == [s \in Upto(u) |-> Sum(c, g, s)]
      <3>3. ASSUME NEW s \in Upto(u) PROVE h[s] = Sum(c, h, s)
        <4>. SUFFICES ASSUME s # {} PROVE h[s] = Sum(c, h, s)
          BY DEF Sum
        <4>. DEFINE w == s \ {First(s)}
        <4>1. w \in SUBSET D /\ Cardinality(s) = Cardinality(w) + 1
          BY <1>2, FirstIn
        <4>2. w \in Upto(v) /\ w \in Upto(u)
          BY <1>1, <3>1, <4>1
        <4>. HIDE DEF w
        <4>3. h[w] = g[w]
          <5>1. h[w] = Sum(c, g, w)
            BY <4>2
          <5>2. g[w] = Sum(c, g, w)
            BY <3>2, <4>2
          <5>. QED BY <5>1, <5>2
        <4>4. h[s] = Sum(c, g, s)
          OBVIOUS
        <4>. QED BY <4>3, <4>4 DEF Sum, w
      <3>4. h = [s \in Upto(u) |-> Sum(c, h, s)]
        BY <3>3
      <3>. HIDE DEF h
      <3>. QED BY <1>3, <3>4
    <2>. QED BY <2>1, <2>2
  <1>4. D \notin T
    <2>1. T \in SUBSET SUBSET D
      OBVIOUS
    <2>. HIDE DEF T
    <2>. QED BY <1>3, <2>1, LeastSet
  <1>5. Upto(D) = SUBSET D
    BY <1>1, FS_Subset
  <1>6. \E g : g = [s \in SUBSET D |-> Sum(c, g, s)]
    BY <1>4, <1>5
  <1>. QED BY <1>6 DEF Sums

\* A sum over the same tokens grows with every cost.
LEMMA SumsGrow ==
    ASSUME NEW D, IsFiniteSet(D), NEW c \in [D -> Nat], NEW r \in [D -> Nat],
           \A t \in D : c[t] <= r[t], NEW s \in SUBSET D
    PROVE  Sums(c)[s] \in Nat /\ Sums(r)[s] \in Nat /\ Sums(c)[s] <= Sums(r)[s]
  <1>. DEFINE Fine(u) == Sums(c)[u] \in Nat /\ Sums(r)[u] \in Nat /\ Sums(c)[u] <= Sums(r)[u]
              T == {u \in SUBSET D : ~Fine(u)}
  <1>1. \A u \in SUBSET D : Sums(c)[u] = Sum(c, Sums(c), u) /\ Sums(r)[u] = Sum(r, Sums(r), u)
    <2>1. DOMAIN c = D /\ DOMAIN r = D
      OBVIOUS
    <2>2. Sums(c) = [u \in SUBSET D |-> Sum(c, Sums(c), u)]
      BY <2>1, SumsExist
    <2>3. Sums(r) = [u \in SUBSET D |-> Sum(r, Sums(r), u)]
      BY <2>1, SumsExist
    <2>. QED BY <2>2, <2>3
  <1>2. ASSUME NEW u \in T, \A x \in u : u \ {x} \notin T PROVE FALSE
    <2>1. CASE u = {}
      BY <1>1, <2>1 DEF Sum
    <2>2. CASE u # {}
      <3>. DEFINE x == First(u)
      <3>1. x \in u /\ x \in D /\ u \ {x} \in SUBSET D /\ Fine(u \ {x})
        BY <1>2, <2>2, FirstIn
      <3>2. Sums(c)[u] = c[x] + Sums(c)[u \ {x}] /\ Sums(r)[u] = r[x] + Sums(r)[u \ {x}]
        BY <1>1, <2>2 DEF Sum
      <3>3. c[x] \in Nat /\ r[x] \in Nat /\ c[x] <= r[x]
        BY <3>1
      <3>. HIDE DEF x
      <3>4. Fine(u)
        BY <3>1, <3>2, <3>3
      <3>. QED BY <3>4
    <2>. QED BY <2>1, <2>2
  <1>3. T = {}
    <2>1. T \in SUBSET SUBSET D
      OBVIOUS
    <2>. HIDE DEF T
    <2>. QED BY <1>2, <2>1, LeastSet
  <1>. QED BY <1>3

\* A mean of the same tokens, none of them cheaper, is not much cheaper.
LEMMA NotMuchCheaper ==
    ASSUME NEW D, IsFiniteSet(D), NEW c \in [D -> Nat], NEW r \in [D -> Nat],
           \A t \in D : c[t] <= r[t]
    PROVE  ~FarCheaper(Mean(r), Mean(c))
  <1>. DEFINE a == Sums(c)[D]
              b == Sums(r)[D]
              n == Cardinality(D)
  <1>1. Mean(c) = [sum |-> a, n |-> n] /\ Mean(r) = [sum |-> b, n |-> n]
    <2>1. DOMAIN c = D /\ DOMAIN r = D
      OBVIOUS
    <2>. QED BY <2>1, MeanBySums
  <1>2. a \in Nat /\ b \in Nat /\ a <= b
    BY SumsGrow
  <1>3. n \in Nat
    BY FS_CardinalityType
  <1>. HIDE DEF a, b, n
  <1>4. b * n * 10 < a * n * 7 => FALSE
    <2>1. PICK d \in Nat : b = a + d
      <3>1. b - a \in Nat /\ b = a + (b - a)
        BY <1>2
      <3>. QED BY <3>1
    <2>2. b * n = a * n + d * n /\ a * n \in Nat /\ d * n \in Nat
      BY <1>2, <1>3, <2>1
    <2>. QED BY <2>2
  <1>. QED BY <1>1, <1>4 DEF FarCheaper

-----------------------------------------------------------------------------
(* One restart for each waiver or fault *)

\* What a measurement may have found, or a report list.
Partial == UNION {[S -> Nat] : S \in SUBSET Tokens}
Ahead == {todo[i] : i \in 1 .. Len(todo)}

MeasureType ==
    /\ waiver \in BOOLEAN
    /\ todo \in Seq(Tokens) /\ found \in Partial /\ reported \in Partial
    /\ waivers \in Nat /\ faults \in Nat /\ exits \in Nat
    /\ stage \in {"quotes", "report", "survivors", "list", "done"}
    /\ stage # "done" => place \in {"entry", "refresh"}

\* No cost in f is above the market's; c is nowhere above f.
Current(f) == \A t \in DOMAIN f : f[t] <= CostsNow[t]
NotBelow(c, f) == \A t \in DOMAIN f : c[t] <= f[t]

\* No token is lost between the quotes and the report.
NoneLost ==
    /\ stage = "quotes" => DOMAIN found \cup Ahead = Tokens
    /\ stage \in {"report", "survivors", "list"} => DOMAIN found = Tokens
    /\ stage \in {"survivors", "list"} => reported = found /\ torn = FALSE

\* The report lists every token.
Complete == torn = FALSE /\ DOMAIN reported = Tokens

\* c is what the baseline is the mean of: costs the market has not fallen below,
\* so that no quote of a refresh is below them either.
Based(c) ==
    /\ baseline = Mean(c) /\ Current(c)
    /\ place = "refresh" => NoneLost /\ NotBelow(c, found)
    /\ place = "refresh" /\ stage = "done" => Complete /\ NotBelow(c, reported)

\* As long as every waiver and every fault has been used up by an exit, no
\* measurement loses a token and none is dearer than the market.
Clean ==
    /\ place = "entry" => NoneLost /\ Current(found)
    /\ place = "boot" \/ (place = "entry" /\ stage = "done") => Complete /\ Current(reported)
    /\ place \in {"loop", "refresh"} => \E c \in [Tokens -> Nat] : Based(c)

ExitInv ==
    /\ MeasureType
    /\ exits <= waivers + faults
    /\ exits = waivers + faults => Clean

LEMMA CostsNat ==
    ASSUME waiver \in BOOLEAN
    PROVE  CostsNow \in [Tokens -> Nat]
  BY FrictionAssumption DEF CostsNow

LEMMA TokensFinite == IsFiniteSet(Tokens)
  <1>. DEFINE n == Len(Candidates)
  <1>1. Tokens = {Candidates[i] : i \in 1 .. n}
    BY DEF Tokens
  <1>2. Candidates \in [1 .. n -> Tokens] /\ n \in Int
    BY FrictionAssumption
  <1>. HIDE DEF n
  <1>3. IsFiniteSet(1 .. n)
    <2>1. 1 \in Int
      OBVIOUS
    <2>. QED BY <1>2, <2>1, FS_Interval
  <1>4. Candidates \in Surjection(1 .. n, Tokens)
    BY <1>1, <1>2 DEF Surjection
  <1>. QED BY <1>3, <1>4, FS_Surjection

LEMMA NothingIs == Nothing \in Partial /\ DOMAIN Nothing = {}
  <1>1. Nothing \in [{} -> Nat]
    BY DEF Nothing
  <1>2. {} \in SUBSET Tokens
    OBVIOUS
  <1>. QED BY <1>1, <1>2 DEF Partial

LEMMA PartialIs ==
    ASSUME NEW f \in Partial
    PROVE  DOMAIN f \subseteq Tokens /\ f \in [DOMAIN f -> Nat]
  BY DEF Partial

LEMMA FrictionTyped ==
    /\ FrictionInit => MeasureType
    /\ MeasureType /\ [FrictionNext]_frictionVars => MeasureType'
  <1>1. FrictionInit => MeasureType
    <2>. SUFFICES ASSUME FrictionInit PROVE MeasureType
      OBVIOUS
    <2>1. Standard \in Partial
      BY FrictionAssumption DEF Partial
    <2>. QED BY <2>1, NothingIs DEF FrictionInit, MeasureType
  <1>2. ASSUME MeasureType, [FrictionNext]_frictionVars PROVE MeasureType'
    <2>. USE DEF files, measurement, agent, counts
    <2>0. Candidates \in Seq(Tokens)
      BY FrictionAssumption
    <2>1. CASE FeeChanges
      BY <1>2, <2>1 DEF MeasureType, FeeChanges
    <2>2. CASE QuoteToken
      <3>1. Head(todo) \in Tokens /\ Tail(todo) \in Seq(Tokens)
        BY <1>2, <2>2 DEF MeasureType, QuoteToken
      <3>2. found' \in Partial
        <4>1. found \in Partial /\ CostsNow \in [Tokens -> Nat]
          BY <1>2, CostsNat DEF MeasureType
        <4>. DEFINE S == DOMAIN found \cup {Head(todo)}
        <4>2. S \in SUBSET Tokens
          BY <3>1, <4>1, PartialIs
        <4>3. \A t \in S : (IF t \in DOMAIN found THEN found[t] ELSE CostsNow[t]) \in Nat
          BY <4>1, <4>2, PartialIs
        <4>4. found' \in [S -> Nat]
          BY <2>2, <4>3 DEF QuoteToken
        <4>. QED BY <4>2, <4>4 DEF Partial
      <3>. QED BY <1>2, <2>2, <3>1, <3>2 DEF MeasureType, QuoteToken
    <2>3. CASE QuoteFails
      BY <1>2, <2>3 DEF MeasureType, QuoteFails, Fault
    <2>4. CASE OpenReport \/ WriteReport \/ OpenList
      BY <1>2, <2>4, NothingIs DEF MeasureType, OpenReport, WriteReport, OpenList
    <2>5. CASE WriteList
      <3>1. found' \in Partial /\ todo' = <<>> /\ stage' = "done"
        BY <2>5, NothingIs DEF WriteList
      <3>. QED BY <1>2, <2>5, <3>1 DEF MeasureType, WriteList
    <2>6. CASE Start \/ BeginRefresh
      <3>1. /\ todo' = Candidates /\ found' = Nothing /\ stage' = "quotes"
            /\ place' \in {"entry", "refresh"}
            /\ UNCHANGED <<waiver, reported, waivers, faults, exits>>
        BY <2>6 DEF Start, BeginRefresh, Begin
      <3>. QED BY <1>2, <2>0, <3>1, NothingIs DEF MeasureType
    <2>7. CASE Measured \/ Boot \/ Reload
      BY <1>2, <2>7 DEF MeasureType, Measured, Boot, Reload
    <2>8. CASE RefreshExit \/ ContainerDies \/ EntryFails \/ RefreshFails
      <3>1. /\ todo' = <<>> /\ found' = Nothing /\ stage' = "done"
            /\ UNCHANGED <<waiver, reported, waivers>>
        BY <2>8 DEF RefreshExit, ContainerDies, EntryFails, RefreshFails, Down, Halt
      <3>2. /\ faults' \in {faults, faults + 1}
            /\ exits' \in {exits, exits + 1}
        BY <2>8 DEF RefreshExit, ContainerDies, EntryFails, RefreshFails, Fault
      <3>. QED BY <1>2, <3>1, <3>2, NothingIs DEF MeasureType
    <2>9. CASE (\E t \in Tokens : EnterToken(t) \/ LeaveToken(t)) \/ UNCHANGED frictionVars
      BY <1>2, <2>9 DEF MeasureType, EnterToken, LeaveToken, frictionVars
    <2>. QED BY <1>2, <2>1, <2>2, <2>3, <2>4, <2>5, <2>6, <2>7, <2>8, <2>9
             DEF FrictionNext, FrictionProcess
  <1>. QED BY <1>1, <1>2

\* The container runs: whatever it does keeps what a clean run rests on.
Runs ==
    \/ QuoteToken \/ OpenReport \/ WriteReport \/ OpenList \/ WriteList
    \/ Start \/ Measured \/ Boot \/ BeginRefresh \/ Reload
    \/ (\E t \in Tokens : EnterToken(t) \/ LeaveToken(t)) \/ UNCHANGED frictionVars

LEMMA CleanStep ==
    ASSUME MeasureType, Clean, Runs, waiver' = waiver
    PROVE  Clean'
  <1>. USE DEF files, measurement, agent, counts
  <1>0. CostsNow' = CostsNow
    BY DEF CostsNow
  <1>1. CASE QuoteToken
    <2>0. /\ stage = "quotes" /\ todo \in Seq(Tokens) /\ todo # <<>>
          /\ found' = [t \in DOMAIN found \cup {Head(todo)} |->
                          IF t \in DOMAIN found THEN found[t] ELSE CostsNow[t]]
          /\ todo' = Tail(todo)
          /\ UNCHANGED <<stage, place, reported, torn, baseline>>
      BY <1>1 DEF QuoteToken, MeasureType
    <2>1. Head(todo) \in Tokens
      BY <2>0
    <2>2. DOMAIN found' = DOMAIN found \cup {Head(todo)}
      BY <2>0
    <2>3. Ahead \subseteq {Head(todo)} \cup Ahead' /\ Ahead' \subseteq Ahead
      <3>1. Len(todo) \in Nat /\ Len(Tail(todo)) = Len(todo) - 1 /\ Head(todo) = todo[1]
            /\ \A i \in 1 .. Len(todo) - 1 : Tail(todo)[i] = todo[i + 1]
        BY <2>0
      <3>2. \A i \in 1 .. Len(todo) : i = 1 \/ i - 1 \in 1 .. Len(todo) - 1
        BY <3>1
      <3>3. \A i \in 1 .. Len(todo) - 1 : i + 1 \in 1 .. Len(todo)
        BY <3>1
      <3>4. Ahead' = {Tail(todo)[i] : i \in 1 .. Len(todo) - 1}
        BY <2>0, <3>1 DEF Ahead
      <3>5. ASSUME NEW i \in 1 .. Len(todo) PROVE todo[i] \in {Head(todo)} \cup Ahead'
        <4>1. CASE i = 1
          BY <3>1, <4>1
        <4>2. CASE i # 1
          <5>1. i - 1 \in 1 .. Len(todo) - 1 /\ Tail(todo)[i - 1] = todo[i]
            BY <3>1, <3>2, <4>2
          <5>. QED BY <3>4, <5>1
        <4>. QED BY <4>1, <4>2
      <3>6. Ahead' \subseteq Ahead
        <4>1. ASSUME NEW i \in 1 .. Len(todo) - 1 PROVE Tail(todo)[i] \in Ahead
          <5>1. i + 1 \in 1 .. Len(todo) /\ Tail(todo)[i] = todo[i + 1]
            BY <3>1, <3>3
          <5>. QED BY <5>1 DEF Ahead
        <4>. QED BY <3>4, <4>1
      <3>. QED BY <3>5, <3>6 DEF Ahead
    <2>4. NoneLost => NoneLost'
      <3>1. 1 \in 1 .. Len(todo) /\ Head(todo) = todo[1]
        BY <2>0
      <3>2. Head(todo) \in Ahead
        BY <3>1 DEF Ahead
      <3>. QED BY <2>0, <2>2, <2>3, <3>2 DEF NoneLost
    <2>5. CostsNow \in [Tokens -> Nat]
      BY CostsNat DEF MeasureType
    <2>6. Current(found) => Current(found)'
      BY <1>0, <2>0, <2>1, <2>2, <2>5 DEF Current
    <2>7. ASSUME NEW c \in [Tokens -> Nat], Based(c) PROVE Based(c)'
      <3>1. Current(c)'
        BY <1>0, <2>7 DEF Based, Current
      <3>2. c[Head(todo)] <= CostsNow[Head(todo)]
        BY <2>1, <2>7 DEF Based, Current
      <3>3. NotBelow(c, found) => NotBelow(c, found)'
        BY <2>0, <2>2, <3>2 DEF NotBelow
      <3>. QED BY <2>0, <2>4, <2>7, <3>1, <3>3 DEF Based
    <2>8. place # "boot"
      BY <2>0 DEF MeasureType
    <2>. QED BY <2>0, <2>4, <2>6, <2>7, <2>8 DEF Clean
  <1>2. CASE OpenReport \/ WriteReport \/ OpenList
    <2>0. /\ stage # "done" /\ stage' # "done"
          /\ UNCHANGED <<todo, found, place, baseline>>
      BY <1>2 DEF OpenReport, WriteReport, OpenList
    <2>1. NoneLost => NoneLost'
      <3>1. CASE OpenReport
        <4>1. Ahead = {}
          <5>1. Len(todo) = 0
            BY <3>1 DEF OpenReport
          <5>. QED BY <5>1 DEF Ahead
        <4>. QED BY <3>1, <4>1 DEF NoneLost, OpenReport
      <3>2. CASE WriteReport \/ OpenList
        BY <3>2 DEF NoneLost, WriteReport, OpenList
      <3>. QED BY <1>2, <3>1, <3>2
    <2>2. Current(found) => Current(found)'
      BY <1>0, <2>0 DEF Current
    <2>3. ASSUME NEW c \in [Tokens -> Nat], Based(c) PROVE Based(c)'
      BY <1>0, <2>0, <2>1, <2>3 DEF Based, Current, NotBelow
    <2>4. place # "boot"
      BY <2>0 DEF MeasureType
    <2>. QED BY <2>0, <2>1, <2>2, <2>3, <2>4 DEF Clean
  <1>3. CASE WriteList
    <2>0. /\ stage = "list" /\ stage' = "done" /\ DOMAIN found' = {}
          /\ UNCHANGED <<place, baseline, reported, torn>>
      BY <1>3, NothingIs DEF WriteList
    <2>1. NoneLost => NoneLost' /\ reported = found /\ Complete'
      BY <2>0 DEF NoneLost, Complete
    <2>2. Current(found)' /\ (Current(found) /\ NoneLost => Current(reported)')
      BY <1>0, <2>0, <2>1 DEF Current
    <2>3. ASSUME NEW c \in [Tokens -> Nat], Based(c) PROVE Based(c)'
      BY <1>0, <2>0, <2>1, <2>3 DEF Based, Current, NotBelow
    <2>4. place # "boot"
      BY <2>0 DEF MeasureType
    <2>. QED BY <2>0, <2>1, <2>2, <2>3, <2>4 DEF Clean
  <1>4. CASE Start \/ BeginRefresh
    <2>0. /\ stage' = "quotes" /\ todo' = Candidates /\ DOMAIN found' = {}
          /\ UNCHANGED <<baseline>>
      BY <1>4, NothingIs DEF Start, BeginRefresh, Begin
    <2>1. NoneLost'
      BY <2>0 DEF NoneLost, Ahead, Tokens
    <2>2. Current(found)'
      BY <2>0 DEF Current
    <2>3. CASE Start
      BY <2>0, <2>1, <2>2, <2>3 DEF Clean, Start
    <2>4. CASE BeginRefresh
      <3>1. ASSUME NEW c \in [Tokens -> Nat], Based(c) PROVE Based(c)'
        BY <1>0, <2>0, <2>1, <3>1 DEF Based, Current, NotBelow
      <3>. QED BY <2>4, <3>1 DEF Clean, BeginRefresh
    <2>. QED BY <1>4, <2>3, <2>4
  <1>5. CASE Measured
    BY <1>0, <1>5 DEF Clean, Complete, Current, Measured
  <1>6. CASE Boot
    <2>1. reported \in [Tokens -> Nat] /\ torn = FALSE /\ Current(reported)
      BY <1>6, PartialIs DEF Clean, Complete, MeasureType, Boot
    <2>2. PICK c \in [Tokens -> Nat] : c = reported
      BY <2>1
    <2>3. baseline' = Mean(c) /\ place' = "loop"
      BY <1>6, <2>1, <2>2 DEF Boot
    <2>4. Current(c)'
      BY <1>0, <2>1, <2>2 DEF Current
    <2>. QED BY <2>3, <2>4 DEF Clean, Based
  <1>7. CASE Reload
    <2>0. place = "refresh" /\ place' = "loop" /\ UNCHANGED baseline
      BY <1>7 DEF Reload
    <2>1. ASSUME NEW c \in [Tokens -> Nat], Based(c) PROVE Based(c)'
      BY <1>0, <2>0, <2>1 DEF Based, Current
    <2>. QED BY <2>0, <2>1 DEF Clean
  <1>8. CASE (\E t \in Tokens : EnterToken(t) \/ LeaveToken(t)) \/ UNCHANGED frictionVars
    <2>0. UNCHANGED <<place, stage, todo, found, reported, torn, baseline>>
      BY <1>8 DEF EnterToken, LeaveToken, frictionVars
    <2>1. NoneLost => NoneLost'
      BY <2>0 DEF NoneLost, Ahead
    <2>2. ASSUME NEW c \in [Tokens -> Nat], Based(c) PROVE Based(c)'
      BY <1>0, <2>0, <2>1, <2>2 DEF Based, Current, NotBelow, Complete
    <2>. QED BY <1>0, <2>0, <2>1, <2>2 DEF Clean, Complete, Current
  <1>. QED BY <1>1, <1>2, <1>3, <1>4, <1>5, <1>6, <1>7, <1>8 DEF Runs

\* A waiver or a fault can be used up by one exit; without one there is no exit.
LEMMA ExitsStep ==
    ASSUME ExitInv, MeasureType', [FrictionNext]_frictionVars
    PROVE  exits' <= waivers' + faults' /\ (exits' = waivers' + faults' => Clean')
  <1>. USE DEF files, measurement, agent, counts
  <1>0. /\ MeasureType /\ waiver \in BOOLEAN
        /\ waivers \in Nat /\ faults \in Nat /\ exits \in Nat
        /\ exits <= waivers + faults
        /\ exits = waivers + faults => Clean
    BY DEF ExitInv, MeasureType
  <1>1. CASE QuoteFails \/ EntryFails \/ RefreshFails \/ ContainerDies
    <2>1. exits' = exits /\ waivers' = waivers /\ faults' = faults + 1
      BY <1>1 DEF QuoteFails, EntryFails, RefreshFails, ContainerDies, Fault
    <2>. QED BY <1>0, <2>1
  <1>2. CASE RefreshExit
    <2>1. ~Clean
      <3>. SUFFICES ASSUME NEW c \in [Tokens -> Nat], Based(c) PROVE FALSE
        BY <1>2 DEF Clean, RefreshExit
      <3>1. /\ baseline = Mean(c) /\ DOMAIN reported = Tokens
            /\ \A t \in Tokens : c[t] <= reported[t]
        BY <1>2 DEF Based, Complete, NotBelow, RefreshExit
      <3>2. reported \in [Tokens -> Nat]
        BY <1>0, <3>1, PartialIs DEF MeasureType
      <3>3. ~FarCheaper(Mean(reported), Mean(c))
        BY <3>1, <3>2, TokensFinite, NotMuchCheaper
      <3>. QED BY <1>2, <3>1, <3>3 DEF RefreshExit
    <2>2. exits' = exits + 1 /\ waivers' = waivers /\ faults' = faults /\ place' = "down"
      BY <1>2 DEF RefreshExit, Down
    <2>3. Clean'
      BY <2>2 DEF Clean
    <2>4. exits < waivers + faults
      BY <1>0, <2>1
    <2>. QED BY <1>0, <2>2, <2>3, <2>4
  <1>3. CASE FeeChanges
    <2>1. exits' = exits /\ faults' = faults /\ waiver' = ~waiver
          /\ UNCHANGED <<place, stage, todo, found, reported, torn, baseline>>
      BY <1>3 DEF FeeChanges
    <2>2. CASE ~waiver
      <3>1. waivers' = waivers + 1
        BY <1>3, <2>2 DEF FeeChanges
      <3>. QED BY <1>0, <2>1, <3>1
    <2>3. CASE waiver
      <3>1. waivers' = waivers
        BY <1>3, <2>3 DEF FeeChanges
      <3>2. \A t \in Tokens : /\ CostsNow[t] \in Nat /\ CostsNow'[t] \in Nat
                                /\ CostsNow[t] <= CostsNow'[t]
        BY <2>1, <2>3, FrictionAssumption DEF CostsNow
      <3>3. ASSUME NEW f \in Partial, Current(f) PROVE Current(f)'
        <4>1. \A t \in DOMAIN f : t \in Tokens /\ f[t] \in Nat
          BY PartialIs
        <4>. QED BY <3>2, <3>3, <4>1 DEF Current
      <3>4. ASSUME Clean PROVE Clean'
        <4>1. Current(found) => Current(found)'
          BY <1>0, <2>1, <3>3 DEF MeasureType, Current
        <4>2. Current(reported) => Current(reported)'
          BY <1>0, <2>1, <3>3 DEF MeasureType, Current
        <4>3. NoneLost => NoneLost'
          BY <2>1 DEF NoneLost, Ahead
        <4>4. ASSUME NEW c \in [Tokens -> Nat], Based(c) PROVE Based(c)'
          <5>1. c \in Partial
            BY DEF Partial
          <5>2. Current(c)'
            BY <3>3, <4>4, <5>1 DEF Based
          <5>. QED BY <2>1, <4>3, <4>4, <5>2 DEF Based, NotBelow, Complete
        <4>. QED BY <2>1, <3>4, <4>1, <4>2, <4>3, <4>4 DEF Clean, Complete
      <3>. QED BY <1>0, <2>1, <3>1, <3>4
    <2>. QED BY <1>0, <2>2, <2>3
  <1>4. CASE Runs
    <2>1. UNCHANGED <<waiver, waivers, faults, exits>>
      BY <1>4 DEF Runs, QuoteToken, OpenReport, WriteReport, OpenList, WriteList,
                  Start, Measured, Boot, BeginRefresh, Reload, EnterToken, LeaveToken, frictionVars
    <2>2. ASSUME Clean PROVE Clean'
      BY <1>0, <1>4, <2>1, <2>2, CleanStep
    <2>. QED BY <1>0, <2>1, <2>2
  <1>. QED BY <1>1, <1>2, <1>3, <1>4 DEF FrictionNext, FrictionProcess, Runs

\* The refresh sends the agent away for a restart at most once for every fee waived
\* and every fault (_maybe_refresh_floors, loop.py:127-158, scripts/liquidity_filter.py),
\* for every list of tokens, every cost with the fee and without, and every fault.
THEOREM RefreshExitsOnce == FrictionSpec => []ExitsAccounted
  <1>1. FrictionInit => ExitInv
    <2>. SUFFICES ASSUME FrictionInit PROVE ExitInv
      OBVIOUS
    <2>1. MeasureType
      BY FrictionTyped
    <2>. QED BY <2>1 DEF FrictionInit, ExitInv, Clean
  <1>2. ExitInv /\ [FrictionNext]_frictionVars => ExitInv'
    <2>. SUFFICES ASSUME ExitInv, [FrictionNext]_frictionVars PROVE ExitInv'
      OBVIOUS
    <2>1. MeasureType'
      BY FrictionTyped DEF ExitInv
    <2>. QED BY <2>1, ExitsStep DEF ExitInv
  <1>3. ExitInv => ExitsAccounted
    BY DEF ExitInv, ExitsAccounted
  <1>. QED BY <1>1, <1>2, <1>3, PTL DEF FrictionSpec
=============================================================================
