------------------------ MODULE TradingAgent_proofs -------------------------
(***************************************************************************)
(* Proofs about TradingAgent for every watchlist, clock, cap and cooldown. *)
(***************************************************************************)
EXTENDS TradingAgent, FiniteSetTheorems, TLAPS

-----------------------------------------------------------------------------
(* Type correctness *)

\* Every time of the clock has its day in the ledger.
LEMMA DayType == \A n \in Time : Day(n) \in Days
  BY DEF Days

\* Inside the loop over the watchlist, Tok is one of its tokens.
LEMMA TokType == \A i \in 1 .. Len(Watchlist) : Watchlist[i] \in Token
  BY WatchlistAssumption DEF Token

\* Where the program counter stands, the loop has a token at hand.
AtToken ==
    \/ pc \in {"sentinel", "signal", "book", "baseline", "unbook", "stamp", "unpool"}
    \/ pc \in {"swap", "ledger"} /\ job.kind # "compliance"

\* What the program counter says about the loop index and the pending swap.
Shape ==
    /\ AtToken => idx \in 1 .. Len(Watchlist)
    /\ pc \in {"swap", "ledger", "book", "baseline"} => job \in Swap
    /\ pc \in {"swap", "ledger"} /\ job.kind # "compliance" => job.tok = Tok
    /\ pc \in {"book", "baseline"} => job.kind = "entry"
    /\ pc \in {"unbook", "stamp", "unpool"} => job = NoJob \/ job.kind = "exit"
    /\ pc \in {"rest", "stopped", "reconcile", "flatten", "regime", "scan",
               "sentinel", "signal", "comply"} => job = NoJob
    /\ pc \in {"rest", "stopped", "reconcile", "regime", "comply"} => idx = 1

\* TypeOK by the owner of the variables.
WorldType ==
    /\ now \in Time /\ faults \in Nat
    /\ held \in [Token -> Nat] /\ flight \in Seq(Swap)
StoreType ==
    /\ entry \in [Token -> BOOLEAN] /\ pool \in [Token -> BOOLEAN]
    /\ lastExit \in [Token -> Time \cup {LongAgo}]
    /\ trades \in [Days -> Nat]
ProcessType ==
    /\ pc \in {"rest", "stopped", "reconcile", "flatten", "regime", "scan",
               "sentinel", "signal", "comply", "swap", "ledger", "book",
               "baseline", "unbook", "stamp", "unpool"}
    /\ idx \in 1 .. Len(Watchlist) + 1
    /\ seen \in [Token -> Nat] /\ risk \in RiskState /\ mayEnter \in BOOLEAN
    /\ startedAt \in Time \cup {-1} /\ signalAt \in Time
    /\ job \in Swap \cup {NoJob}
HistoryType ==
    /\ soldAt \in [Token -> Time \cup {LongAgo}]
    /\ swapped \in [Days -> Nat] /\ entered \in [Days -> Nat]
    /\ misread \subseteq Token

TypeInv == WorldType /\ StoreType /\ ProcessType /\ HistoryType /\ Shape

LEMMA TypeParts == TypeInv <=> TypeOK /\ Shape
  BY DEF TypeInv, TypeOK, WorldType, StoreType, ProcessType, HistoryType

\* NoJob is no swap: its kind is none of theirs.
LEMMA NoJobKind == /\ NoJob \notin Swap /\ NoJob.kind = "none"
                   /\ \A j \in Swap : /\ j.kind \in SwapKind /\ j.tok \in Token \cup {Stable}
                                      /\ j.amt \in Nat /\ j.at \in Time
  BY DEF NoJob, Swap, SwapKind

LEMMA InitType == Init => TypeInv
<1> SUFFICES ASSUME Init PROVE TypeInv
  OBVIOUS
<1>1. 0 \in Time /\ LongAgo \in Int
  BY ClockAssumption DEF Time, LongAgo
<1>2. Len(Watchlist) \in Nat
  BY WatchlistAssumption
<1>3. TypeOK
  <2>1. flight \in Seq(Swap)
    BY DEF Init
  <2>2. job \in Swap \cup {NoJob}
    BY DEF Init
  <2>3. idx \in 1 .. Len(Watchlist) + 1
    BY <1>2 DEF Init
  <2>4. mayEnter \in BOOLEAN /\ risk \in RiskState
    BY DEF Init, RiskState
  <2> QED
    BY <1>1, <2>1, <2>2, <2>3, <2>4 DEF Init, TypeOK, Nothing
<1>4. Shape
  BY DEF Init, Shape, AtToken
<1> QED
  BY <1>3, <1>4, TypeParts

\* Ending a cycle leaves the process well formed.
LEMMA EndCycleProcess ==
  ASSUME ProcessType, EndCycle
  PROVE  ProcessType' /\ Shape'
<1>1. Len(Watchlist) \in Nat
  BY WatchlistAssumption
<1>2. 0 \in Time
  BY ClockAssumption DEF Time
<1>3. seen' \in [Token -> Nat]
  BY DEF EndCycle, Nothing
<1>4. mayEnter' \in BOOLEAN
  BY DEF EndCycle
<1>5. ProcessType'
  BY <1>1, <1>2, <1>3, <1>4 DEF EndCycle, ProcessType
<1>6. Shape'
  BY DEF EndCycle, Shape, AtToken
<1> QED
  BY <1>5, <1>6

\* So does going on to the next token.
LEMMA NextTokenProcess ==
  ASSUME ProcessType, idx \in 1 .. Len(Watchlist), NextToken
  PROVE  ProcessType' /\ Shape'
<1>1. Len(Watchlist) \in Nat
  BY WatchlistAssumption
<1>2. idx' \in 1 .. Len(Watchlist) + 1
  BY <1>1 DEF NextToken
<1>3. ProcessType'
  BY <1>2 DEF NextToken, ProcessType, locals
<1>4. Shape'
  BY DEF NextToken, Shape, AtToken
<1> QED
  BY <1>3, <1>4

\* So does leaving execute() without a result.
LEMMA ReturnProcess ==
  ASSUME ProcessType, NEW kind \in SwapKind, Return(kind),
         kind # "compliance" => idx \in 1 .. Len(Watchlist)
  PROVE  ProcessType' /\ Shape'
<1>1. CASE kind \in {"entry", "exit"}
  BY <1>1, NextTokenProcess DEF Return
<1>2. CASE kind = "flatten"
  <2>1. Len(Watchlist) \in Nat
    BY WatchlistAssumption
  <2>2. idx' \in 1 .. Len(Watchlist) + 1 /\ pc' = "flatten" /\ job' = NoJob
    BY <1>2, <2>1 DEF Return
  <2>3. UNCHANGED locals
    BY <1>2 DEF Return
  <2>4. ProcessType'
    BY <2>2, <2>3 DEF ProcessType, locals
  <2>5. Shape'
    BY <2>2 DEF Shape, AtToken
  <2> QED
    BY <2>4, <2>5
<1>3. CASE kind = "compliance"
  BY <1>3, EndCycleProcess DEF Return
<1> QED
  BY <1>1, <1>2, <1>3 DEF SwapKind

\* So does execute(), approved or not.
LEMMA ExecuteProcess ==
  ASSUME ProcessType, now \in Time,
         NEW kind \in SwapKind, NEW t \in Token \cup {Stable}, NEW p,
         Execute(kind, t, p),
         kind # "compliance" => idx \in 1 .. Len(Watchlist) /\ t = Tok
  PROVE  ProcessType' /\ Shape'
<1> DEFINE amt == IF kind = "entry" THEN 1 ELSE IF t \in Token THEN seen[t] ELSE 0
           new == [kind |-> kind, tok |-> t, amt |-> amt, at |-> now]
<1>1. CASE pc' = "swap" /\ job' = new /\ UNCHANGED <<idx, locals>>
  <2>1. amt \in Nat
    BY DEF ProcessType
  <2>2. new \in Swap
    BY <2>1 DEF Swap
  <2>3. job' \in Swap /\ job'.kind = kind /\ job'.tok = t
    BY <1>1, <2>2
  <2> HIDE DEF amt, new
  <2>4. ProcessType'
    BY <1>1, <2>3 DEF ProcessType, locals
  <2>5. Tok' = Tok
    BY <1>1 DEF Tok
  <2>6. Shape'
    BY <1>1, <2>3, <2>5 DEF Shape, AtToken
  <2> QED
    BY <2>4, <2>6
<1>2. CASE Return(kind)
  BY <1>2, ReturnProcess
<1> QED
  BY <1>1, <1>2 DEF Execute

\* A mined swap keeps the wallet and the history well formed.
LEMMA LandsType ==
  ASSUME WorldType, HistoryType, NEW j \in Swap, Lands(j)
  PROVE  held' \in [Token -> Nat] /\ HistoryType'
<1>1. j.at \in Time /\ j.amt \in Nat /\ j.kind \in SwapKind
  BY NoJobKind
<1>2. Day(j.at) \in Days
  BY <1>1, DayType
<1>3. held' \in [Token -> Nat]
  <2> SUFFICES ASSUME NEW t \in Token
               PROVE  (IF Buys(j, t) THEN held[t] + j.amt
                       ELSE IF Sells(j, t) THEN held[t] - j.amt ELSE held[t]) \in Nat
    BY DEF Lands
  <2> QED
    BY <1>1 DEF Lands, Feasible, WorldType, Buys, Sells
<1> QED
  BY <1>2, <1>3 DEF Lands, HistoryType, WorldType

-----------------------------------------------------------------------------
(* Every step keeps TypeInv *)

LEMMA ChainType == ASSUME TypeInv, Chain PROVE TypeInv'
<1>1. CASE FlightLands
  <2>1. Head(flight) \in Swap /\ Tail(flight) \in Seq(Swap)
    BY <1>1 DEF FlightLands, TypeInv, WorldType
  <2>2. held' \in [Token -> Nat] /\ HistoryType'
    BY <1>1, <2>1, LandsType DEF FlightLands, TypeInv
  <2> QED
    BY <1>1, <2>1, <2>2 DEF FlightLands, TypeInv, WorldType, StoreType, ProcessType,
       Shape, AtToken, Tok, clockVars, store, locals
<1>2. CASE FlightDrops
  <2>1. Tail(flight) \in Seq(Swap)
    BY <1>2 DEF FlightDrops, TypeInv, WorldType
  <2> QED
    BY <1>2, <2>1 DEF FlightDrops, TypeInv, WorldType, StoreType, ProcessType,
       HistoryType, Shape, AtToken, Tok, clockVars, store, locals, history
<1> QED
  BY <1>1, <1>2 DEF Chain

LEMMA RunType == ASSUME TypeInv, Tick \/ Stop \/ Start \/ Crash PROVE TypeInv'
<1>1. CASE Tick
  <2>1. now' \in Time
    BY <1>1, ClockAssumption DEF Tick, Time, TypeInv, WorldType
  <2> QED
    BY <1>1, <2>1 DEF Tick, TypeInv, WorldType, StoreType, ProcessType, HistoryType,
       Shape, AtToken, Tok, wallet, store, locals, history
<1>2. CASE Stop
  BY <1>2 DEF Stop, TypeInv, WorldType, StoreType, ProcessType, HistoryType,
     Shape, AtToken, Tok, clockVars, wallet, store, locals, history
<1>3. CASE Start
  BY <1>3 DEF Start, TypeInv, WorldType, StoreType, ProcessType, HistoryType,
     Shape, AtToken, Tok, clockVars, wallet, store, locals, history
<1>4. CASE Crash
  <2>1. ProcessType' /\ Shape'
    BY <1>4, EndCycleProcess DEF Crash, TypeInv
  <2>2. flight' \in Seq(Swap)
    BY <1>4 DEF Crash, TypeInv, WorldType, Shape
  <2>3. WorldType'
    BY <1>4, <2>2 DEF Crash, TypeInv, WorldType
  <2>4. StoreType' /\ HistoryType'
    BY <1>4 DEF Crash, TypeInv, StoreType, HistoryType, store, history
  <2> QED
    BY <2>1, <2>3, <2>4 DEF TypeInv
<1> QED
  BY <1>1, <1>2, <1>3, <1>4

\* A step that leaves the clock, the wallet, the store and the history alone
\* only has to keep the process in shape.
LEMMA ProcessStep ==
  ASSUME TypeInv, ProcessType', Shape', UNCHANGED <<clockVars, wallet, store, history>>
  PROVE  TypeInv'
  BY DEF TypeInv, WorldType, StoreType, HistoryType, clockVars, wallet, store, history

LEMMA FlattenType == ASSUME TypeInv, Flatten PROVE TypeInv'
<1> USE DEF TypeInv
<1>1. CASE FlattenSkip
  <2>1. idx \in 1 .. Len(Watchlist)
    BY <1>1 DEF FlattenSkip, ProcessType
  <2>2. ProcessType' /\ Shape'
    BY <1>1, <2>1, ReturnProcess DEF FlattenSkip, SwapKind
  <2> QED
    BY <1>1, <2>2, ProcessStep DEF FlattenSkip
<1>2. CASE FlattenSell
  <2>1. idx \in 1 .. Len(Watchlist) /\ Tok \in Token
    BY <1>2, TokType DEF FlattenSell, ProcessType, Tok
  <2>2. ProcessType' /\ Shape'
    BY <1>2, <2>1, ExecuteProcess DEF FlattenSell, SwapKind, WorldType
  <2> QED
    BY <1>2, <2>2, ProcessStep DEF FlattenSell
<1>3. CASE FlattenDone
  BY <1>3, EndCycleProcess, ProcessStep DEF FlattenDone
<1> QED
  BY <1>1, <1>2, <1>3 DEF Flatten

LEMMA SignalType == ASSUME TypeInv, Signal PROVE TypeInv'
<1> USE DEF TypeInv
<1>1. pc = "signal" => idx \in 1 .. Len(Watchlist) /\ Tok \in Token
  BY TokType DEF Shape, AtToken, Tok
<1>2. CASE NoTrade
  BY <1>1, <1>2, NextTokenProcess, ProcessStep DEF NoTrade
<1>3. CASE Enter
  <2>1. PICK e : Execute("entry", Tok, Buy(Tok, e))
    BY <1>3 DEF Enter
  <2>2. ProcessType' /\ Shape'
    BY <1>1, <1>3, <2>1, ExecuteProcess DEF Enter, SwapKind, WorldType
  <2> QED
    BY <1>3, <2>2, ProcessStep DEF Enter
<1>4. CASE SignalExit
  <2>1. ProcessType' /\ Shape'
    BY <1>1, <1>4, ExecuteProcess DEF SignalExit, SwapKind, WorldType
  <2> QED
    BY <1>4, <2>1, ProcessStep DEF SignalExit
<1>5. CASE ScanDone
  <2>1. Len(Watchlist) \in Nat
    BY WatchlistAssumption
  <2>2. ProcessType' /\ Shape'
    BY <1>5, <2>1 DEF ScanDone, ProcessType, Shape, AtToken, locals
  <2> QED
    BY <1>5, <2>2, ProcessStep DEF ScanDone
<1> QED
  BY <1>2, <1>3, <1>4, <1>5 DEF Signal

LEMMA HeadType ==
  ASSUME TypeInv, BeginCycle \/ Reconcile \/ Regime \/ DataGate \/ Abort
  PROVE  TypeInv'
<1> USE DEF TypeInv
<1>1. CASE BeginCycle
  <2>1. ProcessType' /\ Shape'
    BY <1>1 DEF BeginCycle, ProcessType, Shape, AtToken, WorldType
  <2> QED
    BY <1>1, <2>1, ProcessStep DEF BeginCycle
<1>2. CASE Reconcile
  <2>1. seen' \in [Token -> Nat]
    <3>1. CASE "misread" \in Faults
      <4>1. seen' \in [Token -> {0, 1} \cup {held[t] : t \in Token}]
        BY <1>2, <3>1 DEF Reconcile, Readings
      <4>2. {0, 1} \cup {held[t] : t \in Token} \subseteq Nat
        BY DEF WorldType
      <4> QED
        BY <4>1, <4>2
    <3>2. CASE "misread" \notin Faults
      BY <1>2, <3>2 DEF Reconcile, Readings, WorldType
    <3> QED
      BY <3>1, <3>2
  <2>2. risk' \in RiskState
    BY <1>2, EnvironmentAssumption DEF Reconcile
  <2>3. ProcessType'
    BY <1>2, <2>1, <2>2 DEF Reconcile, ProcessType, WorldType
  <2>4. Shape'
    BY <1>2 DEF Reconcile, Shape, AtToken
  <2>5. WorldType' /\ StoreType' /\ HistoryType'
    BY <1>2 DEF Reconcile, WorldType, StoreType, HistoryType, clockVars, wallet, store
  <2> QED
    BY <2>3, <2>4, <2>5
<1>3. CASE Regime
  <2>1. ProcessType' /\ Shape'
    BY <1>3 DEF Regime, ProcessType, Shape, AtToken
  <2> QED
    BY <1>3, <2>1, ProcessStep DEF Regime
<1>4. CASE DataGate
  BY <1>4, EndCycleProcess, ProcessStep DEF DataGate
<1>5. CASE Abort
  BY <1>5, EndCycleProcess, ProcessStep DEF Abort
<1> QED
  BY <1>1, <1>2, <1>3, <1>4, <1>5

\* A step that changes the store and goes on inside the same token.
LEMMA StoreStep ==
  ASSUME TypeInv, StoreType', ProcessType', Shape',
         UNCHANGED <<clockVars, wallet, history>>
  PROVE  TypeInv'
  BY DEF TypeInv, WorldType, HistoryType, clockVars, wallet, history

LEMMA ManageType == ASSUME TypeInv, Manage PROVE TypeInv'
<1> USE DEF TypeInv
<1>1. Scanning => idx \in 1 .. Len(Watchlist) /\ Tok \in Token
  BY TokType DEF Scanning, ProcessType, Tok
<1>2. pc = "sentinel" => idx \in 1 .. Len(Watchlist) /\ Tok \in Token
  BY TokType DEF Shape, AtToken, Tok
<1>3. CASE AdoptEntry
  <2>1. StoreType'
    BY <1>3 DEF AdoptEntry, StoreType
  <2>2. ProcessType' /\ Shape'
    BY <1>1, <1>3 DEF AdoptEntry, ProcessType, Shape, AtToken, Scanning, locals
  <2> QED
    BY <1>3, <2>1, <2>2, StoreStep DEF AdoptEntry
<1>4. CASE StopLoss
  <2>1. ProcessType' /\ Shape'
    BY <1>1, <1>4, ExecuteProcess DEF StopLoss, SwapKind, WorldType
  <2> QED
    BY <1>4, <2>1, ProcessStep DEF StopLoss
<1>5. CASE AboveStop
  <2>1. ProcessType' /\ Shape'
    BY <1>1, <1>5 DEF AboveStop, ProcessType, Shape, AtToken, Scanning, locals
  <2> QED
    BY <1>5, <2>1, ProcessStep DEF AboveStop
<1>6. CASE Sweep
  <2>1. ProcessType' /\ Shape'
    BY <1>1, <1>6 DEF Sweep, ProcessType, Shape, AtToken, Scanning, locals
  <2> QED
    BY <1>6, <2>1, ProcessStep DEF Sweep
<1>7. CASE NotHeld
  <2>1. ProcessType' /\ Shape'
    BY <1>1, <1>7 DEF NotHeld, ProcessType, Shape, AtToken, Scanning, locals
  <2> QED
    BY <1>7, <2>1, ProcessStep DEF NotHeld
<1>8. CASE SkipToken
  BY <1>1, <1>8, NextTokenProcess, ProcessStep DEF SkipToken
<1>9. CASE AdoptPool
  <2>1. StoreType'
    BY <1>9 DEF AdoptPool, StoreType
  <2>2. ProcessType' /\ Shape'
    BY <1>2, <1>9 DEF AdoptPool, ProcessType, Shape, AtToken, locals
  <2> QED
    BY <1>9, <2>1, <2>2, StoreStep DEF AdoptPool
<1>10. CASE PoolHolds
  <2>1. ProcessType' /\ Shape'
    BY <1>2, <1>10 DEF PoolHolds, ProcessType, Shape, AtToken, locals
  <2> QED
    BY <1>10, <2>1, ProcessStep DEF PoolHolds
<1>11. CASE PoolDrained
  <2>1. ProcessType' /\ Shape'
    BY <1>2, <1>11, ExecuteProcess DEF PoolDrained, SwapKind, WorldType
  <2> QED
    BY <1>11, <2>1, ProcessStep DEF PoolDrained
<1> QED
  BY <1>3, <1>4, <1>5, <1>6, <1>7, <1>8, <1>9, <1>10, <1>11 DEF Manage

LEMMA ComplyType == ASSUME TypeInv, Comply PROVE TypeInv'
<1> USE DEF TypeInv
<1>1. CASE NotDue
  BY <1>1, EndCycleProcess, ProcessStep DEF NotDue
<1>2. CASE ForceTrade
  <2>1. PICK p : Execute("compliance", Stable, p)
    BY <1>2 DEF ForceTrade
  <2>2. ProcessType' /\ Shape'
    BY <2>1, ExecuteProcess DEF SwapKind, WorldType
  <2> QED
    BY <1>2, <2>2, ProcessStep DEF ForceTrade
<1> QED
  BY <1>1, <1>2 DEF Comply

LEMMA SwappingType == ASSUME TypeInv, Swapping PROVE TypeInv'
<1> USE DEF TypeInv
<1>1. pc = "swap" => /\ job \in Swap /\ job.kind \in SwapKind
                     /\ job.kind # "compliance" => idx \in 1 .. Len(Watchlist)
  BY NoJobKind DEF Shape, AtToken
<1>2. CASE SwapConfirms
  <2>1. held' \in [Token -> Nat] /\ HistoryType'
    BY <1>1, <1>2, LandsType DEF SwapConfirms
  <2>2. WorldType' /\ StoreType'
    BY <1>2, <2>1 DEF SwapConfirms, WorldType, StoreType, clockVars, store
  <2>3. ProcessType' /\ Shape'
    BY <1>1, <1>2 DEF SwapConfirms, ProcessType, Shape, AtToken, Tok, locals
  <2> QED
    BY <2>1, <2>2, <2>3
<1>3. CASE SwapFails
  <2>1. ProcessType' /\ Shape'
    BY <1>1, <1>3, ReturnProcess DEF SwapFails
  <2> QED
    BY <1>3, <2>1, ProcessStep DEF SwapFails
<1>4. CASE SwapTimesOut
  <2>1. ProcessType' /\ Shape'
    BY <1>1, <1>4, ReturnProcess DEF SwapTimesOut
  <2>2. flight' \in Seq(Swap)
    BY <1>1, <1>4 DEF SwapTimesOut, WorldType
  <2>3. WorldType' /\ StoreType' /\ HistoryType'
    BY <1>4, <2>2 DEF SwapTimesOut, WorldType, StoreType, HistoryType, store, history
  <2> QED
    BY <2>1, <2>3
<1> QED
  BY <1>2, <1>3, <1>4 DEF Swapping

LEMMA BookType == ASSUME TypeInv, Book PROVE TypeInv'
<1> USE DEF TypeInv
<1>1. pc \in {"book", "baseline", "unbook", "stamp", "unpool"} =>
         idx \in 1 .. Len(Watchlist) /\ Tok \in Token
  BY TokType DEF Shape, AtToken, Tok
<1>2. CASE RecordTrade
  <2>1. job \in Swap /\ job.kind \in SwapKind /\ job.at \in Time
    BY <1>2, NoJobKind DEF RecordTrade, Shape
  <2>2. StoreType'
    BY <1>2, <2>1, DayType DEF RecordTrade, StoreType
  <2>3. ProcessType' /\ Shape'
    <3>1. CASE job.kind \in {"entry", "exit"} /\ UNCHANGED <<idx, locals, job>>
      BY <1>2, <2>1, <3>1 DEF RecordTrade, ProcessType, Shape, AtToken, locals
    <3>2. CASE job.kind \in {"flatten", "compliance"} /\ Return(job.kind)
      <4>1. job.kind # "compliance" => idx \in 1 .. Len(Watchlist)
        BY <1>2 DEF RecordTrade, Shape, AtToken
      <4> QED
        BY <2>1, <3>2, <4>1, ReturnProcess
    <3> QED
      BY <1>2, <3>1, <3>2 DEF RecordTrade
  <2> QED
    BY <1>2, <2>2, <2>3, StoreStep DEF RecordTrade
<1>3. CASE RecordEntry
  <2>1. StoreType'
    BY <1>3 DEF RecordEntry, StoreType
  <2>2. ProcessType' /\ Shape'
    BY <1>1, <1>3 DEF RecordEntry, ProcessType, Shape, AtToken, locals
  <2> QED
    BY <1>3, <2>1, <2>2, StoreStep DEF RecordEntry
<1>4. CASE RecordPool
  <2>1. StoreType'
    BY <1>4 DEF RecordPool, StoreType
  <2>2. ProcessType' /\ Shape'
    BY <1>1, <1>4, NextTokenProcess DEF RecordPool
  <2> QED
    BY <1>4, <2>1, <2>2, StoreStep DEF RecordPool
<1>5. CASE ClearEntry
  <2>1. StoreType'
    BY <1>5 DEF ClearEntry, StoreType
  <2>2. ProcessType' /\ Shape'
    BY <1>1, <1>5 DEF ClearEntry, ProcessType, Shape, AtToken, locals
  <2> QED
    BY <1>5, <2>1, <2>2, StoreStep DEF ClearEntry
<1>6. CASE StampExit
  <2>1. StoreType'
    BY <1>6 DEF StampExit, StoreType, WorldType
  <2>2. ProcessType' /\ Shape'
    BY <1>1, <1>6 DEF StampExit, ProcessType, Shape, AtToken, locals
  <2> QED
    BY <1>6, <2>1, <2>2, StoreStep DEF StampExit
<1>7. CASE ClearPool
  <2>1. StoreType'
    BY <1>7 DEF ClearPool, StoreType
  <2>2. CASE job = NoJob /\ pc' = "signal" /\ UNCHANGED <<idx, locals, job>>
    <3>1. ProcessType' /\ Shape'
      BY <1>1, <1>7, <2>2 DEF ClearPool, ProcessType, Shape, AtToken, locals
    <3> QED
      BY <1>7, <2>1, <3>1, StoreStep DEF ClearPool
  <2>3. CASE NextToken
    BY <1>1, <1>7, <2>1, <2>3, NextTokenProcess, StoreStep DEF ClearPool
  <2> QED
    BY <1>7, <2>2, <2>3 DEF ClearPool
<1> QED
  BY <1>2, <1>3, <1>4, <1>5, <1>6, <1>7 DEF Book

LEMMA StepType == ASSUME TypeInv, [Next]_vars PROVE TypeInv'
<1>1. CASE UNCHANGED vars
  BY <1>1 DEF vars, TypeInv, WorldType, StoreType, ProcessType, HistoryType,
     Shape, AtToken, Tok, clockVars, wallet, store, locals, history
<1>2. CASE Next
  BY <1>2, HeadType, FlattenType, ManageType, SignalType, ComplyType,
     SwappingType, BookType, ChainType, RunType DEF Next, Agent
<1> QED
  BY <1>1, <1>2

\* Every variable of the trading cycle keeps its type, and the program counter
\* agrees with the loop index and the pending swap, in every behaviour.
THEOREM TypeCorrect == Spec => []TypeOK
<1>1. Spec => []TypeInv
  BY InitType, StepType, PTL DEF Spec
<1> QED
  BY <1>1, TypeParts, PTL

-----------------------------------------------------------------------------
(* The daily ledger against the chain *)

\* A swap is confirmed but not yet in the ledger.
Unrecorded(d) == IF pc = "ledger" /\ d = Day(job.at) THEN 1 ELSE 0

\* The strengthening: the confirmed swap waiting to be recorded is a swap the
\* ledger does not show yet.
LedgerInv == \A d \in Days : trades[d] + Unrecorded(d) <= swapped[d]

\* Only a mined swap and record_trade touch the counters; only a confirmed swap
\* brings the process to record_trade, and only a crash keeps it from it.
LEMMA CountersFrame ==
  ASSUME TypeInv, [Next]_vars
  PROVE  \/ SwapConfirms \/ FlightLands \/ RecordTrade
         \/ /\ UNCHANGED <<trades, swapped, entered>>
            /\ pc' = "ledger" => pc = "ledger" /\ job' = job
            /\ pc = "ledger" => pc' = "ledger" \/ "crash" \in Faults
<1> USE DEF clockVars, wallet, store, locals, history, EndCycle, NextToken, Return, Execute
<1>1. CASE UNCHANGED vars
  BY <1>1 DEF vars
<1>2. CASE BeginCycle \/ Reconcile \/ Regime \/ DataGate \/ Abort
  BY <1>2 DEF BeginCycle, Reconcile, Regime, DataGate, Abort
<1>3. CASE Flatten
  BY <1>3 DEF Flatten, FlattenSkip, FlattenSell, FlattenDone
<1>4. CASE Manage
  BY <1>4 DEF Manage, AdoptEntry, StopLoss, AboveStop, Sweep, NotHeld, SkipToken,
     AdoptPool, PoolHolds, PoolDrained, Scanning
<1>5. CASE Signal
  BY <1>5 DEF Signal, NoTrade, Enter, SignalExit, ScanDone
<1>6. CASE Comply
  BY <1>6 DEF Comply, NotDue, ForceTrade
<1>7. CASE SwapFails \/ SwapTimesOut
  BY <1>7 DEF SwapFails, SwapTimesOut
<1>8. CASE RecordEntry \/ RecordPool \/ ClearEntry \/ StampExit \/ ClearPool
  BY <1>8 DEF RecordEntry, RecordPool, ClearEntry, StampExit, ClearPool
<1>9. CASE FlightDrops \/ Tick \/ Stop \/ Start \/ Crash
  BY <1>9 DEF FlightDrops, Tick, Stop, Start, Crash
<1> QED
  BY <1>1, <1>2, <1>3, <1>4, <1>5, <1>6, <1>7, <1>8, <1>9
     DEF Next, Agent, Chain, Swapping, Book

LEMMA LedgerStep == ASSUME TypeInv, LedgerInv, [Next]_vars PROVE LedgerInv'
<1>1. /\ trades \in [Days -> Nat] /\ swapped \in [Days -> Nat]
      /\ pc \in {"swap", "ledger"} => job.at \in Time /\ Day(job.at) \in Days
  BY NoJobKind, DayType DEF TypeInv, StoreType, HistoryType, Shape
<1>2. CASE SwapConfirms
  BY <1>1, <1>2 DEF SwapConfirms, Lands, LedgerInv, Unrecorded, store
<1>3. CASE FlightLands
  <2>1. Head(flight) \in Swap
    BY <1>3 DEF FlightLands, TypeInv, WorldType
  <2>2. Day(Head(flight).at) \in Days
    BY <2>1, NoJobKind, DayType
  <2> QED
    BY <1>1, <1>3, <2>2 DEF FlightLands, Lands, LedgerInv, Unrecorded, store
<1>4. CASE RecordTrade
  <2>1. pc' # "ledger"
    BY <1>4 DEF RecordTrade, Return, NextToken, EndCycle
  <2> QED
    BY <1>1, <1>4, <2>1 DEF RecordTrade, LedgerInv, Unrecorded, history
<1>5. CASE /\ UNCHANGED <<trades, swapped, entered>>
           /\ pc' = "ledger" => pc = "ledger" /\ job' = job
  BY <1>1, <1>5 DEF LedgerInv, Unrecorded
<1> QED
  BY <1>2, <1>3, <1>4, <1>5, CountersFrame

\* Whatever crashes, times out or is misread, the ledger of a day never shows
\* more swaps than the wallet made of that day's proposals.
THEOREM LedgerSound == Spec => []LedgerNeverOverstates
<1>1. Init => LedgerInv
  BY DEF Init, LedgerInv, Unrecorded
<1>2. TypeInv /\ LedgerInv => LedgerNeverOverstates
  BY DEF TypeInv, StoreType, HistoryType, LedgerInv, Unrecorded, LedgerNeverOverstates
<1> QED
  BY <1>1, <1>2, InitType, StepType, LedgerStep, PTL DEF Spec

-----------------------------------------------------------------------------
(* The daily cap on entries *)

\* No swap is cut off from its record.
NoCutoff == Faults \cap {"crash", "timeout"} = {}

\* Nothing is pending; every entry of a day is in its ledger or about to be;
\* an entry under way was proposed below the cap.
CapInv ==
    /\ flight = <<>>
    /\ \A d \in Days : /\ entered[d] <= trades[d] + Unrecorded(d)
                      /\ entered[d] <= MaxTradesPerDay
    /\ pc = "swap" /\ job.kind = "entry" => trades[Day(job.at)] < MaxTradesPerDay

\* Without crashes and timeouts nothing is ever pending.
LEMMA FlightFrame ==
  ASSUME NoCutoff, flight = <<>>, [Next]_vars PROVE flight' = <<>>
<1> USE DEF clockVars, wallet, NoCutoff
<1>1. CASE UNCHANGED vars
  BY <1>1 DEF vars
<1>2. CASE BeginCycle \/ Reconcile \/ Regime \/ DataGate \/ Abort
  BY <1>2 DEF BeginCycle, Reconcile, Regime, DataGate, Abort
<1>3. CASE Flatten
  BY <1>3 DEF Flatten, FlattenSkip, FlattenSell, FlattenDone
<1>4. CASE Manage
  BY <1>4 DEF Manage, AdoptEntry, StopLoss, AboveStop, Sweep, NotHeld, SkipToken,
     AdoptPool, PoolHolds, PoolDrained
<1>5. CASE Signal
  BY <1>5 DEF Signal, NoTrade, Enter, SignalExit, ScanDone
<1>6. CASE Comply
  BY <1>6 DEF Comply, NotDue, ForceTrade
<1>7. CASE Swapping
  BY <1>7 DEF Swapping, SwapConfirms, SwapFails, SwapTimesOut
<1>8. CASE Book
  BY <1>8 DEF Book, RecordTrade, RecordEntry, RecordPool, ClearEntry, StampExit, ClearPool
<1>9. CASE Chain
  BY <1>9 DEF Chain, FlightLands, FlightDrops
<1>10. CASE Tick \/ Stop \/ Start \/ Crash
  BY <1>10 DEF Tick, Stop, Start, Crash
<1> QED
  BY <1>1, <1>2, <1>3, <1>4, <1>5, <1>6, <1>7, <1>8, <1>9, <1>10 DEF Next, Agent

\* Only Enter brings an entry to the swap.
LEMMA EntryFrame ==
  ASSUME [Next]_vars, pc' = "swap", job'.kind = "entry"
  PROVE  Enter \/ (pc = "swap" /\ UNCHANGED <<job, idx, seen>>)
<1> USE DEF clockVars, wallet, locals, EndCycle, NextToken, Return, Execute
<1>1. CASE UNCHANGED vars
  BY <1>1 DEF vars
<1>2. CASE BeginCycle \/ Reconcile \/ Regime \/ DataGate \/ Abort
  BY <1>2 DEF BeginCycle, Reconcile, Regime, DataGate, Abort
<1>3. CASE Flatten
  BY <1>3 DEF Flatten, FlattenSkip, FlattenSell, FlattenDone
<1>4. CASE Manage
  BY <1>4 DEF Manage, AdoptEntry, StopLoss, AboveStop, Sweep, NotHeld, SkipToken,
     AdoptPool, PoolHolds, PoolDrained
<1>5. CASE Signal
  BY <1>5 DEF Signal, NoTrade, SignalExit, ScanDone
<1>6. CASE Comply
  BY <1>6 DEF Comply, NotDue, ForceTrade
<1>7. CASE Swapping
  BY <1>7 DEF Swapping, SwapConfirms, SwapFails, SwapTimesOut
<1>8. CASE Book
  BY <1>8 DEF Book, RecordTrade, RecordEntry, RecordPool, ClearEntry, StampExit, ClearPool
<1>9. CASE Chain
  BY <1>9 DEF Chain, FlightLands, FlightDrops
<1>10. CASE Tick \/ Stop \/ Start \/ Crash
  BY <1>10 DEF Tick, Stop, Start, Crash
<1> QED
  BY <1>1, <1>2, <1>3, <1>4, <1>5, <1>6, <1>7, <1>8, <1>9, <1>10 DEF Next, Agent

LEMMA CapStep == ASSUME NoCutoff, TypeInv, CapInv, [Next]_vars PROVE CapInv'
<1>1. /\ trades \in [Days -> Nat] /\ entered \in [Days -> Nat]
      /\ pc \in {"swap", "ledger"} => job.at \in Time /\ Day(job.at) \in Days
      /\ Day(now) \in Days /\ MaxTradesPerDay \in Nat
  BY NoJobKind, DayType, LimitAssumption DEF TypeInv, WorldType, StoreType, HistoryType, Shape
<1>2. flight' = <<>>
  BY FlightFrame DEF CapInv
<1>3. \A d \in Days : /\ entered'[d] <= trades'[d] + Unrecorded(d)'
                    /\ entered'[d] <= MaxTradesPerDay
  <2>1. CASE SwapConfirms
    BY <1>1, <2>1 DEF SwapConfirms, Lands, CapInv, Unrecorded, store
  <2>2. CASE FlightLands
    BY <2>2 DEF FlightLands, CapInv
  <2>3. CASE RecordTrade
    <3>1. pc' # "ledger"
      BY <2>3 DEF RecordTrade, Return, NextToken, EndCycle
    <3> QED
      BY <1>1, <2>3, <3>1 DEF RecordTrade, CapInv, Unrecorded, history
  <2>4. CASE /\ UNCHANGED <<trades, swapped, entered>>
             /\ pc' = "ledger" => pc = "ledger" /\ job' = job
             /\ pc = "ledger" => pc' = "ledger" \/ "crash" \in Faults
    <3>1. pc' = "ledger" <=> pc = "ledger"
      BY <2>4 DEF NoCutoff
    <3>2. \A d \in Days : Unrecorded(d)' = Unrecorded(d)
      BY <2>4, <3>1 DEF Unrecorded
    <3> QED
      BY <1>1, <2>4, <3>2 DEF CapInv
  <2> QED
    BY <2>1, <2>2, <2>3, <2>4, CountersFrame
<1>4. ASSUME pc' = "swap", job'.kind = "entry"
      PROVE  trades'[Day(job'.at)] < MaxTradesPerDay
  <2>1. CASE Enter
    <3>1. PICK e : Execute("entry", Tok, Buy(Tok, e))
      BY <2>1 DEF Enter
    <3>2. ~Return("entry")
      BY <1>4 DEF Return, NextToken
    <3>3. trades[Day(now)] < MaxTradesPerDay /\ job'.at = now
      BY <3>1, <3>2 DEF Execute, Approves, Buy
    <3> QED
      BY <2>1, <3>3 DEF Enter, store
  <2>2. CASE pc = "swap" /\ job' = job
    <3>1. trades' = trades
      BY <1>4, <2>2, CountersFrame DEF SwapConfirms, FlightLands, RecordTrade, CapInv
    <3> QED
      BY <1>4, <2>2, <3>1 DEF CapInv
  <2> QED
    BY <1>4, <2>1, <2>2, EntryFrame
<1> QED
  BY <1>2, <1>3, <1>4 DEF CapInv

\* Unless a crash or a timeout cuts a swap off from its record, no more entries
\* than the daily cap are opened among the swaps proposed on one day.
THEOREM EntriesCapped == ASSUME NoCutoff PROVE Spec => []DailyEntryCap
<1>1. Init => CapInv
  BY LimitAssumption DEF Init, CapInv, Unrecorded
<1>2. CapInv => DailyEntryCap
  BY DEF CapInv, DailyEntryCap
<1>3. TypeInv /\ CapInv /\ [Next]_vars => CapInv'
  BY CapStep
<1> QED
  BY <1>1, <1>2, <1>3, InitType, StepType, PTL DEF Spec

-----------------------------------------------------------------------------
(* Cooldown, single bullets and the stop-loss price *)

\* Every step is completed and every read is truthful.
Faithful == Faults \cap {"crash", "timeout", "misread"} = {}

\* The token at hand has not been traded since the snapshot was taken ...
Untouched ==
    \/ pc \in {"flatten", "regime", "scan", "sentinel", "signal"}
    \/ pc = "swap" /\ job.kind # "compliance"
    \/ pc \in {"unbook", "stamp", "unpool"} /\ job = NoJob

\* ... or it just has, and its bookkeeping is under way.
Touched ==
    \/ pc = "ledger" /\ job.kind # "compliance"
    \/ pc \in {"book", "baseline"}
    \/ pc \in {"unbook", "stamp", "unpool"} /\ job # NoJob

\* The snapshot still shows the wallet for the tokens whose turn is to come.
SnapshotTrue ==
    \A i \in 1 .. Len(Watchlist) :
        (Untouched /\ i >= idx) \/ (Touched /\ i > idx) =>
            seen[Watchlist[i]] = held[Watchlist[i]]

\* A position has a cost basis, or is just about to get it.
Armed ==
    \A t \in Token : held[t] > 0 =>
        entry[t] \/ (pc \in {"ledger", "book"} /\ job.kind = "entry" /\ t = Tok)

\* A sale without an exit on record has left the cost basis behind: the mark
\* by which the sweep will know it.
Marked ==
    \A t \in Token : soldAt[t] <= lastExit[t] \/ entry[t] \/ (pc = "stamp" /\ t = Tok)

\* What holds for the token at hand, by where its turn stands.
Turn ==
    /\ pc = "signal" => (seen[Tok] > 0 <=> entry[Tok])
    /\ pc = "sentinel" => seen[Tok] > 0 /\ entry[Tok]
    /\ pc = "swap" /\ job.kind = "entry" =>
          job.amt = 1 /\ seen[Tok] = 0 /\ now - soldAt[Tok] >= Cooldown
    /\ pc = "swap" /\ job.kind \in {"exit", "flatten"} =>
          job.amt = seen[Tok] /\ seen[Tok] > 0
    /\ pc = "ledger" /\ job.kind = "exit" => held[Tok] = 0
    /\ pc \in {"unbook", "stamp", "unpool"} => held[Tok] = 0
    /\ pc \in {"stamp", "unpool"} => ~entry[Tok]

TradeInv ==
    /\ flight = <<>>
    /\ \A t \in Token : held[t] <= 1 /\ soldAt[t] <= now
    /\ SnapshotTrue /\ Armed /\ Marked /\ Turn

\* The numbers behind the types.
LEMMA Numbers ==
  ASSUME TypeInv
  PROVE  /\ now \in Int /\ idx \in Int /\ Cooldown \in Nat /\ Len(Watchlist) \in Nat
         /\ \A t \in Token : /\ held[t] \in Nat /\ seen[t] \in Nat
                            /\ soldAt[t] \in Int /\ lastExit[t] \in Int
         /\ AtToken => idx \in 1 .. Len(Watchlist) /\ Tok \in Token
  BY ClockAssumption, WatchlistAssumption, TokType
     DEF TypeInv, WorldType, StoreType, ProcessType, HistoryType, Shape, Tok, Time, LongAgo

LEMMA TradeInit == ASSUME Init PROVE TradeInv
  BY ClockAssumption DEF Init, TradeInv, SnapshotTrue, Untouched, Touched, Armed, Marked,
     Turn, Nothing, LongAgo

\* No bookkeeping is cut short when the loop moves on.
Settled == /\ pc \notin {"book", "stamp"}
           /\ pc = "ledger" => job.kind \in {"flatten", "compliance"}

LEMMA EndCycleTrade ==
  ASSUME TypeInv, TradeInv, EndCycle, Settled,
         UNCHANGED <<now, flight, held, entry, lastExit, soldAt>>
  PROVE  TradeInv'
  BY DEF TradeInv, EndCycle, SnapshotTrue, Untouched, Touched, Armed, Marked, Turn, Settled

\* Going on to the next token, whatever was done with the one at hand.
LEMMA NextTokenTrade ==
  ASSUME TypeInv, TradeInv, NextToken, Settled, Untouched \/ Touched,
         UNCHANGED <<now, flight, held, entry, lastExit, soldAt>>
  PROVE  TradeInv'
<1>1. SnapshotTrue'
  BY Numbers DEF TradeInv, NextToken, SnapshotTrue, Untouched, Touched, locals
<1>2. Armed' /\ Marked' /\ Turn'
  BY DEF TradeInv, NextToken, Armed, Marked, Turn, Settled
<1> QED
  BY <1>1, <1>2 DEF TradeInv

LEMMA ReturnTrade ==
  ASSUME TypeInv, TradeInv, NEW kind \in SwapKind, Return(kind), Settled,
         kind # "compliance" => Untouched \/ Touched,
         UNCHANGED <<now, flight, held, entry, lastExit, soldAt>>
  PROVE  TradeInv'
<1>1. CASE kind \in {"entry", "exit"}
  BY <1>1, NextTokenTrade DEF Return
<1>2. CASE kind = "flatten"
  <2>1. pc' = "flatten" /\ idx' = idx + 1 /\ job' = NoJob /\ UNCHANGED locals
    BY <1>2 DEF Return
  <2>2. SnapshotTrue'
    BY <1>2, <2>1, Numbers DEF TradeInv, SnapshotTrue, Untouched, Touched, locals
  <2>3. Armed' /\ Marked' /\ Turn'
    BY <2>1 DEF TradeInv, Armed, Marked, Turn, Settled
  <2> QED
    BY <2>2, <2>3 DEF TradeInv
<1>3. CASE kind = "compliance"
  BY <1>3, EndCycleTrade DEF Return
<1> QED
  BY <1>1, <1>2, <1>3 DEF SwapKind

\* execute() for the token at hand: what Turn asks of a swap that is let go.
LEMMA ExecuteTrade ==
  ASSUME TypeInv, TradeInv, NEW kind \in SwapKind, NEW t \in Token \cup {Stable}, NEW p,
         Execute(kind, t, p), pc \notin {"swap", "ledger", "book", "stamp"},
         kind # "compliance" => Untouched /\ t = Tok /\ Tok \in Token,
         kind = "entry" => seen[Tok] = 0 /\ now - soldAt[Tok] >= Cooldown,
         kind \in {"exit", "flatten"} => seen[Tok] > 0,
         UNCHANGED <<now, flight, held, entry, lastExit, soldAt>>
  PROVE  TradeInv'
<1>1. CASE Return(kind)
  BY <1>1, ReturnTrade DEF Settled
<1>2. CASE ~Return(kind)
  <2>1. /\ pc' = "swap" /\ UNCHANGED <<idx, locals>>
        /\ job' = [kind |-> kind, tok |-> t,
                   amt |-> IF kind = "entry" THEN 1 ELSE IF t \in Token THEN seen[t] ELSE 0,
                   at |-> now]
    BY <1>2 DEF Execute
  <2>2. /\ job'.kind = kind /\ Tok' = Tok /\ seen' = seen
        /\ job'.amt = IF kind = "entry" THEN 1 ELSE IF t \in Token THEN seen[t] ELSE 0
    BY <2>1 DEF Tok, locals
  <2>3. SnapshotTrue'
    BY <2>1, <2>2, Numbers DEF TradeInv, SnapshotTrue, Untouched, Touched
  <2>4. Armed' /\ Marked'
    BY <2>1, <2>2 DEF TradeInv, Armed, Marked
  <2>5. Turn'
    BY <2>1, <2>2 DEF Turn, SwapKind
  <2> QED
    BY <2>3, <2>4, <2>5 DEF TradeInv
<1> QED
  BY <1>1, <1>2

LEMMA HeadTrade ==
  ASSUME Faithful, TypeInv, TradeInv, BeginCycle \/ Reconcile \/ Regime \/ DataGate \/ Abort
  PROVE  TradeInv'
<1>1. CASE BeginCycle
  BY <1>1 DEF BeginCycle, TradeInv, SnapshotTrue, Untouched, Touched, Armed, Marked,
     Turn, Tok, clockVars, wallet, store, history
<1>2. CASE Reconcile
  <2>1. seen' = held
    BY <1>2 DEF Reconcile, Readings, Faithful
  <2> QED
    BY <1>2, <2>1 DEF Reconcile, TradeInv, SnapshotTrue, Untouched, Touched, Armed, Marked,
       Turn, Tok, clockVars, wallet, store, history
<1>3. CASE Regime
  BY <1>3 DEF Regime, TradeInv, SnapshotTrue, Untouched, Touched, Armed, Marked,
     Turn, Tok, clockVars, wallet, store, history
<1>4. CASE DataGate
  BY <1>4, EndCycleTrade DEF DataGate, Settled, clockVars, wallet, store, history
<1>5. CASE Abort
  BY <1>5, EndCycleTrade DEF Abort, Settled, clockVars, wallet, store, history
<1> QED
  BY <1>1, <1>2, <1>3, <1>4, <1>5

LEMMA FlattenTrade == ASSUME TypeInv, TradeInv, Flatten PROVE TradeInv'
<1> USE DEF clockVars, wallet, store, history
<1>1. CASE FlattenSkip
  BY <1>1, ReturnTrade DEF FlattenSkip, Settled, Untouched, SwapKind
<1>2. CASE FlattenSell
  <2>1. Tok \in Token /\ seen[Tok] > 0
    BY <1>2, TokType, Numbers DEF FlattenSell, Tok, TypeInv, ProcessType
  <2> QED
    BY <1>2, <2>1, ExecuteTrade DEF FlattenSell, Untouched, SwapKind
<1>3. CASE FlattenDone
  BY <1>3, EndCycleTrade DEF FlattenDone, Settled
<1> QED
  BY <1>1, <1>2, <1>3 DEF Flatten

LEMMA ComplyTrade == ASSUME TypeInv, TradeInv, Comply PROVE TradeInv'
<1> USE DEF clockVars, wallet, store, history
<1>1. CASE NotDue
  BY <1>1, EndCycleTrade DEF NotDue, Settled
<1>2. CASE ForceTrade
  <2>1. PICK p : Execute("compliance", Stable, p)
    BY <1>2 DEF ForceTrade
  <2> QED
    BY <1>2, <2>1, ExecuteTrade DEF ForceTrade, SwapKind
<1> QED
  BY <1>1, <1>2 DEF Comply

LEMMA SignalTrade == ASSUME TypeInv, TradeInv, Signal PROVE TradeInv'
<1> USE DEF clockVars, wallet, store, history
<1>1. pc = "signal" => Tok \in Token
  BY Numbers DEF AtToken
<1>2. CASE NoTrade
  BY <1>2, NextTokenTrade DEF NoTrade, Settled, Untouched
<1>3. CASE Enter
  <2>1. PICK e : Execute("entry", Tok, Buy(Tok, e))
    BY <1>3 DEF Enter
  <2>2. ~entry[Tok] /\ pc = "signal" /\ seen[Tok] = 0
    BY <1>1, <1>3, Numbers DEF Enter, TradeInv, Turn
  <2>3. soldAt[Tok] <= lastExit[Tok] /\ ~(now - lastExit[Tok] < Cooldown)
    BY <1>1, <1>3, <2>2 DEF Enter, InCooldown, TradeInv, Marked
  <2>4. now - soldAt[Tok] >= Cooldown
    BY <1>1, <2>2, <2>3, Numbers
  <2> QED
    BY <1>1, <1>3, <2>1, <2>2, <2>4, ExecuteTrade DEF Enter, Untouched, SwapKind
<1>4. CASE SignalExit
  BY <1>1, <1>4, ExecuteTrade DEF SignalExit, Untouched, SwapKind
<1>5. CASE ScanDone
  BY <1>5 DEF ScanDone, TradeInv, SnapshotTrue, Untouched, Touched, Armed, Marked, Turn
<1> QED
  BY <1>2, <1>3, <1>4, <1>5 DEF Signal

\* A step within the turn of the token at hand that touches neither the wallet
\* nor the snapshot, the loop index or the pending swap.
LEMMA WithinTurn ==
  ASSUME TypeInv, TradeInv, Untouched, Untouched',
         UNCHANGED <<now, flight, held, lastExit, soldAt, idx, locals, job>>
  PROVE  SnapshotTrue' /\ Tok' = Tok /\ seen' = seen
  BY DEF TradeInv, SnapshotTrue, Untouched, Touched, Tok, locals

LEMMA ManageTrade == ASSUME TypeInv, TradeInv, Manage PROVE TradeInv'
<1> USE DEF clockVars, wallet, store, history
<1>1. /\ Scanning => idx \in 1 .. Len(Watchlist) /\ Tok \in Token /\ seen[Tok] = held[Tok]
      /\ pc = "sentinel" => Tok \in Token
  BY Numbers, TokType DEF Scanning, AtToken, Tok, TradeInv, SnapshotTrue, Untouched,
     TypeInv, ProcessType
<1>2. CASE AdoptEntry
  <2>1. pc = "scan" /\ pc' = "sentinel" /\ Tok \in Token /\ seen[Tok] > 0
        /\ entry' = [entry EXCEPT ![Tok] = TRUE]
        /\ UNCHANGED <<now, flight, held, lastExit, soldAt, idx, locals, job>>
    BY <1>1, <1>2 DEF AdoptEntry, Scanning
  <2>2. SnapshotTrue' /\ Tok' = Tok /\ seen' = seen
    BY <2>1, WithinTurn DEF Untouched
  <2>3. entry'[Tok] /\ \A t \in Token : entry[t] => entry'[t]
    BY <2>1 DEF TypeInv, StoreType
  <2>4. Armed' /\ Marked'
    BY <2>1, <2>2, <2>3 DEF TradeInv, Armed, Marked
  <2>5. Turn'
    BY <2>1, <2>2, <2>3 DEF TradeInv, Turn
  <2> QED
    BY <2>1, <2>2, <2>4, <2>5 DEF TradeInv
<1>3. CASE StopLoss
  BY <1>1, <1>3, ExecuteTrade DEF StopLoss, Scanning, Untouched, SwapKind
<1>4. CASE AboveStop
  <2>1. pc = "scan" /\ pc' = "sentinel" /\ entry[Tok] /\ seen[Tok] > 0
        /\ UNCHANGED <<now, flight, held, entry, lastExit, soldAt, idx, locals, job>>
    BY <1>4 DEF AboveStop, Scanning
  <2>2. SnapshotTrue' /\ Tok' = Tok /\ seen' = seen
    BY <2>1, WithinTurn DEF Untouched
  <2>3. Armed' /\ Marked' /\ Turn'
    BY <2>1, <2>2 DEF TradeInv, Armed, Marked, Turn
  <2> QED
    BY <2>1, <2>2, <2>3 DEF TradeInv
<1>5. CASE Sweep
  <2>1. pc = "scan" /\ pc' = "unbook" /\ seen[Tok] = 0 /\ job = NoJob
        /\ UNCHANGED <<now, flight, held, entry, lastExit, soldAt, idx, locals, job>>
    BY <1>5 DEF Sweep, Scanning, TypeInv, Shape
  <2>2. SnapshotTrue' /\ Tok' = Tok /\ seen' = seen
    BY <2>1, WithinTurn DEF Untouched
  <2>3. held'[Tok'] = 0
    BY <1>1, <1>5, <2>1, <2>2 DEF Sweep
  <2>4. Armed' /\ Marked' /\ Turn'
    BY <2>1, <2>2, <2>3 DEF TradeInv, Armed, Marked, Turn
  <2> QED
    BY <2>1, <2>2, <2>4 DEF TradeInv
<1>6. CASE NotHeld
  <2>1. pc = "scan" /\ pc' = "signal" /\ seen[Tok] = 0 /\ ~entry[Tok]
        /\ UNCHANGED <<now, flight, held, entry, lastExit, soldAt, idx, locals, job>>
    BY <1>6 DEF NotHeld, Scanning
  <2>2. SnapshotTrue' /\ Tok' = Tok /\ seen' = seen
    BY <2>1, WithinTurn DEF Untouched
  <2>3. Armed' /\ Marked' /\ Turn'
    BY <2>1, <2>2 DEF TradeInv, Armed, Marked, Turn
  <2> QED
    BY <2>1, <2>2, <2>3 DEF TradeInv
<1>7. CASE SkipToken
  BY <1>7, NextTokenTrade DEF SkipToken, Scanning, Settled, Untouched
<1>8. CASE AdoptPool \/ PoolHolds
  <2>1. pc = "sentinel" /\ pc' = "signal"
        /\ UNCHANGED <<now, flight, held, entry, lastExit, soldAt, idx, locals, job>>
    BY <1>8 DEF AdoptPool, PoolHolds
  <2>2. SnapshotTrue' /\ Tok' = Tok /\ seen' = seen
    BY <2>1, WithinTurn DEF Untouched
  <2>3. Armed' /\ Marked' /\ Turn'
    BY <2>1, <2>2 DEF TradeInv, Armed, Marked, Turn
  <2> QED
    BY <2>1, <2>2, <2>3 DEF TradeInv
<1>9. CASE PoolDrained
  BY <1>1, <1>9, ExecuteTrade DEF PoolDrained, Untouched, SwapKind, TradeInv, Turn
<1> QED
  BY <1>2, <1>3, <1>4, <1>5, <1>6, <1>7, <1>8, <1>9 DEF Manage

LEMMA RunTrade ==
  ASSUME Faithful, TypeInv, TradeInv, Tick \/ Stop \/ Start \/ Crash PROVE TradeInv'
<1>1. CASE Tick
  BY <1>1, Numbers DEF Tick, TradeInv, SnapshotTrue, Untouched, Touched, Armed, Marked, Turn,
     Tok, wallet, store, locals, history, AtToken
<1>2. CASE Stop \/ Start
  BY <1>2 DEF Stop, Start, TradeInv, SnapshotTrue, Untouched, Touched, Armed, Marked, Turn,
     Tok, clockVars, wallet, store, locals, history
<1>3. CASE Crash
  BY <1>3 DEF Crash, Faithful
<1> QED
  BY <1>1, <1>2, <1>3

LEMMA SwappingTrade == ASSUME Faithful, TypeInv, TradeInv, Swapping PROVE TradeInv'
<1>1. CASE SwapConfirms
  <2>1. /\ pc = "swap" /\ pc' = "ledger" /\ job \in Swap /\ Lands(job)
        /\ UNCHANGED <<now, flight, entry, lastExit, idx, locals, job>>
        /\ job.kind # "compliance" => idx \in 1 .. Len(Watchlist) /\ Tok \in Token /\ job.tok = Tok
    BY <1>1, Numbers DEF SwapConfirms, TypeInv, Shape, AtToken, clockVars, store
  <2>2. Tok' = Tok /\ seen' = seen
    BY <2>1 DEF Tok, locals
  <2>3. CASE job.kind = "compliance"
    <3>1. held' = held /\ soldAt' = soldAt
      BY <2>1, <2>3 DEF Lands, Buys, Sells, TypeInv, WorldType, HistoryType
    <3> QED
      BY <2>1, <2>2, <2>3, <3>1 DEF TradeInv, SnapshotTrue, Untouched, Touched, Armed, Marked, Turn
  <2>4. CASE job.kind # "compliance"
    <3>1. seen[Tok] = held[Tok] /\ \A i \in 1 .. Len(Watchlist) :
             i > idx => seen[Watchlist[i]] = held[Watchlist[i]] /\ Watchlist[i] # Tok
      BY <2>1, <2>4, Numbers, WatchlistAssumption DEF TradeInv, SnapshotTrue, Untouched, Tok
    <3>2. \A t \in Token : t # Tok => held'[t] = held[t] /\ soldAt'[t] = soldAt[t]
      BY <2>1, <2>4 DEF Lands, Buys, Sells
    <3>3. SnapshotTrue'
      BY <2>1, <2>2, <2>4, <3>1, <3>2, TokType, Numbers DEF SnapshotTrue, Untouched, Touched
    <3>4. CASE job.kind = "entry"
      <4>1. held'[Tok] = held[Tok] + 1 /\ soldAt'[Tok] = soldAt[Tok] /\ held[Tok] = 0
        BY <2>1, <3>1, <3>4 DEF Lands, Buys, Sells, TradeInv, Turn
      <4>2. \A t \in Token : held'[t] <= 1 /\ soldAt'[t] <= now'
        BY <2>1, <3>2, <4>1, Numbers DEF TradeInv
      <4>3. Armed' /\ Marked'
        BY <2>1, <2>2, <3>2, <3>4, <4>1 DEF TradeInv, Armed, Marked
      <4>4. Turn'
        BY <2>1, <3>4 DEF Turn
      <4> QED
        BY <2>1, <3>3, <4>2, <4>3, <4>4 DEF TradeInv
    <3>5. CASE job.kind \in {"exit", "flatten"}
      <4>1. held[Tok] > 0 /\ held'[Tok] = 0 /\ soldAt'[Tok] = now
        BY <2>1, <3>1, <3>5, Numbers DEF Lands, Buys, Sells, TradeInv, Turn
      <4>2. entry[Tok]
        <5>1. pc \notin {"ledger", "book"}
          BY <2>1
        <5>2. Tok \in Token
          BY <2>1, <2>4
        <5> QED
          BY <4>1, <5>1, <5>2 DEF TradeInv, Armed
      <4>3. \A t \in Token : held'[t] <= 1 /\ soldAt'[t] <= now'
        BY <2>1, <3>2, <4>1, Numbers DEF TradeInv
      <4>4. Armed' /\ Marked'
        BY <2>1, <2>2, <3>2, <3>5, <4>1, <4>2 DEF TradeInv, Armed, Marked
      <4>5. Turn'
        BY <2>1, <2>2, <4>1 DEF Turn
      <4> QED
        BY <2>1, <3>3, <4>3, <4>4, <4>5 DEF TradeInv
    <3> QED
      BY <2>1, <2>4, <3>4, <3>5, NoJobKind DEF SwapKind
  <2> QED
    BY <2>3, <2>4
<1>2. CASE SwapFails
  BY <1>2, ReturnTrade, NoJobKind DEF SwapFails, Settled, Untouched, TypeInv, Shape,
     clockVars, wallet, store, history
<1>3. CASE SwapTimesOut
  BY <1>3 DEF SwapTimesOut, Faithful
<1> QED
  BY <1>1, <1>2, <1>3 DEF Swapping

LEMMA BookTrade == ASSUME TypeInv, TradeInv, Book PROVE TradeInv'
<1> USE DEF clockVars, wallet, history
<1>1. /\ pc \in {"book", "baseline", "unbook", "stamp", "unpool"} => Tok \in Token
      /\ pc = "ledger" => job.kind \in SwapKind
  BY Numbers, NoJobKind DEF AtToken, TypeInv, Shape
<1>2. CASE RecordTrade
  <2>1. CASE job.kind \in {"entry", "exit"} /\ UNCHANGED <<idx, locals, job>>
    <3>1. /\ pc = "ledger"
          /\ pc' = IF job.kind = "entry" THEN "book" ELSE "unbook"
          /\ UNCHANGED <<now, flight, held, entry, lastExit, soldAt, idx, locals, job>>
      BY <1>2, <2>1 DEF RecordTrade, Return, NextToken
    <3>2. Tok' = Tok /\ seen' = seen
      BY <3>1 DEF Tok, locals
    <3>3. job # NoJob
      BY <2>1, NoJobKind
    <3>4. SnapshotTrue'
      BY <2>1, <3>1, <3>2, <3>3 DEF TradeInv, SnapshotTrue, Untouched, Touched
    <3>5. Armed' /\ Marked' /\ Turn'
      BY <2>1, <3>1, <3>2 DEF TradeInv, Armed, Marked, Turn
    <3> QED
      BY <3>1, <3>4, <3>5 DEF TradeInv
  <2>2. CASE job.kind \in {"flatten", "compliance"} /\ Return(job.kind)
    BY <1>1, <1>2, <2>2, ReturnTrade DEF RecordTrade, Settled, Touched
  <2> QED
    BY <1>2, <2>1, <2>2 DEF RecordTrade
<1>3. CASE RecordEntry
  <2>1. pc = "book" /\ pc' = "baseline" /\ Tok \in Token
        /\ entry' = [entry EXCEPT ![Tok] = TRUE]
        /\ UNCHANGED <<now, flight, held, lastExit, soldAt, idx, locals, job>>
    BY <1>1, <1>3 DEF RecordEntry
  <2>2. Tok' = Tok /\ seen' = seen
    BY <2>1 DEF Tok, locals
  <2>3. entry'[Tok] /\ \A t \in Token : entry[t] => entry'[t]
    BY <2>1 DEF TypeInv, StoreType
  <2>4. SnapshotTrue'
    BY <2>1, <2>2 DEF TradeInv, SnapshotTrue, Untouched, Touched
  <2>5. Armed' /\ Marked' /\ Turn'
    BY <2>1, <2>2, <2>3 DEF TradeInv, Armed, Marked, Turn
  <2> QED
    BY <2>1, <2>4, <2>5 DEF TradeInv
<1>4. CASE RecordPool
  BY <1>4, NextTokenTrade DEF RecordPool, Settled, Touched
<1>5. CASE ClearEntry
  <2>1. pc = "unbook" /\ pc' = "stamp" /\ Tok \in Token
        /\ entry' = [entry EXCEPT ![Tok] = FALSE]
        /\ UNCHANGED <<now, flight, held, lastExit, soldAt, idx, locals, job>>
    BY <1>1, <1>5 DEF ClearEntry
  <2>2. Tok' = Tok /\ seen' = seen
    BY <2>1 DEF Tok, locals
  <2>3. ~entry'[Tok] /\ \A t \in Token : t # Tok => (entry'[t] <=> entry[t])
    BY <2>1 DEF TypeInv, StoreType
  <2>4. SnapshotTrue'
    BY <2>1, <2>2 DEF TradeInv, SnapshotTrue, Untouched, Touched
  <2>5. held[Tok] = 0
    BY <2>1 DEF TradeInv, Turn
  <2>6. Armed' /\ Marked' /\ Turn'
    BY <2>1, <2>2, <2>3, <2>5 DEF TradeInv, Armed, Marked, Turn
  <2> QED
    BY <2>1, <2>4, <2>6 DEF TradeInv
<1>6. CASE StampExit
  <2>1. pc = "stamp" /\ pc' = "unpool" /\ Tok \in Token
        /\ lastExit' = [lastExit EXCEPT ![Tok] = now]
        /\ UNCHANGED <<now, flight, held, entry, soldAt, idx, locals, job>>
    BY <1>1, <1>6 DEF StampExit
  <2>2. Tok' = Tok /\ seen' = seen
    BY <2>1 DEF Tok, locals
  <2>3. lastExit'[Tok] = now /\ \A t \in Token : t # Tok => lastExit'[t] = lastExit[t]
    BY <2>1 DEF TypeInv, StoreType
  <2>4. SnapshotTrue'
    BY <2>1, <2>2 DEF TradeInv, SnapshotTrue, Untouched, Touched
  <2>5. Armed' /\ Marked' /\ Turn'
    BY <2>1, <2>2, <2>3 DEF TradeInv, Armed, Marked, Turn
  <2> QED
    BY <2>1, <2>4, <2>5 DEF TradeInv
<1>7. CASE ClearPool
  <2>1. CASE job = NoJob /\ pc' = "signal" /\ UNCHANGED <<idx, locals, job>>
    <3>1. /\ pc = "unpool" /\ Untouched /\ Untouched' /\ Tok \in Token
          /\ UNCHANGED <<now, flight, held, entry, lastExit, soldAt, idx, locals, job>>
      BY <1>1, <1>7, <2>1 DEF ClearPool, Untouched
    <3>2. SnapshotTrue' /\ Tok' = Tok /\ seen' = seen
      BY <3>1, WithinTurn
    <3>3. seen[Tok] = 0
      BY <3>1, Numbers DEF TradeInv, SnapshotTrue, Turn, AtToken, Tok
    <3>4. Armed' /\ Marked' /\ Turn'
      BY <2>1, <3>1, <3>2, <3>3 DEF TradeInv, Armed, Marked, Turn
    <3> QED
      BY <3>1, <3>2, <3>4 DEF TradeInv
  <2>2. CASE job # NoJob /\ NextToken
    BY <1>7, <2>2, NextTokenTrade DEF ClearPool, Settled, Touched
  <2> QED
    BY <1>7, <2>1, <2>2 DEF ClearPool
<1> QED
  BY <1>2, <1>3, <1>4, <1>5, <1>6, <1>7 DEF Book

LEMMA TradeStep == ASSUME Faithful, TypeInv, TradeInv, [Next]_vars PROVE TradeInv'
<1>1. CASE UNCHANGED vars
  BY <1>1 DEF vars, TradeInv, SnapshotTrue, Untouched, Touched, Armed, Marked, Turn, Tok,
     clockVars, wallet, store, locals, history
<1>2. CASE Chain
  BY <1>2 DEF Chain, FlightLands, FlightDrops, TradeInv
<1> QED
  BY <1>1, <1>2, HeadTrade, FlattenTrade, ManageTrade, SignalTrade, ComplyTrade,
     SwappingTrade, BookTrade, RunTrade DEF Next, Agent

\* With truthful reads and completed steps, a token in the wallet is never
\* bought again, whichever way the cycles, the gates and the swaps turn out.
THEOREM SingleBullets == ASSUME Faithful PROVE Spec => []NoDoubleEntry
<1>1. TypeInv /\ TradeInv /\ [Next]_vars => TradeInv'
  BY TradeStep
<1>2. TradeInv => NoDoubleEntry
  BY DEF TradeInv, NoDoubleEntry
<1>3. Init => TradeInv
  BY TradeInit
<1> QED
  BY <1>1, <1>2, <1>3, InitType, StepType, PTL DEF Spec

\* Between two cycles every position in the wallet has its stop-loss price.
THEOREM StopLossAlwaysArmed == ASSUME Faithful PROVE Spec => []StopLossArmed
<1>1. TypeInv /\ TradeInv /\ [Next]_vars => TradeInv'
  BY TradeStep
<1>2. TradeInv => StopLossArmed
  BY DEF TradeInv, Armed, StopLossArmed
<1>3. Init => TradeInv
  BY TradeInit
<1> QED
  BY <1>1, <1>2, <1>3, InitType, StepType, PTL DEF Spec

-----------------------------------------------------------------------------
(* The abstract lifecycle *)

\* Only a mined swap touches the wallet, only a tick the clock.
LEMMA WalletFrame ==
  ASSUME [Next]_vars
  PROVE  SwapConfirms \/ FlightLands \/ Tick \/ UNCHANGED <<now, held, soldAt>>
<1> USE DEF clockVars, wallet, history
<1>1. CASE UNCHANGED vars
  BY <1>1 DEF vars
<1>2. CASE BeginCycle \/ Reconcile \/ Regime \/ DataGate \/ Abort
  BY <1>2 DEF BeginCycle, Reconcile, Regime, DataGate, Abort
<1>3. CASE Flatten
  BY <1>3 DEF Flatten, FlattenSkip, FlattenSell, FlattenDone
<1>4. CASE Manage
  BY <1>4 DEF Manage, AdoptEntry, StopLoss, AboveStop, Sweep, NotHeld, SkipToken,
     AdoptPool, PoolHolds, PoolDrained
<1>5. CASE Signal
  BY <1>5 DEF Signal, NoTrade, Enter, SignalExit, ScanDone
<1>6. CASE Comply
  BY <1>6 DEF Comply, NotDue, ForceTrade
<1>7. CASE SwapFails \/ SwapTimesOut
  BY <1>7 DEF SwapFails, SwapTimesOut
<1>8. CASE Book
  BY <1>8 DEF Book, RecordTrade, RecordEntry, RecordPool, ClearEntry, StampExit, ClearPool
<1>9. CASE FlightDrops \/ Stop \/ Start \/ Crash
  BY <1>9 DEF FlightDrops, Stop, Start, Crash
<1> QED
  BY <1>1, <1>2, <1>3, <1>4, <1>5, <1>6, <1>7, <1>8, <1>9
     DEF Next, Agent, Chain, Swapping

\* A confirmed swap opens a position out of its cooldown, closes one, or
\* leaves the positions alone.
LEMMA ConfirmLifecycle ==
  ASSUME TypeInv, TradeInv, SwapConfirms
  PROVE  \/ /\ job.kind = "entry" /\ Lifecycle!Open(Tok) /\ Tok \in Token
         \/ /\ job.kind \in {"exit", "flatten"} /\ Lifecycle!Close(Tok) /\ Tok \in Token
         \/ UNCHANGED <<now, held, soldAt>>
<1>1. /\ pc = "swap" /\ job \in Swap /\ Lands(job) /\ now' = now
      /\ job.kind # "compliance" =>
            idx \in 1 .. Len(Watchlist) /\ Tok \in Token /\ job.tok = Tok
  BY Numbers DEF SwapConfirms, TypeInv, Shape, AtToken, clockVars
<1>2. held \in [Token -> Nat] /\ soldAt \in [Token -> Time \cup {LongAgo}]
  BY DEF TypeInv, WorldType, HistoryType
<1>3. CASE job.kind = "compliance"
  BY <1>1, <1>2, <1>3 DEF Lands, Buys, Sells
<1>4. job.kind # "compliance" => seen[Tok] = held[Tok]
  BY <1>1, Numbers DEF TradeInv, SnapshotTrue, Untouched, Tok
<1>5. CASE job.kind = "entry"
  <2>1. job.amt = 1 /\ held[Tok] = 0 /\ now - soldAt[Tok] >= Cooldown
    BY <1>1, <1>4, <1>5 DEF TradeInv, Turn
  <2>2. held' = [held EXCEPT ![Tok] = 1]
    <3>1. \A t \in Token : held'[t] = IF t = Tok THEN 1 ELSE held[t]
      BY <1>1, <1>2, <1>5, <2>1 DEF Lands, Buys, Sells
    <3>2. held' = [t \in Token |-> held'[t]]
      BY <1>1 DEF Lands
    <3> QED
      BY <1>2, <3>1, <3>2
  <2>3. soldAt' = soldAt
    BY <1>1, <1>2, <1>5 DEF Lands, Buys, Sells
  <2> QED
    BY <1>1, <1>5, <2>1, <2>2, <2>3 DEF Lifecycle!Open
<1>6. CASE job.kind \in {"exit", "flatten"}
  <2>1. job.amt = held[Tok] /\ held[Tok] = 1
    BY <1>1, <1>4, <1>6, Numbers DEF TradeInv, Turn
  <2>2. held' = [held EXCEPT ![Tok] = 0]
    <3>1. \A t \in Token : held'[t] = IF t = Tok THEN 0 ELSE held[t]
      BY <1>1, <1>2, <1>6, <2>1 DEF Lands, Buys, Sells
    <3>2. held' = [t \in Token |-> held'[t]]
      BY <1>1 DEF Lands
    <3> QED
      BY <1>2, <3>1, <3>2
  <2>3. soldAt' = [soldAt EXCEPT ![Tok] = now]
    BY <1>1, <1>2, <1>6 DEF Lands, Buys, Sells
  <2> QED
    BY <1>1, <1>6, <2>1, <2>2, <2>3 DEF Lifecycle!Close
<1> QED
  BY <1>1, <1>3, <1>5, <1>6, NoJobKind DEF SwapKind

\* The trading cycle, with truthful reads and completed steps, implements the
\* abstract lifecycle: one position per token, opened out of its cooldown.
THEOREM ImplementsLifecycle == ASSUME Faithful PROVE Spec => LifecycleSpec
<1>1. Init => Lifecycle!Init
  BY DEF Init, Lifecycle!Init, Nothing, LongAgo
<1>2. TypeInv /\ TradeInv /\ [Next]_vars => [Lifecycle!Next]_(Lifecycle!vars)
  <2> SUFFICES ASSUME TypeInv, TradeInv, [Next]_vars
               PROVE  [Lifecycle!Next]_(Lifecycle!vars)
    OBVIOUS
  <2>1. CASE SwapConfirms
    BY <2>1, ConfirmLifecycle DEF Lifecycle!Next, Lifecycle!vars
  <2>2. CASE FlightLands
    BY <2>2 DEF FlightLands, TradeInv
  <2>3. CASE Tick
    BY <2>3 DEF Tick, wallet, history, Lifecycle!Next, Lifecycle!Advance
  <2>4. CASE UNCHANGED <<now, held, soldAt>>
    BY <2>4 DEF Lifecycle!vars
  <2> QED
    BY <2>1, <2>2, <2>3, <2>4, WalletFrame
<1>3. TypeInv /\ TradeInv /\ [Next]_vars => TradeInv'
  BY TradeStep
<1>4. Init => TradeInv
  BY TradeInit
<1> QED
  BY <1>1, <1>2, <1>3, <1>4, InitType, StepType, PTL DEF Spec, LifecycleSpec, Lifecycle!Spec

\* No token is bought within the cooldown of its last sale, whether the stop,
\* the sentinel, the signal or the hard stop sold it.
THEOREM CooldownRespected == ASSUME Faithful PROVE Spec => CooldownHolds
<1>1. TypeInv /\ TradeInv /\ [Next]_vars =>
        [\A t \in Token : held'[t] > held[t] => now - soldAt[t] >= Cooldown]_vars
  <2> SUFFICES ASSUME TypeInv, TradeInv, [Next]_vars,
                      NEW t \in Token, held'[t] > held[t]
               PROVE  now - soldAt[t] >= Cooldown
    OBVIOUS
  <2>1. held[t] \in Nat /\ held \in [Token -> Nat]
    BY DEF TypeInv, WorldType
  <2>2. SwapConfirms
    BY <2>1, WalletFrame DEF FlightLands, TradeInv, Tick, wallet
  <2>3. Lifecycle!Open(Tok) \/ Lifecycle!Close(Tok)
    BY <2>1, <2>2, ConfirmLifecycle
  <2>4. CASE Lifecycle!Open(Tok)
    BY <2>1, <2>4 DEF Lifecycle!Open
  <2>5. CASE Lifecycle!Close(Tok)
    BY <2>1, <2>5 DEF Lifecycle!Close
  <2> QED
    BY <2>3, <2>4, <2>5
<1>2. TypeInv /\ TradeInv /\ [Next]_vars => TradeInv'
  BY TradeStep
<1>3. Init => TradeInv
  BY TradeInit
<1> QED
  BY <1>1, <1>2, <1>3, InitType, StepType, PTL DEF Spec, CooldownHolds

-----------------------------------------------------------------------------
(* What the ledger may miss *)

\* Without a crash or a timeout the ledger misses what is about to be recorded.
ExactInv == flight = <<>> /\ \A d \in Days : trades[d] + Unrecorded(d) = swapped[d]

LEMMA ExactStep == ASSUME NoCutoff, TypeInv, ExactInv, [Next]_vars PROVE ExactInv'
<1>1. /\ trades \in [Days -> Nat] /\ swapped \in [Days -> Nat]
      /\ pc \in {"swap", "ledger"} => Day(job.at) \in Days
  BY NoJobKind, DayType DEF TypeInv, StoreType, HistoryType, Shape
<1>2. flight' = <<>>
  BY FlightFrame DEF ExactInv
<1>3. CASE SwapConfirms
  BY <1>1, <1>2, <1>3 DEF SwapConfirms, Lands, ExactInv, Unrecorded, store
<1>4. CASE FlightLands
  BY <1>4 DEF FlightLands, ExactInv
<1>5. CASE RecordTrade
  <2>1. pc' # "ledger"
    BY <1>5 DEF RecordTrade, Return, NextToken, EndCycle
  <2> QED
    BY <1>1, <1>2, <1>5, <2>1 DEF RecordTrade, ExactInv, Unrecorded, history
<1>6. CASE /\ UNCHANGED <<trades, swapped, entered>>
           /\ pc' = "ledger" => pc = "ledger" /\ job' = job
           /\ pc = "ledger" => pc' = "ledger" \/ "crash" \in Faults
  <2>1. \A d \in Days : Unrecorded(d)' = Unrecorded(d)
    BY <1>6 DEF NoCutoff, Unrecorded
  <2> QED
    BY <1>2, <1>6, <2>1 DEF ExactInv
<1> QED
  BY <1>3, <1>4, <1>5, <1>6, CountersFrame

\* Without crashes and timeouts the ledger shows, between two cycles, exactly the
\* swaps of the wallet, compliance and flattening included.
THEOREM LedgerExact == ASSUME NoCutoff PROVE Spec => []LedgerExactAtRest
<1>1. Init => ExactInv
  BY DEF Init, ExactInv, Unrecorded
<1>2. TypeInv /\ ExactInv => LedgerExactAtRest
  <2> SUFFICES ASSUME TypeInv, ExactInv, pc = "rest" PROVE trades = swapped
    BY DEF LedgerExactAtRest
  <2>1. trades \in [Days -> Nat] /\ swapped \in [Days -> Nat]
    BY DEF TypeInv, StoreType, HistoryType
  <2>2. \A d \in Days : trades[d] = swapped[d]
    BY <2>1 DEF ExactInv, Unrecorded
  <2> QED
    BY <2>1, <2>2
<1>3. TypeInv /\ ExactInv /\ [Next]_vars => ExactInv'
  BY ExactStep
<1> QED
  BY <1>1, <1>2, <1>3, InitType, StepType, PTL DEF Spec

\* Every swap that is pending, and every swap the ledger misses, has cost a fault.
LossInv == \A d \in Days : swapped[d] + Len(flight) <= trades[d] + Unrecorded(d) + faults

\* The steps that touch the ledger, the swaps, the faults or what is pending.
LEMMA FaultsFrame ==
  ASSUME TypeInv, [Next]_vars
  PROVE  \/ SwapConfirms \/ FlightLands \/ FlightDrops \/ RecordTrade
         \/ Crash \/ SwapTimesOut
         \/ /\ UNCHANGED <<trades, swapped, faults, flight>>
            /\ pc' = "ledger" <=> pc = "ledger"
            /\ pc = "ledger" => job' = job
<1> USE DEF clockVars, wallet, store, locals, history, EndCycle, NextToken, Return, Execute
<1>1. CASE UNCHANGED vars
  BY <1>1 DEF vars
<1>2. CASE BeginCycle \/ Reconcile \/ Regime \/ DataGate \/ Abort
  BY <1>2 DEF BeginCycle, Reconcile, Regime, DataGate, Abort
<1>3. CASE Flatten
  BY <1>3 DEF Flatten, FlattenSkip, FlattenSell, FlattenDone
<1>4. CASE Manage
  BY <1>4 DEF Manage, AdoptEntry, StopLoss, AboveStop, Sweep, NotHeld, SkipToken,
     AdoptPool, PoolHolds, PoolDrained, Scanning
<1>5. CASE Signal
  BY <1>5 DEF Signal, NoTrade, Enter, SignalExit, ScanDone
<1>6. CASE Comply
  BY <1>6 DEF Comply, NotDue, ForceTrade
<1>7. CASE SwapFails
  BY <1>7 DEF SwapFails
<1>8. CASE RecordEntry \/ RecordPool \/ ClearEntry \/ StampExit \/ ClearPool
  BY <1>8 DEF RecordEntry, RecordPool, ClearEntry, StampExit, ClearPool
<1>9. CASE Tick \/ Stop \/ Start
  BY <1>9 DEF Tick, Stop, Start
<1> QED
  BY <1>1, <1>2, <1>3, <1>4, <1>5, <1>6, <1>7, <1>8, <1>9
     DEF Next, Agent, Chain, Swapping, Book

LEMMA LossStep == ASSUME TypeInv, LossInv, [Next]_vars PROVE LossInv'
<1>1. /\ trades \in [Days -> Nat] /\ swapped \in [Days -> Nat] /\ faults \in Nat
      /\ pc \in {"swap", "ledger"} => Day(job.at) \in Days
      /\ flight \in Seq(Swap) /\ Len(flight) \in Nat
  BY NoJobKind, DayType DEF TypeInv, WorldType, StoreType, HistoryType, Shape
<1>2. \A d \in Days : Unrecorded(d) \in {0, 1} /\ Unrecorded(d)' \in {0, 1}
  BY DEF Unrecorded
<1>3. CASE SwapConfirms
  <2>1. /\ swapped' = [swapped EXCEPT ![Day(job.at)] = @ + 1] /\ Day(job.at) \in Days
        /\ pc = "swap" /\ pc' = "ledger" /\ UNCHANGED <<trades, faults, flight, job>>
    BY <1>1, <1>3 DEF SwapConfirms, Lands, store, clockVars
  <2> QED
    BY <1>1, <2>1 DEF LossInv, Unrecorded
<1>4. CASE FlightLands \/ FlightDrops
  <2>1. Len(flight') = Len(flight) - 1 /\ Head(flight) \in Swap
    BY <1>1, <1>4 DEF FlightLands, FlightDrops
  <2>2. Day(Head(flight).at) \in Days
    BY <2>1, NoJobKind, DayType
  <2>3. /\ UNCHANGED <<trades, faults, pc, job>>
        /\ \A d \in Days : swapped'[d] \in {swapped[d], swapped[d] + 1}
    BY <1>1, <1>4, <2>2 DEF FlightLands, FlightDrops, Lands, store, clockVars, history
  <2>4. \A d \in Days : Unrecorded(d)' = Unrecorded(d)
    BY <2>3 DEF Unrecorded
  <2> SUFFICES ASSUME NEW d \in Days
               PROVE  swapped'[d] + Len(flight') <= trades'[d] + Unrecorded(d)' + faults'
    BY DEF LossInv
  <2>5. swapped[d] + Len(flight) <= trades[d] + Unrecorded(d) + faults
    BY DEF LossInv
  <2>6. swapped'[d] <= swapped[d] + 1 /\ swapped'[d] \in Nat
    BY <1>1, <2>3
  <2>7. /\ trades[d] \in Nat /\ swapped[d] \in Nat /\ Unrecorded(d) \in Nat
        /\ Unrecorded(d)' = Unrecorded(d) /\ trades'[d] = trades[d] /\ faults' = faults
    BY <1>1, <1>2, <2>3, <2>4
  <2> QED
    BY <1>1, <2>1, <2>5, <2>6, <2>7
<1>5. CASE RecordTrade
  <2>1. /\ trades' = [trades EXCEPT ![Day(job.at)] = @ + 1] /\ Day(job.at) \in Days
        /\ pc = "ledger" /\ UNCHANGED <<swapped, faults, flight>>
    BY <1>1, <1>5 DEF RecordTrade, history, clockVars, wallet
  <2>2. pc' # "ledger"
    BY <1>5 DEF RecordTrade, Return, NextToken, EndCycle
  <2> QED
    BY <1>1, <2>1, <2>2 DEF LossInv, Unrecorded
<1>6. CASE Crash
  <2>1. /\ UNCHANGED <<trades, swapped>> /\ faults' = faults + 1 /\ pc' = "rest"
        /\ flight' = flight \/ (pc = "swap" /\ flight' = Append(flight, job))
    BY <1>6 DEF Crash, EndCycle, store, history
  <2>2. CASE flight' = flight
    BY <1>1, <1>2, <2>1, <2>2 DEF LossInv, Unrecorded
  <2>3. CASE pc = "swap" /\ flight' = Append(flight, job)
    <3>1. Len(flight') = Len(flight) + 1
      BY <1>1, <2>3
    <3> QED
      BY <1>1, <2>1, <2>3, <3>1 DEF LossInv, Unrecorded
  <2> QED
    BY <2>1, <2>2, <2>3
<1>7. CASE SwapTimesOut
  <2>1. /\ UNCHANGED <<trades, swapped>> /\ faults' = faults + 1 /\ pc = "swap"
        /\ Len(flight') = Len(flight) + 1
    BY <1>1, <1>7 DEF SwapTimesOut, store, history
  <2>2. \A d \in Days : Unrecorded(d) = 0
    BY <2>1 DEF Unrecorded
  <2> SUFFICES ASSUME NEW d \in Days
               PROVE  swapped'[d] + Len(flight') <= trades'[d] + Unrecorded(d)' + faults'
    BY DEF LossInv
  <2>3. swapped[d] + Len(flight) <= trades[d] + faults
    BY <1>1, <2>2 DEF LossInv
  <2>4. Unrecorded(d)' \in Nat
    BY <1>2
  <2> QED
    BY <1>1, <2>1, <2>3, <2>4
<1>8. CASE /\ UNCHANGED <<trades, swapped, faults, flight>>
           /\ pc' = "ledger" <=> pc = "ledger"
           /\ pc = "ledger" => job' = job
  <2>1. \A d \in Days : Unrecorded(d)' = Unrecorded(d)
    BY <1>8 DEF Unrecorded
  <2> QED
    BY <1>8, <2>1 DEF LossInv
<1> QED
  BY <1>3, <1>4, <1>5, <1>6, <1>7, <1>8, FaultsFrame

\* Whatever happens, the ledger misses at most one swap for each crash or timeout.
THEOREM LossBounded == Spec => []LedgerLossBounded
<1>1. Init => LossInv
  BY DEF Init, LossInv, Unrecorded
<1>2. TypeInv /\ LossInv => LedgerLossBounded
  <2> SUFFICES ASSUME TypeInv, LossInv, pc = "rest", NEW d \in Days
               PROVE  swapped[d] <= trades[d] + faults
    BY DEF LedgerLossBounded
  <2>1. trades[d] \in Nat /\ swapped[d] \in Nat /\ faults \in Nat /\ Len(flight) \in Nat
    BY DEF TypeInv, WorldType, StoreType, HistoryType
  <2> QED
    BY <2>1 DEF LossInv, Unrecorded
<1>3. TypeInv /\ LossInv /\ [Next]_vars => LossInv'
  BY LossStep
<1> QED
  BY <1>1, <1>2, <1>3, InitType, StepType, PTL DEF Spec

-----------------------------------------------------------------------------
(* What a fault may cost: entries over the daily cap *)

\* An entry that execute() let go and that has not returned yet.
Pending(d) == IF pc = "swap" /\ job.kind = "entry" /\ d = Day(job.at) THEN 1 ELSE 0

\* Every entry is a swap; and what is over the cap, an entry about to be made and
\* the swaps given up on included, has been paid for with a fault.
EntryInv ==
    \A d \in Days :
        /\ entered[d] <= swapped[d]
        /\ entered[d] + Pending(d) + Len(flight) <= MaxTradesPerDay + faults

\* While a swap is executed only its result changes the counters.
LEMMA PendingFrame ==
  ASSUME TypeInv, [Next]_vars
  PROVE  \/ SwapConfirms \/ FlightLands \/ FlightDrops \/ RecordTrade
         \/ Crash \/ SwapTimesOut \/ Enter
         \/ /\ UNCHANGED <<entered, swapped, faults, flight>>
            /\ \A d \in Days : Pending(d)' <= Pending(d)
<1>1. CASE Enter \/ SwapConfirms \/ FlightLands \/ FlightDrops \/ RecordTrade
           \/ Crash \/ SwapTimesOut
  BY <1>1
<1>2. CASE ~(Enter \/ SwapConfirms \/ FlightLands \/ FlightDrops \/ RecordTrade
             \/ Crash \/ SwapTimesOut)
  <2>1. UNCHANGED <<entered, swapped, faults, flight>>
    BY <1>2, FaultsFrame, CountersFrame
  <2>2. pc' = "swap" /\ job'.kind = "entry" => pc = "swap" /\ job' = job
    BY <1>2, EntryFrame
  <2>3. \A d \in Days : Pending(d)' <= Pending(d)
    BY <2>2 DEF Pending
  <2> QED
    BY <2>1, <2>3
<1> QED
  BY <1>1, <1>2

LEMMA EntryStep ==
  ASSUME TypeInv, LossInv, EntryInv, [Next]_vars PROVE EntryInv'
<1>1. /\ trades \in [Days -> Nat] /\ swapped \in [Days -> Nat] /\ entered \in [Days -> Nat]
      /\ faults \in Nat /\ flight \in Seq(Swap) /\ Len(flight) \in Nat
      /\ pc \in {"swap", "ledger"} => job.at \in Time /\ Day(job.at) \in Days
      /\ Day(now) \in Days /\ MaxTradesPerDay \in Nat
  BY NoJobKind, DayType, LimitAssumption DEF TypeInv, WorldType, StoreType, HistoryType, Shape
<1> SUFFICES ASSUME NEW d \in Days
             PROVE  /\ entered'[d] <= swapped'[d]
                    /\ entered'[d] + Pending(d)' + Len(flight') <= MaxTradesPerDay + faults'
  BY DEF EntryInv
<1>2. /\ entered[d] <= swapped[d]
      /\ entered[d] + Pending(d) + Len(flight) <= MaxTradesPerDay + faults
  BY DEF EntryInv
<1>3. Pending(d) \in Nat /\ Pending(d)' \in Nat /\ Pending(d)' <= 1
  <2>1. Pending(d) \in {0, 1}
    BY DEF Pending
  <2>2. Pending(d)' \in {0, 1}
    BY DEF Pending
  <2> QED
    BY <2>1, <2>2
<1>4. /\ entered[d] \in Nat /\ swapped[d] \in Nat /\ trades[d] \in Nat
      /\ faults \in Nat /\ Len(flight) \in Nat /\ MaxTradesPerDay \in Nat
  BY <1>1
<1>5. CASE SwapConfirms
  <2>1. /\ swapped' = [swapped EXCEPT ![Day(job.at)] = @ + 1] /\ Day(job.at) \in Days
        /\ entered' = [entered EXCEPT ![Day(job.at)] = IF job.kind = "entry" THEN @ + 1 ELSE @]
        /\ pc = "swap" /\ pc' = "ledger" /\ UNCHANGED <<faults, flight, job>>
    BY <1>1, <1>5 DEF SwapConfirms, Lands, clockVars
  <2>2. Pending(d)' = 0 /\ Len(flight') = Len(flight)
    BY <2>1 DEF Pending
  <2>3. CASE d = Day(job.at) /\ job.kind = "entry"
    <3>1. entered'[d] = entered[d] + 1 /\ swapped'[d] = swapped[d] + 1
      BY <1>1, <2>1, <2>3
    <3>2. Pending(d) = 1
      BY <2>1, <2>3 DEF Pending
    <3> QED
      BY <1>2, <1>4, <2>1, <2>2, <3>1, <3>2
  <2>4. CASE ~(d = Day(job.at) /\ job.kind = "entry")
    <3>1. entered'[d] = entered[d]
      BY <1>1, <2>1, <2>4
    <3>2. swapped'[d] = swapped[d] \/ swapped'[d] = swapped[d] + 1
      BY <1>1, <2>1
    <3> QED
      BY <1>2, <1>3, <1>4, <2>1, <2>2, <3>1, <3>2
  <2> QED
    BY <2>3, <2>4
<1>6. CASE FlightLands \/ FlightDrops
  <2>1. Len(flight') = Len(flight) - 1 /\ Head(flight) \in Swap
    BY <1>1, <1>6 DEF FlightLands, FlightDrops
  <2>2. Day(Head(flight).at) \in Days
    BY <2>1, NoJobKind, DayType
  <2>3. UNCHANGED <<faults, pc, job>>
    BY <1>6 DEF FlightLands, FlightDrops, clockVars
  <2>4. Pending(d)' = Pending(d)
    BY <2>3 DEF Pending
  <2>5. \/ entered'[d] = entered[d] /\ swapped'[d] = swapped[d]
        \/ entered'[d] = entered[d] /\ swapped'[d] = swapped[d] + 1
        \/ entered'[d] = entered[d] + 1 /\ swapped'[d] = swapped[d] + 1
    BY <1>1, <1>6, <2>2 DEF FlightLands, FlightDrops, Lands, history
  <2>6. entered'[d] <= swapped'[d] /\ entered'[d] <= entered[d] + 1 /\ entered'[d] \in Nat
    BY <1>2, <1>4, <2>5
  <2> QED
    BY <1>2, <1>3, <1>4, <2>1, <2>3, <2>4, <2>6
<1>7. CASE RecordTrade
  <2>1. pc' # "swap" /\ UNCHANGED <<entered, swapped, faults, flight>>
    BY <1>7 DEF RecordTrade, Return, NextToken, EndCycle, history, clockVars, wallet
  <2>2. Pending(d)' = 0
    BY <2>1 DEF Pending
  <2> QED
    BY <1>2, <1>3, <1>4, <2>1, <2>2
<1>8. CASE Crash \/ SwapTimesOut
  <2>1. /\ UNCHANGED <<entered, swapped>> /\ faults' = faults + 1 /\ pc' # "swap"
        /\ flight' = flight \/ flight' = Append(flight, job)
    BY <1>8 DEF Crash, SwapTimesOut, EndCycle, Return, NextToken, history
  <2>2. Len(flight') = Len(flight) \/ Len(flight') = Len(flight) + 1
    BY <1>1, <2>1
  <2>3. Pending(d)' = 0
    BY <2>1 DEF Pending
  <2> QED
    BY <1>2, <1>3, <1>4, <2>1, <2>2, <2>3
<1>9. CASE Enter
  <2>1. UNCHANGED <<entered, swapped, faults, flight>> /\ pc = "signal"
    BY <1>9 DEF Enter, history, clockVars, wallet
  <2>2. CASE Pending(d)' = 0
    BY <1>2, <1>3, <1>4, <2>1, <2>2
  <2>3. CASE Pending(d)' # 0
    <3>1. pc' = "swap" /\ d = Day(job'.at)
      BY <2>3 DEF Pending
    <3>2. PICK e : Execute("entry", Tok, Buy(Tok, e))
      BY <1>9 DEF Enter
    <3>3. ~Return("entry")
      BY <3>1 DEF Return, NextToken
    <3>4. trades[Day(now)] < MaxTradesPerDay /\ job'.at = now
      BY <3>2, <3>3 DEF Execute, Approves, Buy
    <3>5. Unrecorded(d) = 0 /\ trades[d] < MaxTradesPerDay
      BY <2>1, <3>1, <3>4 DEF Unrecorded
    <3>6. swapped[d] + Len(flight) <= trades[d] + faults
      BY <1>1, <1>4, <3>5 DEF LossInv
    <3>7. entered[d] + 1 + Len(flight) <= MaxTradesPerDay + faults
      BY <1>2, <1>4, <3>5, <3>6
    <3> QED
      BY <1>2, <1>3, <1>4, <2>1, <3>7
  <2> QED
    BY <2>2, <2>3
<1>10. CASE /\ UNCHANGED <<entered, swapped, faults, flight>>
            /\ \A c \in Days : Pending(c)' <= Pending(c)
  <2>1. Pending(d)' <= Pending(d) /\ Len(flight') = Len(flight)
    BY <1>10
  <2> QED
    BY <1>2, <1>3, <1>4, <1>10, <2>1
<1> QED
  BY <1>5, <1>6, <1>7, <1>8, <1>9, <1>10, PendingFrame

\* Whatever crashes, times out or is misread: each entry of a day above the daily
\* cap has cost a crash or a timeout.
THEOREM EntriesPaidFor == Spec => []EntriesPerFault
<1>1. Init => LossInv /\ EntryInv
  BY LimitAssumption DEF Init, LossInv, EntryInv, Unrecorded, Pending
<1>2. TypeInv /\ EntryInv => EntriesPerFault
  <2> SUFFICES ASSUME TypeInv, EntryInv, NEW d \in Days
               PROVE  entered[d] <= MaxTradesPerDay + faults
    BY DEF EntriesPerFault
  <2>1. entered[d] \in Nat /\ faults \in Nat /\ Len(flight) \in Nat /\ MaxTradesPerDay \in Nat
    BY LimitAssumption DEF TypeInv, WorldType, HistoryType
  <2>2. Pending(d) \in Nat
    BY DEF Pending
  <2> QED
    BY <2>1, <2>2 DEF EntryInv
<1>3. TypeInv /\ LossInv /\ [Next]_vars => LossInv'
  BY LossStep
<1>4. TypeInv /\ LossInv /\ EntryInv /\ [Next]_vars => EntryInv'
  BY EntryStep
<1> QED
  BY <1>1, <1>2, <1>3, <1>4, InitType, StepType, PTL DEF Spec

-----------------------------------------------------------------------------
(* What a fault may cost: bullets over the one *)

\* The turn of the i-th token is still to come, or its snapshot still to be used.
Ahead(i) == (Untouched /\ i >= idx) \/ (Touched /\ i > idx)

\* Every swap pending has cost a fault; an entry buys one bullet; and a token the
\* scan may still enter holds no more than what the faults beyond those may have
\* bought, each of which may land or not.
BulletInv ==
    /\ Len(flight) <= faults
    /\ \A k \in 1 .. Len(flight) : flight[k].kind = "entry" => flight[k].amt = 1
    /\ pc = "swap" /\ job.kind = "entry" => job.amt = 1 /\ seen[Tok] = 0
    /\ \A t \in Token \ misread : held[t] + Len(flight) <= 1 + faults
    /\ \A i \in 1 .. Len(Watchlist) :
          Ahead(i) /\ seen[Watchlist[i]] = 0 /\ Watchlist[i] \notin misread =>
             held[Watchlist[i]] + Len(flight) <= faults

\* Only a snapshot can misread a token.
LEMMA MisreadFrame == ASSUME [Next]_vars PROVE Reconcile \/ misread' = misread
<1> USE DEF history
<1>1. CASE UNCHANGED vars
  BY <1>1 DEF vars
<1>2. CASE BeginCycle \/ Regime \/ DataGate \/ Abort \/ Flatten \/ Comply
  BY <1>2 DEF BeginCycle, Regime, DataGate, Abort, Flatten, FlattenSkip, FlattenSell,
     FlattenDone, Comply, NotDue, ForceTrade
<1>3. CASE Manage \/ Signal
  BY <1>3 DEF Manage, AdoptEntry, StopLoss, AboveStop, Sweep, NotHeld, SkipToken, AdoptPool,
     PoolHolds, PoolDrained, Signal, NoTrade, Enter, SignalExit, ScanDone
<1>4. CASE Swapping \/ Book
  BY <1>4 DEF Swapping, SwapConfirms, Lands, SwapFails, SwapTimesOut, Book, RecordTrade,
     RecordEntry, RecordPool, ClearEntry, StampExit, ClearPool
<1>5. CASE Chain \/ Tick \/ Stop \/ Start \/ Crash
  BY <1>5 DEF Chain, FlightLands, FlightDrops, Lands, Tick, Stop, Start, Crash
<1> QED
  BY <1>1, <1>2, <1>3, <1>4, <1>5 DEF Next, Agent

\* Within a cycle the tokens still to come only get fewer, and their snapshot stays.
LEMMA AheadFrame ==
  ASSUME TypeInv, [Next]_vars
  PROVE  \/ Reconcile
         \/ \A i \in 1 .. Len(Watchlist) : Ahead(i)' => Ahead(i) /\ seen' = seen
<1> USE DEF Ahead, Untouched, Touched, clockVars, wallet, store, locals, history,
            EndCycle, NextToken, Return, Execute
<1>0. /\ idx \in Int
      /\ pc = "scan" => job = NoJob
      /\ pc \in {"swap", "ledger"} => job \in Swap /\ job # NoJob
  BY Numbers, NoJobKind DEF TypeInv, Shape
<1>1. CASE UNCHANGED vars
  BY <1>1 DEF vars
<1>2. CASE BeginCycle \/ Regime \/ DataGate \/ Abort
  BY <1>2 DEF BeginCycle, Regime, DataGate, Abort
<1>3. CASE Flatten
  BY <1>0, <1>3 DEF Flatten, FlattenSkip, FlattenSell, FlattenDone
<1>4. CASE Manage
  BY <1>0, <1>4 DEF Manage, AdoptEntry, StopLoss, AboveStop, Sweep, NotHeld, SkipToken,
     AdoptPool, PoolHolds, PoolDrained, Scanning
<1>5. CASE Signal
  BY <1>0, <1>5 DEF Signal, NoTrade, Enter, SignalExit, ScanDone
<1>6. CASE Comply
  BY <1>6 DEF Comply, NotDue, ForceTrade
<1>7. CASE Swapping
  BY <1>0, <1>7 DEF Swapping, SwapConfirms, SwapFails, SwapTimesOut
<1>8. CASE RecordTrade
  BY <1>0, <1>8 DEF RecordTrade
<1>9. CASE RecordEntry \/ RecordPool \/ ClearEntry \/ StampExit \/ ClearPool
  BY <1>0, <1>9 DEF RecordEntry, RecordPool, ClearEntry, StampExit, ClearPool
<1>10. CASE Chain
  BY <1>10 DEF Chain, FlightLands, FlightDrops
<1>11. CASE Tick \/ Stop \/ Start \/ Crash
  BY <1>11 DEF Tick, Stop, Start, Crash
<1> QED
  BY <1>1, <1>2, <1>3, <1>4, <1>5, <1>6, <1>7, <1>8, <1>9, <1>10, <1>11
     DEF Next, Agent, Book

\* What an entry under way is: the one just let go, or the one from before.
LEMMA BulletSize ==
  ASSUME TypeInv, BulletInv, [Next]_vars, pc' = "swap", job'.kind = "entry"
  PROVE  job'.amt = 1 /\ seen'[Tok'] = 0
<1>1. CASE Enter
  <2>1. PICK e : Execute("entry", Tok, Buy(Tok, e))
    BY <1>1 DEF Enter
  <2>2. ~Return("entry")
    BY <1>1 DEF Return, NextToken
  <2>3. job'.amt = 1 /\ UNCHANGED <<idx, locals>>
    BY <2>1, <2>2 DEF Execute
  <2> QED
    BY <1>1, <2>3 DEF Enter, locals, Tok
<1>2. CASE pc = "swap" /\ UNCHANGED <<job, idx, seen>>
  BY <1>2 DEF BulletInv, Tok
<1> QED
  BY <1>1, <1>2, EntryFrame

\* What is pending grows only by the swap a new fault has cut off.
LEMMA FlightMoves ==
  ASSUME TypeInv, [Next]_vars
  PROVE  \/ UNCHANGED <<flight, faults>>
         \/ flight # <<>> /\ flight' = Tail(flight) /\ faults' = faults
         \/ faults' = faults + 1 /\ flight' = flight
         \/ faults' = faults + 1 /\ flight' = Append(flight, job) /\ pc = "swap"
<1>1. SwapConfirms \/ RecordTrade => UNCHANGED <<flight, faults>>
  BY DEF SwapConfirms, RecordTrade, clockVars, wallet
<1>2. FlightLands \/ FlightDrops => flight # <<>> /\ flight' = Tail(flight) /\ faults' = faults
  BY DEF FlightLands, FlightDrops, clockVars
<1>3. Crash \/ SwapTimesOut =>
        faults' = faults + 1 /\ (flight' = flight \/ (flight' = Append(flight, job) /\ pc = "swap"))
  BY DEF Crash, SwapTimesOut
<1> QED
  BY <1>1, <1>2, <1>3, FaultsFrame

LEMMA FlightDebt ==
  ASSUME TypeInv, [Next]_vars PROVE Len(flight') + faults <= Len(flight) + faults'
<1>1. flight \in Seq(Swap) /\ Len(flight) \in Nat /\ faults \in Nat
  BY DEF TypeInv, WorldType
<1>2. CASE flight # <<>> /\ flight' = Tail(flight) /\ faults' = faults
  <2>1. Len(flight') = Len(flight) - 1
    BY <1>1, <1>2
  <2> QED
    BY <1>1, <1>2, <2>1
<1>3. CASE faults' = faults + 1 /\ flight' = Append(flight, job)
  <2>1. Len(flight') = Len(flight) + 1
    BY <1>1, <1>3
  <2> QED
    BY <1>1, <1>3, <2>1
<1> QED
  BY <1>1, <1>2, <1>3, FlightMoves

LEMMA FlightSizes ==
  ASSUME TypeInv, BulletInv, [Next]_vars
  PROVE  \A k \in 1 .. Len(flight') : flight'[k].kind = "entry" => flight'[k].amt = 1
<1>1. flight \in Seq(Swap) /\ Len(flight) \in Nat
  BY DEF TypeInv, WorldType
<1>2. CASE flight' = flight
  BY <1>2 DEF BulletInv
<1>3. CASE flight # <<>> /\ flight' = Tail(flight)
  <2>1. Len(flight') = Len(flight) - 1 /\ \A k \in 1 .. Len(flight') : flight'[k] = flight[k + 1]
    BY <1>1, <1>3
  <2> QED
    BY <1>1, <1>3, <2>1 DEF BulletInv
<1>4. CASE flight' = Append(flight, job) /\ pc = "swap"
  <2>1. job \in Swap
    BY <1>4 DEF TypeInv, Shape
  <2>2. /\ Len(flight') = Len(flight) + 1 /\ flight'[Len(flight) + 1] = job
        /\ \A k \in 1 .. Len(flight) : flight'[k] = flight[k]
    BY <1>1, <1>4, <2>1
  <2>3. \A k \in 1 .. Len(flight') : k \in 1 .. Len(flight) \/ k = Len(flight) + 1
    BY <1>1, <2>2
  <2> QED
    BY <1>4, <2>2, <2>3 DEF BulletInv
<1> QED
  BY <1>2, <1>3, <1>4, FlightMoves

\* A swap mined late brings one bullet at most, and is pending no more.
LEMMA LandsBullet ==
  ASSUME TypeInv, BulletInv, FlightLands, NEW t \in Token
  PROVE  held'[t] + Len(flight') <= held[t] + Len(flight)
<1>1. /\ flight \in Seq(Swap) /\ Len(flight) \in Nat /\ Len(flight) > 0
      /\ Len(flight') = Len(flight) - 1
      /\ Head(flight) \in Swap /\ Head(flight) = flight[1]
  BY DEF FlightLands, TypeInv, WorldType
<1>2. /\ Head(flight).amt \in Nat /\ held[t] \in Nat
      /\ Head(flight).kind = "entry" => Head(flight).amt = 1
  BY <1>1 DEF Swap, BulletInv, TypeInv, WorldType
<1>3. \/ held'[t] = held[t]
      \/ held'[t] = held[t] + Head(flight).amt /\ Head(flight).kind = "entry"
      \/ held'[t] = held[t] - Head(flight).amt
  BY DEF FlightLands, Lands, Buys, Sells
<1>4. held'[t] <= held[t] + 1 /\ held'[t] \in Int
  BY <1>2, <1>3
<1> QED
  BY <1>1, <1>2, <1>4

\* A confirmed swap brings a bullet only to a token seen without one.
LEMMA ConfirmBullet ==
  ASSUME TypeInv, BulletInv, SwapConfirms, NEW t \in Token
  PROVE  /\ held'[t] <= held[t] \/ (t = Tok /\ (held'[t] <= 1 + faults \/ t \in misread))
         /\ held'[t] \in Int /\ Len(flight) = 0 /\ UNCHANGED <<flight, faults, idx, seen>>
<1>1. /\ pc = "swap" /\ job \in Swap /\ flight = <<>> /\ Lands(job)
      /\ UNCHANGED <<flight, faults, idx, seen>>
  BY DEF SwapConfirms, TypeInv, Shape, clockVars, locals
<1>2. job.amt \in Nat /\ held[t] \in Nat /\ faults \in Nat
  BY <1>1 DEF Swap, TypeInv, WorldType
<1>3. CASE Buys(job, t)
  <2>1. t = Tok /\ job.kind = "entry" /\ job.amt = 1 /\ seen[Tok] = 0 /\ idx \in 1 .. Len(Watchlist)
    BY <1>1, <1>3 DEF Buys, TypeInv, Shape, AtToken, BulletInv
  <2>2. Ahead(idx)
    BY <1>1, <2>1 DEF Ahead, Untouched
  <2>3. t \in misread \/ held[t] + Len(flight) <= faults
    BY <2>1, <2>2 DEF BulletInv, Tok
  <2>4. held'[t] = held[t] + 1
    BY <1>1, <1>3, <2>1 DEF Lands
  <2> QED
    BY <1>1, <1>2, <2>1, <2>3, <2>4
<1>4. CASE ~Buys(job, t)
  <2>1. held'[t] = held[t] \/ held'[t] = held[t] - job.amt
    BY <1>1, <1>4 DEF Lands
  <2> QED
    BY <1>1, <1>2, <2>1
<1> QED
  BY <1>3, <1>4

LEMMA BulletStep == ASSUME TypeInv, BulletInv, [Next]_vars PROVE BulletInv'
<1>0. misread \subseteq misread'
  BY MisreadFrame DEF Reconcile
<1>1. /\ Len(flight) \in Nat /\ faults \in Nat /\ Len(flight') \in Nat /\ faults' \in Nat
      /\ \A t \in Token : held[t] \in Nat /\ held'[t] \in Nat
  BY StepType DEF TypeInv, WorldType
<1>2. /\ Len(flight') + faults <= Len(flight) + faults' /\ Len(flight) <= faults
      /\ \A k \in 1 .. Len(flight') : flight'[k].kind = "entry" => flight'[k].amt = 1
  BY FlightDebt, FlightSizes DEF BulletInv
<1>3. Len(flight') <= faults'
  BY <1>1, <1>2
<1>4. pc' = "swap" /\ job'.kind = "entry" => job'.amt = 1 /\ seen'[Tok'] = 0
  BY BulletSize
<1>5. ASSUME NEW t \in Token \ misread' PROVE held'[t] + Len(flight') <= 1 + faults'
  <2>1. t \in Token \ misread /\ held[t] + Len(flight) <= 1 + faults
    BY <1>0 DEF BulletInv
  <2>2. CASE SwapConfirms
    BY <1>1, <2>1, <2>2, ConfirmBullet
  <2>3. CASE FlightLands
    <3>1. faults' = faults
      BY <2>3 DEF FlightLands, clockVars
    <3> QED
      BY <1>1, <2>1, <2>3, <3>1, LandsBullet
  <2>4. CASE held' = held
    BY <1>1, <1>2, <2>1, <2>4
  <2> QED
    BY <2>2, <2>3, <2>4, WalletFrame DEF Tick, wallet
<1>6. ASSUME NEW i \in 1 .. Len(Watchlist), Ahead(i)', seen'[Watchlist[i]] = 0,
             Watchlist[i] \notin misread'
      PROVE  held'[Watchlist[i]] + Len(flight') <= faults'
  <2> DEFINE t == Watchlist[i]
  <2>1. t \in Token \ misread
    BY <1>0, <1>6, TokType
  <2>2. CASE Reconcile
    <3>1. seen'[t] = held[t] /\ UNCHANGED <<held, flight, faults>>
      BY <1>6, <2>1, <2>2 DEF Reconcile, clockVars, wallet
    <3> QED
      BY <1>1, <1>2, <1>6, <2>1, <3>1
  <2>3. CASE Ahead(i) /\ seen' = seen
    <3>1. held[t] + Len(flight) <= faults
      BY <1>6, <2>1, <2>3 DEF BulletInv
    <3>2. CASE SwapConfirms
      <4>1. i # idx
        BY <1>6, <3>2, Numbers DEF SwapConfirms, Ahead, Untouched, Touched
      <4>2. t # Tok
        <5>1. CASE job.kind = "compliance"
          BY <1>6, <3>2, <5>1 DEF SwapConfirms, Ahead, Untouched, Touched
        <5>2. CASE job.kind # "compliance"
          <6>1. idx \in 1 .. Len(Watchlist)
            BY <3>2, <5>2, Numbers DEF SwapConfirms, AtToken
          <6> QED
            BY <4>1, <6>1, WatchlistAssumption DEF Tok
        <5> QED
          BY <5>1, <5>2
      <4>3. held'[t] <= held[t] /\ UNCHANGED <<flight, faults>>
        BY <2>1, <3>2, <4>2, ConfirmBullet
      <4> QED
        BY <1>1, <2>1, <3>1, <4>3
    <3>3. CASE FlightLands
      <4>1. faults' = faults /\ held'[t] + Len(flight') <= held[t] + Len(flight)
        BY <2>1, <3>3, LandsBullet DEF FlightLands, clockVars
      <4> QED
        BY <1>1, <2>1, <3>1, <4>1
    <3>4. CASE held' = held
      BY <1>1, <1>2, <2>1, <3>1, <3>4
    <3> QED
      BY <3>2, <3>3, <3>4, WalletFrame DEF Tick, wallet
  <2> QED
    BY <1>6, <2>2, <2>3, AheadFrame
<1> QED
  BY <1>2, <1>3, <1>4, <1>5, <1>6 DEF BulletInv

\* Whatever crashes, times out or is misread: each bullet above the one, of a token that
\* was not itself held and read as $0, has cost a crash or a timeout, however late the
\* swaps given up on are mined.
THEOREM BulletsPaidFor == Spec => []BulletsPerFault
<1>1. Init => BulletInv
  BY DEF Init, BulletInv, Nothing, Ahead, Untouched, Touched
<1>2. TypeInv /\ BulletInv => BulletsPerFault
  <2> SUFFICES ASSUME TypeInv, BulletInv, NEW t \in Token \ misread
               PROVE  held[t] <= 1 + faults
    BY DEF BulletsPerFault
  <2>1. held[t] \in Nat /\ Len(flight) \in Nat /\ faults \in Nat
    BY DEF TypeInv, WorldType
  <2> QED
    BY <2>1 DEF BulletInv
<1>3. TypeInv /\ BulletInv /\ [Next]_vars => BulletInv'
  BY BulletStep
<1> QED
  BY <1>1, <1>2, <1>3, InitType, StepType, PTL DEF Spec

-----------------------------------------------------------------------------
(* What a fault may cost: liquidity baselines left behind *)

LEMMA FaultsGrow == ASSUME TypeInv, [Next]_vars PROVE faults' \in {faults, faults + 1}
<1>1. CASE SwapConfirms \/ FlightLands \/ FlightDrops \/ RecordTrade
  BY <1>1 DEF SwapConfirms, FlightLands, FlightDrops, RecordTrade, clockVars
<1>2. CASE Crash \/ SwapTimesOut
  BY <1>2 DEF Crash, SwapTimesOut
<1> QED
  BY <1>1, <1>2, FaultsFrame

\* A baseline without a position on record, other than the one about to be cleared.
Clearing == IF pc \in {"stamp", "unpool"} THEN {Tok} ELSE {}
Abandoned == Orphans \ Clearing

\* A baseline is only written for a position on record.
Backed == pc \in {"sentinel", "baseline"} => entry[Tok]

\* The steps that touch the two records or the way between their saves.
LEMMA RecordsFrame ==
  ASSUME [Next]_vars
  PROVE  \/ Crash \/ AdoptEntry \/ AboveStop \/ AdoptPool \/ RecordEntry \/ RecordPool
         \/ ClearEntry \/ ClearPool
         \/ /\ UNCHANGED <<entry, pool>>
            /\ pc \in {"stamp", "unpool"} => pc' \in {"stamp", "unpool"} /\ idx' = idx
            /\ pc' \in {"sentinel", "baseline"} => pc' = pc /\ idx' = idx
<1> USE DEF clockVars, wallet, store, locals, history, EndCycle, NextToken, Return, Execute
<1>1. CASE UNCHANGED vars
  BY <1>1 DEF vars
<1>2. CASE BeginCycle \/ Reconcile \/ Regime \/ DataGate \/ Abort
  BY <1>2 DEF BeginCycle, Reconcile, Regime, DataGate, Abort
<1>3. CASE Flatten
  BY <1>3 DEF Flatten, FlattenSkip, FlattenSell, FlattenDone
<1>4. CASE StopLoss \/ Sweep \/ NotHeld \/ SkipToken \/ PoolHolds \/ PoolDrained
  BY <1>4 DEF StopLoss, Sweep, NotHeld, SkipToken, PoolHolds, PoolDrained, Scanning
<1>5. CASE Signal
  BY <1>5 DEF Signal, NoTrade, Enter, SignalExit, ScanDone
<1>6. CASE Comply
  BY <1>6 DEF Comply, NotDue, ForceTrade
<1>7. CASE Swapping
  BY <1>7 DEF Swapping, SwapConfirms, SwapFails, SwapTimesOut
<1>8. CASE RecordTrade \/ StampExit
  BY <1>8 DEF RecordTrade, StampExit
<1>9. CASE Chain \/ Tick \/ Stop \/ Start
  BY <1>9 DEF Chain, FlightLands, FlightDrops, Tick, Stop, Start
<1> QED
  BY <1>1, <1>2, <1>3, <1>4, <1>5, <1>6, <1>7, <1>8, <1>9
     DEF Next, Agent, Manage, Book

\* Only a crash leaves a baseline behind, and one at most.
LEMMA RecordsStep ==
  ASSUME TypeInv, Backed, [Next]_vars
  PROVE  /\ Backed'
         /\ Crash \/ Abandoned' \subseteq Abandoned
<1>1. entry \in [Token -> BOOLEAN] /\ pool \in [Token -> BOOLEAN]
  BY DEF TypeInv, StoreType
<1>2. AtToken => Tok \in Token
  BY Numbers
<1> USE DEF Abandoned, Orphans, Clearing, Backed
<1>3. CASE AdoptEntry \/ AboveStop
  <2>1. Tok \in Token
    BY <1>3, TokType DEF AdoptEntry, AboveStop, Scanning, TypeInv, ProcessType, Tok
  <2>2. /\ entry' = [entry EXCEPT ![Tok] = TRUE] \/ (entry' = entry /\ entry[Tok])
        /\ pool' = pool /\ pc = "scan" /\ pc' = "sentinel" /\ Tok' = Tok
    BY <1>3 DEF AdoptEntry, AboveStop, Scanning, store, Tok
  <2> QED
    BY <1>1, <2>1, <2>2
<1>4. CASE AdoptPool \/ RecordPool
  <2>1. Tok \in Token /\ entry[Tok]
    BY <1>2, <1>4 DEF AdoptPool, RecordPool, AtToken
  <2>2. /\ pool' = [pool EXCEPT ![Tok] = TRUE] \/ pool' = pool
        /\ entry' = entry /\ pc \in {"sentinel", "baseline"} /\ pc' \in {"signal", "scan"}
    BY <1>4 DEF AdoptPool, RecordPool, NextToken
  <2> QED
    BY <1>1, <2>1, <2>2
<1>5. CASE RecordEntry
  <2>1. Tok \in Token
    BY <1>2, <1>5 DEF RecordEntry, AtToken
  <2>2. /\ entry' = [entry EXCEPT ![Tok] = TRUE] /\ pool' = pool
        /\ pc = "book" /\ pc' = "baseline" /\ Tok' = Tok
    BY <1>5 DEF RecordEntry, Tok
  <2> QED
    BY <1>1, <2>1, <2>2
<1>6. CASE ClearEntry
  <2>1. /\ entry' = [entry EXCEPT ![Tok] = FALSE] /\ pool' = pool
        /\ pc = "unbook" /\ pc' = "stamp" /\ Tok' = Tok
    BY <1>6 DEF ClearEntry, Tok
  <2> QED
    BY <1>1, <2>1
<1>7. CASE ClearPool
  <2>1. /\ pool' = [pool EXCEPT ![Tok] = FALSE] /\ entry' = entry
        /\ pc = "unpool" /\ pc' \in {"signal", "scan"}
    BY <1>7 DEF ClearPool, NextToken
  <2> QED
    BY <1>1, <2>1
<1>8. CASE /\ UNCHANGED <<entry, pool>>
           /\ pc \in {"stamp", "unpool"} => pc' \in {"stamp", "unpool"} /\ idx' = idx
           /\ pc' \in {"sentinel", "baseline"} => pc' = pc /\ idx' = idx
  BY <1>8 DEF Tok
<1>9. CASE Crash
  BY <1>9 DEF Crash, EndCycle
<1> QED
  BY <1>3, <1>4, <1>5, <1>6, <1>7, <1>8, <1>9, RecordsFrame

\* Unless the process dies between the saves of an exit, no liquidity baseline
\* outlives its position, timeouts and wrong readings included.
THEOREM BaselineOwned ==
  ASSUME "crash" \notin Faults PROVE Spec => []NoOrphanBaseline
<1> DEFINE PoolInv == Abandoned = {} /\ Backed
<1>1. Init => PoolInv
  BY DEF Init, Abandoned, Orphans, Clearing, Backed
<1>2. PoolInv => NoOrphanBaseline
  BY DEF Abandoned, Orphans, Clearing, NoOrphanBaseline
<1>3. TypeInv /\ PoolInv /\ [Next]_vars => PoolInv'
  <2>1. ~Crash
    BY DEF Crash
  <2> QED
    BY <2>1, RecordsStep
<1> QED
  BY <1>1, <1>2, <1>3, InitType, StepType, PTL DEF Spec

\* A watchlist is finite, and with it every set of its tokens.
LEMMA TokensFinite == \A S \in SUBSET Token : IsFiniteSet(S)
<1> DEFINE n == Len(Watchlist)
<1>1. Watchlist \in [1 .. n -> Token] /\ n \in Int /\ Token = {Watchlist[i] : i \in 1 .. n}
  BY WatchlistAssumption DEF Token
<1> HIDE DEF n
<1>2. IsFiniteSet(1 .. n)
  <2>1. 1 \in Int
    OBVIOUS
  <2> QED
    BY <1>1, <2>1, FS_Interval
<1>3. Watchlist \in Surjection(1 .. n, Token)
  BY <1>1 DEF Surjection
<1>4. IsFiniteSet(Token)
  BY <1>2, <1>3, FS_Surjection
<1> QED
  BY <1>4, FS_Subset

LEMMA OrphanStep ==
  ASSUME TypeInv, Backed, Cardinality(Abandoned) <= faults, [Next]_vars
  PROVE  Cardinality(Abandoned') <= faults'
<1>1. /\ Orphans \subseteq Token /\ Orphans' \subseteq Token
      /\ IsFiniteSet(Abandoned) /\ IsFiniteSet(Abandoned')
  <2>1. Orphans \subseteq Token /\ Orphans' \subseteq Token
    BY DEF Orphans
  <2>2. Abandoned \in SUBSET Token /\ Abandoned' \in SUBSET Token
    BY <2>1 DEF Abandoned
  <2> QED
    BY <2>1, <2>2, TokensFinite
<1>2. /\ Cardinality(Abandoned) \in Nat /\ Cardinality(Abandoned') \in Nat
      /\ faults \in Nat
  BY <1>1, FS_CardinalityType DEF TypeInv, WorldType
<1>3. CASE Crash
  <2>1. faults' = faults + 1 /\ Abandoned' \subseteq Abandoned \cup {Tok}
    BY <1>3 DEF Crash, EndCycle, store, Abandoned, Orphans, Clearing
  <2>2. /\ IsFiniteSet(Abandoned \cup {Tok})
        /\ Cardinality(Abandoned \cup {Tok}) <= Cardinality(Abandoned) + 1
    <3>1. /\ IsFiniteSet(Abandoned \cup {Tok})
          /\ Cardinality(Abandoned \cup {Tok}) =
               IF Tok \in Abandoned THEN Cardinality(Abandoned) ELSE Cardinality(Abandoned) + 1
      BY <1>1, FS_AddElement
    <3> QED
      BY <1>2, <3>1
  <2>3. Cardinality(Abandoned') <= Cardinality(Abandoned \cup {Tok})
    BY <2>1, <2>2, FS_Subset
  <2>4. Cardinality(Abandoned \cup {Tok}) \in Nat
    BY <2>2, FS_CardinalityType
  <2> QED
    BY <1>2, <2>1, <2>2, <2>3, <2>4
<1>4. CASE ~Crash
  <2>1. Cardinality(Abandoned') <= Cardinality(Abandoned)
    BY <1>1, <1>4, RecordsStep, FS_Subset
  <2>2. faults' \in Nat /\ faults <= faults'
    BY <1>2, FaultsGrow
  <2> QED
    BY <1>2, <2>1, <2>2
<1> QED
  BY <1>3, <1>4

\* Each crash leaves at most one liquidity baseline behind, whatever the next
\* cycles sell, sweep, adopt and buy again.
THEOREM OrphansPaidFor == Spec => []OrphansPerCrash
<1> DEFINE Count == Cardinality(Abandoned) <= faults
<1>1. Init => Backed /\ Count
  <2> SUFFICES ASSUME Init PROVE Backed /\ Count
    OBVIOUS
  <2>1. Abandoned = {} /\ faults = 0
    BY DEF Init, Abandoned, Orphans, Clearing
  <2>2. Cardinality(Abandoned) = 0
    BY <2>1, FS_EmptySet
  <2> QED
    BY <2>1, <2>2 DEF Init, Backed
<1>2. Count => OrphansPerCrash
  <2> SUFFICES ASSUME Count, pc = "rest" PROVE Cardinality(Orphans) <= faults
    BY DEF OrphansPerCrash
  <2>1. Abandoned = Orphans
    BY DEF Abandoned, Clearing
  <2> QED
    BY <2>1
<1>3. TypeInv /\ Backed /\ Count /\ [Next]_vars => (Backed /\ Count)'
  BY RecordsStep, OrphanStep
<1> QED
  BY <1>1, <1>2, <1>3, InitType, StepType, PTL DEF Spec
-----------------------------------------------------------------------------
(* What a fault may cost: positions without a stop-loss *)

\* Bullets of a token whose turn is to come that its snapshot does not show; a sale
\* that leaves some behind while its exit is booked; an entry about to be booked.
Unshown == {Watchlist[i] : i \in {j \in 1 .. Len(Watchlist) :
               Ahead(j) /\ held[Watchlist[j]] > seen[Watchlist[j]]}}
Leaving == IF pc \in {"ledger", "unbook"} /\ job.kind = "exit" /\ held[Tok] > 0
           THEN {Tok} ELSE {}
Arming == IF pc \in {"ledger", "book"} /\ job.kind = "entry" THEN {Tok} ELSE {}

\* The positions without a cost basis, but for the one about to get it, and those
\* the cycle may yet take it from; each of a token never misread.
Exposed == ((Unarmed \ Arming) \cup Unshown \cup Leaving) \ misread

\* A sale asks for what the snapshot shows, a sweep only happens when it shows nothing.
TurnsSeen ==
    /\ pc = "swap" /\ job.kind = "exit" => job.amt = seen[Tok]
    /\ pc = "unbook" /\ job = NoJob => seen[Tok] = 0

ExposedInv == TurnsSeen /\ Cardinality(Exposed) + Len(flight) <= faults

\* Only the sweep and the record of an exit lead to the three saves of an exit.
LEMMA TurnsStep == ASSUME TypeInv, TurnsSeen, [Next]_vars PROVE TurnsSeen'
<1> USE DEF TurnsSeen, Tok, clockVars, wallet, store, locals, history, EndCycle, NextToken, Return
<1>0. /\ AtToken => Tok \in Token
      /\ Scanning => Tok \in Token
      /\ pc \in {"swap", "ledger"} => job \in Swap /\ job # NoJob
      /\ pc \in {"scan", "signal", "sentinel", "flatten", "comply"} => job = NoJob
  BY Numbers, NoJobKind, TokType DEF TypeInv, Shape, Scanning, ProcessType
<1>1. ASSUME NEW kind \in SwapKind, NEW t, NEW p, Execute(kind, t, p), t = Tok \/ kind # "exit",
             pc \in {"scan", "signal", "sentinel", "flatten", "comply"}, Tok \in Token \/ kind # "exit"
      PROVE  TurnsSeen'
  <2>1. CASE Return(kind)
    BY <2>1
  <2>2. CASE ~Return(kind)
    BY <1>1, <2>2 DEF Execute
  <2> QED
    BY <2>1, <2>2
<1>2. CASE UNCHANGED vars
  BY <1>2 DEF vars
<1>3. CASE BeginCycle \/ Reconcile \/ Regime \/ DataGate \/ Abort
  BY <1>3 DEF BeginCycle, Reconcile, Regime, DataGate, Abort
<1>4. CASE Flatten
  BY <1>1, <1>4 DEF Flatten, FlattenSkip, FlattenSell, FlattenDone, SwapKind
<1>5. CASE StopLoss \/ PoolDrained
  BY <1>0, <1>1, <1>5 DEF StopLoss, PoolDrained, Scanning, AtToken, SwapKind
<1>6. CASE AdoptEntry \/ AboveStop \/ Sweep \/ NotHeld \/ SkipToken \/ AdoptPool \/ PoolHolds
  BY <1>6 DEF AdoptEntry, AboveStop, Sweep, NotHeld, SkipToken, AdoptPool, PoolHolds, Scanning
<1>7. CASE Signal
  <2>1. CASE NoTrade \/ ScanDone
    BY <2>1 DEF NoTrade, ScanDone
  <2>2. CASE Enter
    BY <1>1, <2>2 DEF Enter, SwapKind
  <2>3. CASE SignalExit
    BY <1>0, <1>1, <2>3 DEF SignalExit, AtToken, SwapKind
  <2> QED
    BY <1>7, <2>1, <2>2, <2>3 DEF Signal
<1>8. CASE Comply
  BY <1>1, <1>8 DEF Comply, NotDue, ForceTrade, SwapKind
<1>9. CASE Swapping
  BY <1>9 DEF Swapping, SwapConfirms, SwapFails, SwapTimesOut
<1>10. CASE Book
  BY <1>0, <1>10 DEF Book, RecordTrade, RecordEntry, RecordPool, ClearEntry, StampExit, ClearPool
<1>11. CASE Chain \/ Tick \/ Stop \/ Start \/ Crash
  BY <1>11 DEF Chain, FlightLands, FlightDrops, Tick, Stop, Start, Crash
<1> QED
  BY <1>2, <1>3, <1>4, <1>5, <1>6, <1>7, <1>8, <1>9, <1>10, <1>11 DEF Next, Agent, Manage

\* The steps that touch the wallet, the cost bases or a swap being booked.
LEMMA ExposedFrame ==
  ASSUME TypeInv, [Next]_vars
  PROVE  \/ Reconcile \/ SwapConfirms \/ FlightLands \/ Crash
         \/ RecordTrade \/ RecordEntry \/ ClearEntry \/ AdoptEntry
         \/ UNCHANGED <<held, entry>> /\ Arming' = Arming /\ Leaving' = Leaving
<1> USE DEF clockVars, wallet, store, locals, history, EndCycle, NextToken, Return, Execute,
            Arming, Leaving, Tok
<1>1. CASE UNCHANGED vars
  BY <1>1 DEF vars
<1>2. CASE BeginCycle \/ Regime \/ DataGate \/ Abort
  BY <1>2 DEF BeginCycle, Regime, DataGate, Abort
<1>3. CASE Flatten
  BY <1>3 DEF Flatten, FlattenSkip, FlattenSell, FlattenDone
<1>4. CASE StopLoss \/ AboveStop \/ NotHeld \/ SkipToken \/ AdoptPool \/ PoolHolds \/ PoolDrained
  BY <1>4 DEF StopLoss, AboveStop, NotHeld, SkipToken, AdoptPool, PoolHolds, PoolDrained, Scanning
<1>5. CASE Sweep
  BY <1>5, NoJobKind DEF Sweep, Scanning, TypeInv, Shape
<1>6. CASE Signal
  BY <1>6 DEF Signal, NoTrade, Enter, SignalExit, ScanDone
<1>7. CASE Comply
  BY <1>7 DEF Comply, NotDue, ForceTrade
<1>8. CASE SwapFails \/ SwapTimesOut
  BY <1>8 DEF SwapFails, SwapTimesOut
<1>9. CASE RecordPool \/ StampExit \/ ClearPool
  BY <1>9 DEF RecordPool, StampExit, ClearPool
<1>10. CASE FlightDrops \/ Tick \/ Stop \/ Start
  BY <1>10 DEF FlightDrops, Tick, Stop, Start
<1> QED
  BY <1>1, <1>2, <1>3, <1>4, <1>5, <1>6, <1>7, <1>8, <1>9, <1>10
     DEF Next, Agent, Chain, Manage, Swapping, Book

\* A token is exposed by a swap mined late, by a crash before its record, or was.
LEMMA ExposedTokens ==
  ASSUME TypeInv, TurnsSeen, [Next]_vars
  PROVE  \/ Exposed' \subseteq Exposed
         \/ FlightLands /\ Exposed' \subseteq Exposed \cup {Head(flight).tok}
         \/ Crash /\ pc \in {"ledger", "book"} /\ Exposed' \subseteq Exposed \cup {Tok}
<1>1. /\ entry \in [Token -> BOOLEAN] /\ held \in [Token -> Nat] /\ seen \in [Token -> Nat]
      /\ held' \in [Token -> Nat]
  BY StepType DEF TypeInv, WorldType, StoreType, ProcessType
<1>2. /\ AtToken => idx \in 1 .. Len(Watchlist) /\ Tok \in Token
      /\ \A i \in 1 .. Len(Watchlist) : Watchlist[i] \in Token
      /\ \A i, j \in 1 .. Len(Watchlist) : Watchlist[i] = Watchlist[j] => i = j
  BY Numbers, TokType, WatchlistAssumption
<1>0. Reconcile \/ misread' = misread
  BY MisreadFrame
<1>3. CASE Reconcile
  <2>1. /\ UNCHANGED <<held, entry>> /\ pc = "reconcile" /\ pc' \in {"flatten", "regime"}
        /\ misread' = misread \cup {t \in Token : seen'[t] # held[t]}
    BY <1>3 DEF Reconcile, wallet, store
  <2>2. Leaving' = {} /\ Arming = {} /\ Unarmed' \subseteq Unarmed
    BY <2>1 DEF Leaving, Arming, Unarmed
  <2>3. Unshown' \subseteq misread'
    <3> SUFFICES ASSUME NEW i \in 1 .. Len(Watchlist), held'[Watchlist[i]] > seen'[Watchlist[i]]
                 PROVE  Watchlist[i] \in misread'
      BY DEF Unshown
    <3>1. held[Watchlist[i]] # seen'[Watchlist[i]]
      BY <1>1, <1>2, <2>1
    <3> QED
      BY <1>2, <2>1, <3>1
  <2> QED
    BY <2>1, <2>2, <2>3 DEF Exposed
<1>4. CASE SwapConfirms
  <2>1. /\ pc = "swap" /\ pc' = "ledger" /\ job \in Swap /\ job.kind \in SwapKind /\ Lands(job)
        /\ job.amt \in Nat /\ UNCHANGED <<entry, idx, seen, job, misread>> /\ Tok' = Tok
    BY <1>4, NoJobKind DEF SwapConfirms, Lands, store, locals, TypeInv, Shape, Swap, Tok
  <2>2. Arming = {} /\ Leaving = {}
    BY <2>1 DEF Arming, Leaving
  <2>3. CASE job.kind = "compliance"
    <3>1. held' = held
      BY <1>1, <2>1, <2>3 DEF Lands, Buys, Sells
    <3>2. Unshown' = {} /\ Leaving' = {} /\ Unarmed' = Unarmed
      BY <2>1, <2>3, <3>1 DEF Unshown, Ahead, Untouched, Touched, Leaving, Unarmed
    <3> QED
      BY <2>1, <2>2, <3>2 DEF Exposed
  <2>4. CASE job.kind # "compliance"
    <3>1. Tok \in Token /\ idx \in 1 .. Len(Watchlist) /\ job.tok = Tok
      BY <1>2, <2>1, <2>4 DEF AtToken, TypeInv, Shape
    <3>2. \A t \in Token : t # Tok => held'[t] = held[t]
      BY <2>1, <3>1 DEF Lands, Buys, Sells
    <3>3. \A i \in 1 .. Len(Watchlist) : Ahead(i)' => i # idx /\ Ahead(i) /\ Watchlist[i] # Tok
      BY <1>2, <2>1, <2>4, <3>1 DEF Ahead, Untouched, Touched, Tok
    <3>4. Unshown' \subseteq Unshown /\ Tok \notin Unshown'
      BY <1>2, <2>1, <3>2, <3>3 DEF Unshown
    <3>5. Unarmed' \subseteq Unarmed \cup {Tok}
      BY <2>1, <3>2 DEF Unarmed
    <3>6. CASE job.kind = "entry"
      <4>1. Arming' = {Tok} /\ Leaving' = {}
        BY <2>1, <3>6 DEF Arming, Leaving
      <4> QED
        BY <2>1, <2>2, <3>4, <3>5, <4>1 DEF Exposed
    <3>7. CASE job.kind = "flatten"
      <4>1. held'[Tok] = held[Tok] - job.amt
        BY <2>1, <3>1, <3>7 DEF Lands, Buys, Sells
      <4>2. held'[Tok] > 0 => held[Tok] > 0
        BY <1>1, <2>1, <3>1, <4>1
      <4>3. Leaving' = {} /\ Unarmed' \subseteq Unarmed
        BY <2>1, <3>1, <3>5, <3>7, <4>2 DEF Leaving, Unarmed
      <4> QED
        BY <2>1, <2>2, <3>4, <4>3 DEF Exposed
    <3>8. CASE job.kind = "exit"
      <4>1. held'[Tok] = held[Tok] - seen[Tok]
        BY <2>1, <3>1, <3>8 DEF Lands, Buys, Sells, TurnsSeen
      <4>2. held'[Tok] > 0 => held[Tok] > seen[Tok]
        BY <1>1, <3>1, <4>1
      <4>3. Ahead(idx)
        BY <2>1, <3>1, <3>8 DEF Ahead, Untouched
      <4>4. held'[Tok] > 0 => Tok \in Unshown
        BY <3>1, <4>2, <4>3 DEF Unshown, Tok
      <4>5. Leaving' \subseteq Unshown
        BY <2>1, <4>4 DEF Leaving
      <4>6. Unarmed' \subseteq Unarmed \cup Unshown
        BY <2>1, <3>5, <4>4 DEF Unarmed
      <4> QED
        BY <2>1, <2>2, <3>4, <4>5, <4>6 DEF Exposed
    <3> QED
      BY <2>1, <2>4, <3>6, <3>7, <3>8 DEF SwapKind
  <2> QED
    BY <2>3, <2>4
<1>5. CASE FlightLands
  <2> DEFINE h == Head(flight).tok
  <2>1. /\ UNCHANGED <<entry, pc, idx, seen, job, misread>> /\ Tok' = Tok
        /\ \A t \in Token : t # h => held'[t] = held[t]
    BY <1>5 DEF FlightLands, Lands, Buys, Sells, store, locals, Tok
  <2>2. Arming' = Arming /\ \A i \in 1 .. Len(Watchlist) : Ahead(i)' <=> Ahead(i)
    BY <2>1 DEF Arming, Ahead, Untouched, Touched
  <2>3. Unarmed' \subseteq Unarmed \cup {h}
    BY <2>1 DEF Unarmed
  <2>4. Unshown' \subseteq Unshown \cup {h}
    BY <1>2, <2>1, <2>2 DEF Unshown
  <2>5. Leaving' \subseteq Leaving \cup {h}
    <3>1. pc \in {"ledger", "unbook"} /\ job.kind = "exit" => Tok \in Token
      BY <1>2 DEF AtToken
    <3> QED
      BY <2>1, <3>1 DEF Leaving
  <2> QED
    BY <1>5, <2>1, <2>2, <2>3, <2>4, <2>5 DEF Exposed
<1>6. CASE Crash
  <2>1. /\ pc' = "rest" /\ UNCHANGED <<held, entry, misread>>
    BY <1>6 DEF Crash, EndCycle, store, history
  <2>2. Unshown' = {} /\ Leaving' = {} /\ Unarmed' = Unarmed
    BY <2>1 DEF Unshown, Ahead, Untouched, Touched, Leaving, Unarmed
  <2>3. CASE pc \in {"ledger", "book"}
    BY <1>6, <2>1, <2>2, <2>3 DEF Exposed, Arming
  <2>4. CASE pc \notin {"ledger", "book"}
    <3>1. Arming = {}
      BY <2>4 DEF Arming
    <3> QED
      BY <2>1, <2>2, <3>1 DEF Exposed
  <2> QED
    BY <2>3, <2>4
<1>7. Reconcile \/ Unshown' \subseteq Unshown \/ held' # held
  BY AheadFrame DEF Unshown
<1>8. CASE RecordTrade
  <2>1. pc = "ledger" /\ UNCHANGED <<held, entry>> /\ ~Reconcile
    BY <1>8 DEF RecordTrade, wallet, Reconcile
  <2>2. \/ job.kind = "entry" /\ pc' = "book" /\ UNCHANGED <<idx, job>>
        \/ job.kind = "exit" /\ pc' = "unbook" /\ UNCHANGED <<idx, job>>
        \/ job.kind \in {"flatten", "compliance"} /\ pc' \notin {"ledger", "book", "unbook"}
    BY <1>8 DEF RecordTrade, Return, NextToken, EndCycle, locals
  <2>3. Arming' = Arming /\ Leaving' = Leaving /\ Unarmed' = Unarmed
    BY <1>0, <2>1, <2>2 DEF Arming, Leaving, Unarmed, Tok
  <2> QED
    BY <1>0, <1>7, <2>1, <2>3 DEF Exposed
<1>9. CASE RecordEntry
  <2>1. /\ pc = "book" /\ pc' = "baseline" /\ Tok \in Token /\ held' = held /\ ~Reconcile
        /\ entry' = [entry EXCEPT ![Tok] = TRUE]
    BY <1>2, <1>9 DEF RecordEntry, AtToken, wallet, Reconcile
  <2>2. Unarmed' \subseteq Unarmed /\ Tok \notin Unarmed'
    BY <1>0, <1>1, <2>1 DEF Unarmed
  <2>3. Leaving' = {} /\ Arming \subseteq {Tok}
    BY <2>1 DEF Leaving, Arming
  <2> QED
    BY <1>0, <1>7, <2>1, <2>2, <2>3 DEF Exposed
<1>10. CASE ClearEntry
  <2>1. /\ pc = "unbook" /\ pc' = "stamp" /\ Tok \in Token /\ held' = held /\ ~Reconcile
        /\ idx \in 1 .. Len(Watchlist) /\ entry' = [entry EXCEPT ![Tok] = FALSE]
    BY <1>2, <1>10 DEF ClearEntry, AtToken, wallet, Reconcile
  <2>2. Unarmed' \subseteq Unarmed \cup {Tok} /\ Leaving' = {} /\ Arming = {}
    BY <1>0, <1>1, <2>1 DEF Unarmed, Leaving, Arming
  <2>3. held[Tok] > 0 => Tok \in Unshown \cup Leaving
    <3>1. CASE job = NoJob
      <4>1. seen[Tok] = 0 /\ Ahead(idx)
        BY <2>1, <3>1 DEF TurnsSeen, Ahead, Untouched
      <4> QED
        BY <2>1, <4>1 DEF Unshown, Tok
    <3>2. CASE job # NoJob
      <4>1. job.kind = "exit"
        BY <2>1, <3>2 DEF TypeInv, Shape
      <4> QED
        BY <2>1, <4>1 DEF Leaving
    <3> QED
      BY <3>1, <3>2
  <2>4. Unarmed' \subseteq Unarmed \cup Unshown \cup Leaving
    BY <2>1, <2>2, <2>3 DEF Unarmed
  <2> QED
    BY <1>0, <1>7, <2>1, <2>2, <2>4 DEF Exposed
<1>11. CASE AdoptEntry
  <2>1. /\ pc = "scan" /\ pc' = "sentinel" /\ held' = held /\ ~Reconcile
        /\ entry' = [entry EXCEPT ![Tok] = TRUE]
    BY <1>11 DEF AdoptEntry, Scanning, wallet, Reconcile
  <2>2. Unarmed' \subseteq Unarmed /\ Leaving' = {} /\ Arming = {}
    BY <1>0, <1>1, <2>1 DEF Unarmed, Leaving, Arming
  <2> QED
    BY <1>0, <1>7, <2>1, <2>2 DEF Exposed
<1>12. CASE UNCHANGED <<held, entry>> /\ Arming' = Arming /\ Leaving' = Leaving
  <2>1. Reconcile \/ Unarmed' = Unarmed
    BY <1>0, <1>12 DEF Unarmed
  <2> QED
    BY <1>0, <1>3, <1>7, <1>12, <2>1 DEF Exposed
<1> QED
  BY <1>3, <1>4, <1>5, <1>6, <1>8, <1>9, <1>10, <1>11, <1>12, ExposedFrame

LEMMA ExposedStep == ASSUME TypeInv, ExposedInv, [Next]_vars PROVE ExposedInv'
<1>1. /\ TurnsSeen /\ TurnsSeen'
      /\ Cardinality(Exposed) + Len(flight) <= faults
  BY TurnsStep DEF ExposedInv
<1>2. IsFiniteSet(Exposed) /\ \A t : IsFiniteSet(Exposed \cup {t})
  <2>1. Unarmed \in SUBSET Token /\ Unshown \in SUBSET Token
    BY TokType DEF Unarmed, Unshown
  <2>2. Leaving \in SUBSET Token
    BY Numbers DEF Leaving, AtToken
  <2>3. Exposed \in SUBSET Token
    BY <2>1, <2>2 DEF Exposed
  <2> QED
    BY <2>3, TokensFinite, FS_AddElement
<1>3. /\ Cardinality(Exposed) \in Nat /\ Len(flight) \in Nat /\ faults \in Nat
      /\ Len(flight') \in Nat /\ faults' \in Nat
  BY <1>2, FS_CardinalityType, StepType DEF TypeInv, WorldType
<1>4. Len(flight') + faults <= Len(flight) + faults'
  BY FlightDebt
<1>5. CASE Exposed' \subseteq Exposed
  <2>1. IsFiniteSet(Exposed') /\ Cardinality(Exposed') <= Cardinality(Exposed)
    BY <1>2, <1>5, FS_Subset
  <2>2. Cardinality(Exposed') \in Nat
    BY <2>1, FS_CardinalityType
  <2>3. Cardinality(Exposed') + Len(flight') <= faults'
    BY <1>1, <1>3, <1>4, <2>1, <2>2
  <2> QED
    BY <1>1, <2>3 DEF ExposedInv
<1>6. ASSUME NEW t, Exposed' \subseteq Exposed \cup {t},
             Len(flight') + 1 + faults <= Len(flight) + faults'
      PROVE  ExposedInv'
  <2>1. /\ IsFiniteSet(Exposed \cup {t})
        /\ Cardinality(Exposed \cup {t}) =
             IF t \in Exposed THEN Cardinality(Exposed) ELSE Cardinality(Exposed) + 1
    BY <1>2, FS_AddElement
  <2>2. Cardinality(Exposed \cup {t}) <= Cardinality(Exposed) + 1
    BY <1>3, <2>1
  <2>3. IsFiniteSet(Exposed') /\ Cardinality(Exposed') <= Cardinality(Exposed \cup {t})
    BY <1>6, <2>1, FS_Subset
  <2>4. Cardinality(Exposed') \in Nat /\ Cardinality(Exposed \cup {t}) \in Nat
    BY <2>1, <2>3, FS_CardinalityType
  <2>5. Cardinality(Exposed') + Len(flight') <= faults'
    BY <1>1, <1>3, <1>6, <2>2, <2>3, <2>4
  <2> QED
    BY <1>1, <2>5 DEF ExposedInv
<1>7. FlightLands => Len(flight') + 1 + faults <= Len(flight) + faults'
  <2>1. FlightLands => Len(flight') = Len(flight) - 1 /\ faults' = faults
    BY DEF FlightLands, clockVars, TypeInv, WorldType
  <2> QED
    BY <1>3, <2>1
<1>8. Crash /\ pc \in {"ledger", "book"} => Len(flight') + 1 + faults <= Len(flight) + faults'
  <2>1. Crash /\ pc \in {"ledger", "book"} => flight' = flight /\ faults' = faults + 1
    BY DEF Crash
  <2> QED
    BY <1>3, <2>1
<1> QED
  BY <1>1, <1>5, <1>6, <1>7, <1>8, ExposedTokens

\* Whatever crashes, times out or is misread: each position found without the cost basis
\* of its stop-loss between two cycles, of a token that was not itself held and read as
\* $0, has cost a crash or a timeout.
THEOREM UnarmedPaidFor == Spec => []UnarmedPerFault
<1>1. Init => ExposedInv
  <2> SUFFICES ASSUME Init PROVE ExposedInv
    OBVIOUS
  <2>1. Exposed = {} /\ flight = <<>> /\ faults = 0 /\ TurnsSeen
    BY DEF Init, Exposed, Unarmed, Unshown, Leaving, Ahead, Untouched, Touched, Nothing, TurnsSeen
  <2>2. Cardinality(Exposed) = 0 /\ Len(flight) = 0
    BY <2>1, FS_EmptySet
  <2> QED
    BY <2>1, <2>2 DEF ExposedInv
<1>2. TypeInv /\ ExposedInv => UnarmedPerFault
  <2> SUFFICES ASSUME TypeInv, ExposedInv, pc = "rest" PROVE Cardinality(Unarmed) <= faults
    BY DEF UnarmedPerFault
  <2>1. Exposed = Unarmed
    BY DEF Exposed, Arming, Leaving, Unshown, Unarmed, Ahead, Untouched, Touched
  <2>2. IsFiniteSet(Unarmed)
    BY TokensFinite DEF Unarmed
  <2>3. Cardinality(Unarmed) \in Nat /\ Len(flight) \in Nat /\ faults \in Nat
    BY <2>2, FS_CardinalityType DEF TypeInv, WorldType
  <2> QED
    BY <2>1, <2>3 DEF ExposedInv
<1>3. TypeInv /\ ExposedInv /\ [Next]_vars => ExposedInv'
  BY ExposedStep
<1> QED
  BY <1>1, <1>2, <1>3, InitType, StepType, PTL DEF Spec
=============================================================================
