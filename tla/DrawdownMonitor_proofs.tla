----------------------- MODULE DrawdownMonitor_proofs -----------------------
(***************************************************************************)
(* The hourly snapshots and the drawdown ladder, for every ladder, every   *)
(* set of prices and every fault DrawdownMonitor knows.                    *)
(***************************************************************************)
EXTENDS DrawdownMonitor, TLAPS

\* What is read of a holding is a natural number of dollars.
LEMMA ProductNat ==
    ASSUME NEW a \in Nat, NEW b \in Nat
    PROVE  a * b \in Nat
  OBVIOUS

\* A drawdown that falls short of p percent of a mark falls short of it for
\* every lower mark, because p is at most 100.
LEMMA LowerMark ==
    ASSUME NEW t \in Nat, NEW h \in Nat, NEW m \in Nat, NEW p \in Nat,
           m <= h, p <= 100, ~DrawdownReaches(t, h, p)
    PROVE  ~DrawdownReaches(t, m, p)
  <1>. SUFFICES ASSUME m > 0, (m - t) * 100 >= p * m PROVE FALSE
    BY DEF DrawdownReaches
  <1>. DEFINE d == h - m
  <1>1. d \in Nat /\ h = m + d
    OBVIOUS
  <1>2. (h - t) * 100 < p * h
    BY DEF DrawdownReaches
  <1>. HIDE DEF d
  <1>3. p * h = p * m + p * d
    BY <1>1
  <1>4. p * d <= 100 * d
    BY <1>1
  <1>5. p * m \in Nat /\ p * d \in Nat /\ p * h \in Nat
    BY <1>1, ProductNat
  <1>. QED BY <1>1, <1>2, <1>3, <1>4, <1>5

LEMMA ConstantsNat == /\ Cash \in Nat /\ Coin \in Nat /\ Gas \in Nat
                      /\ Deposit \in Nat /\ MaxTime \in Nat /\ Dust \in Nat
                      /\ Par \in Nat \ {0}
  BY WorldAssumption

LEMMA QuotedNat ==
    ASSUME NEW q \in Quoted, NEW a \in Asset
    PROVE  q[a] \in Prices[a] /\ q[a] \in Nat
  <1>1. q[a] \in Prices[a] /\ Prices[a] \subseteq Nat
    BY WorldAssumption DEF Quoted
  <1>. QED BY <1>1

LEMMA WalletNat == ASSUME TypeOK PROVE Wallet \in [Asset -> Nat]
  <1>1. cash \in Nat /\ coin \in Nat /\ Gas \in Nat
    BY ConstantsNat DEF TypeOK
  <1>2. \A a \in Asset : Wallet[a] \in Nat
    BY <1>1 DEF Wallet, Asset
  <1>. QED BY <1>2 DEF Wallet

LEMMA TrueNat == ASSUME TypeOK PROVE True \in [Asset -> Nat]
  <1>1. ASSUME NEW a \in Asset PROVE Wallet[a] * price[a] \in Nat
    <2>1. Wallet[a] \in Nat /\ price[a] \in Nat
      BY WalletNat, QuotedNat DEF TypeOK
    <2>. QED BY <2>1, ProductNat
  <1>. QED BY <1>1 DEF True

LEMMA WorthNat == TypeOK => Worth \in Nat
  BY TrueNat DEF Worth, Asset

LEMMA TotalNat == TypeOK => Total \in Nat
  BY DEF TypeOK, Total, Asset

LEMMA ReadingsNat ==
    ASSUME TypeOK, Reconcile PROVE value' \in [Asset -> Nat] /\ amount' \in Nat
  <1>1. PICK b \in Balances, q \in Quotes :
           /\ value' = [a \in Asset |-> b[a] * q[a]] /\ amount' = b["COIN"]
    BY DEF Reconcile
  <1>2. b \in [Asset -> Nat]
    <2>1. CASE MayMisread
      <3>1. b \in [Asset -> {0, cash, coin, Gas, Cash, Coin}]
        BY <2>1 DEF Balances
      <3>2. {0, cash, coin, Gas, Cash, Coin} \subseteq Nat
        BY ConstantsNat DEF TypeOK
      <3>. QED BY <3>1, <3>2
    <2>2. CASE ~MayMisread
      BY <2>2, WalletNat DEF Balances
    <2>. QED BY <2>1, <2>2
  <1>3. ASSUME NEW a \in Asset PROVE q[a] \in Nat
    <2>1. price[a] \in Nat
      BY QuotedNat DEF TypeOK
    <2>2. CASE MayMisread
      BY <2>1, <2>2 DEF Quotes
    <2>3. CASE ~MayMisread
      BY <2>1, <2>3 DEF Quotes
    <2>. QED BY <2>2, <2>3
  <1>4. ASSUME NEW a \in Asset PROVE b[a] * q[a] \in Nat
    BY <1>2, <1>3, ProductNat
  <1>. QED BY <1>1, <1>2, <1>4 DEF Asset

LEMMA DivNat == ASSUME NEW a \in Nat, NEW b \in Nat \ {0} PROVE a \div b \in Nat
  OBVIOUS

LEMMA InCashNat == ASSUME TypeOK, NEW n \in Nat PROVE InCash(n) \in Nat
  <1>1. price["COIN"] \in Nat
    BY QuotedNat DEF TypeOK, Asset
  <1>2. n * price["COIN"] \in Nat
    BY <1>1, ProductNat
  <1>. QED BY <1>2, DivNat, ConstantsNat DEF InCash

LEMMA MinedNat ==
    ASSUME TypeOK, NEW s \in Swap, Mined(s)
    PROVE  cash' \in Nat /\ coin' \in Nat
  <1>1. cash \in Nat /\ coin \in Nat /\ s.amount \in Nat /\ InCash(s.amount) \in Nat
    BY InCashNat DEF TypeOK, Swap
  <1>2. CASE s.side = "sell"
    BY <1>1, <1>2 DEF Mined, Covered
  <1>3. CASE s.side # "sell"
    BY <1>1, <1>3 DEF Mined, Covered
  <1>. QED BY <1>2, <1>3

LEMMA AppendTyped ==
    ASSUME NEW S, NEW q \in Seq(S), NEW e \in S PROVE Append(q, e) \in Seq(S)
  OBVIOUS

LEMMA TailTyped ==
    ASSUME NEW S, NEW q \in Seq(S), q # <<>> PROVE Tail(q) \in Seq(S) /\ Head(q) \in S
  OBVIOUS

LEMMA ExecuteNat ==
    ASSUME TypeOK, NEW s \in Swap, Execute(s)
    PROVE  cash' \in Nat /\ coin' \in Nat /\ pending' \in Seq(Swap)
  <1>1. cash \in Nat /\ coin \in Nat /\ pending \in Seq(Swap)
    BY DEF TypeOK
  <1>2. CASE Mined(s) /\ UNCHANGED pending
    BY <1>1, <1>2, MinedNat
  <1>3. CASE UNCHANGED <<cash, coin, pending>>
    BY <1>1, <1>3
  <1>4. CASE pending' = Append(pending, s) /\ UNCHANGED <<cash, coin>>
    BY <1>1, <1>4, AppendTyped
  <1>. QED BY <1>2, <1>3, <1>4 DEF Execute

\* A swap of the cycle is a sale of what was read or the purchase of a coin.
LEMMA SwapTyped ==
    ASSUME TypeOK
    PROVE  SellOff \in Swap /\ [side |-> "buy", amount |-> 1000] \in Swap
  <1>1. amount \in Nat /\ amount * 999 \in Nat
    BY DEF TypeOK
  <1>2. (amount * 999) \div 1000 \in Nat
    BY <1>1, DivNat
  <1>. QED BY <1>2 DEF SellOff, Swap

-----------------------------------------------------------------------------
(* Types *)

LEMMA TypeInit == Init => TypeOK
  <1>. SUFFICES ASSUME Init PROVE TypeOK
    OBVIOUS
  <1>1. snaps \in Seq([ts : Nat, usd : Nat])
    BY DEF Init
  <1>2. pending \in Seq(Swap)
    BY DEF Init
  <1>. QED BY <1>1, <1>2, ConstantsNat DEF Init, TypeOK, NoValue, Ladder, Asset

LEMMA TypeStep == TypeOK /\ [Next]_vars => TypeOK'
  <1>. SUFFICES ASSUME TypeOK, [Next]_vars PROVE TypeOK'
    OBVIOUS
  <1>. USE ConstantsNat DEF TypeOK, wallet, store, reading, history, past
  <1>1. CASE PriceMoves
    <2>1. PICK a \in Asset : \E p \in Prices[a] : price' = [price EXCEPT ![a] = p]
      BY <1>1 DEF PriceMoves
    <2>2. price' \in [Asset -> UNION {Prices[c] : c \in Asset}]
      BY <2>1 DEF Quoted
    <2>3. \A c \in Asset : price'[c] \in Prices[c]
      BY <2>1 DEF Quoted
    <2>. QED BY <1>1, <2>2, <2>3 DEF PriceMoves, Quoted
  <1>15. CASE LateSwap
    <2>1. /\ pending \in Seq(Swap) /\ pending # <<>> /\ pending' = Tail(pending)
          /\ UNCHANGED <<now, price, store, live, pc, startedAt, reading, risk, history>>
      BY <1>15 DEF LateSwap
    <2>2. Head(pending) \in Swap /\ pending' \in Seq(Swap)
      BY <2>1, TailTyped
    <2>3. cash' \in Nat /\ coin' \in Nat
      BY <1>15, <2>2, MinedNat DEF LateSwap
    <2>. QED BY <2>1, <2>2, <2>3
  <1>2. CASE Tick BY <1>2 DEF Tick
  <1>3. CASE Fund BY <1>3 DEF Fund
  <1>4. CASE Start BY <1>4 DEF Start
  <1>5. CASE Stop BY <1>5 DEF Stop
  <1>6. CASE Crash BY <1>6 DEF Crash, Forget, NoValue, Asset, Ladder
  <1>7. CASE Reconcile
    <2>1. value' \in [Asset -> Nat] /\ amount' \in Nat /\ Worth \in Nat
      BY <1>7, ReadingsNat, WorthNat
    <2>2. /\ UNCHANGED <<now, cash, coin, pending, price, baseline, hwm, snaps, live, risk>>
          /\ startedAt' = now /\ pc' = "baseline"
          /\ worth' \in {Worth, 0} /\ peak' \in {Worth, peak, 0}
          /\ firstLive' \in {Worth, firstLive, 0} /\ clean' \in BOOLEAN
          /\ misreads' \in {misreads, misreads + 1} /\ inflated' \in BOOLEAN
      BY <1>7 DEF Reconcile
    <2>. QED BY <2>1, <2>2
  <1>8. CASE SetBaseline BY <1>8, TotalNat DEF SetBaseline
  <1>9. CASE ObservePortfolio BY <1>9, TotalNat DEF ObservePortfolio
  <1>10. CASE RecordSnapshot
    <2>1. startedAt \in Nat /\ Total \in Nat
      BY <1>10, TotalNat DEF RecordSnapshot
    <2>2. snaps' \in Seq([ts : Nat, usd : Nat])
      <3>1. CASE snaps' = snaps
        BY <3>1
      <3>2. CASE snaps' = Append(snaps, [ts |-> startedAt, usd |-> Total])
        <4>1. [ts |-> startedAt, usd |-> Total] \in [ts : Nat, usd : Nat]
          BY <2>1
        <4>. QED BY <3>2, <4>1, AppendTyped
      <3>. QED BY <3>1, <3>2, <1>10 DEF RecordSnapshot
    <2>. QED BY <1>10, <2>2 DEF RecordSnapshot
  <1>11. CASE Climb BY <1>11 DEF Climb, DrawdownState, Ladder
  <1>12. CASE Flatten
    <2>1. cash' \in Nat /\ coin' \in Nat /\ pending' \in Seq(Swap)
      <3>1. CASE Execute(SellOff)
        BY <3>1, SwapTyped, ExecuteNat
      <3>2. CASE UNCHANGED <<cash, coin, pending>>
        BY <3>2
      <3>. QED BY <1>12, <3>1, <3>2 DEF Flatten
    <2>. QED BY <1>12, <2>1 DEF Flatten, EndCycle, Forget, NoValue, Asset, Ladder
  <1>13. CASE Trade
    <2>1. cash' \in Nat /\ coin' \in Nat /\ pending' \in Seq(Swap)
      <3>1. ASSUME NEW s \in Swap, Execute(s)
            PROVE  cash' \in Nat /\ coin' \in Nat /\ pending' \in Seq(Swap)
        BY <3>1, ExecuteNat
      <3>2. CASE UNCHANGED <<cash, coin, pending>>
        BY <3>2
      <3>. QED BY <1>13, <3>1, <3>2, SwapTyped DEF Trade
    <2>. QED BY <1>13, <2>1 DEF Trade, EndCycle, Forget, NoValue, Asset, Ladder
  <1>14. CASE UNCHANGED vars BY <1>14 DEF vars
  <1>. QED
    BY <1>1, <1>2, <1>3, <1>4, <1>5, <1>6, <1>7, <1>8, <1>9, <1>10, <1>11,
       <1>12, <1>13, <1>14, <1>15 DEF Next
-----------------------------------------------------------------------------
(* The ladder and the snapshots *)

LEMMA ElementOf ==
    ASSUME NEW S, NEW q \in Seq(S), NEW i \in DOMAIN q PROVE q[i] \in S
  OBVIOUS

LEMMA SnapNat == ASSUME TypeOK, NEW i \in DOMAIN snaps PROVE snaps[i].usd \in Nat
  <1>1. snaps \in Seq([ts : Nat, usd : Nat])
    BY DEF TypeOK
  <1>2. snaps[i] \in [ts : Nat, usd : Nat]
    BY <1>1, ElementOf
  <1>. QED BY <1>2

\* Once observe_portfolio has run, the mark covers this cycle's value, and a
\* cycle that trades is not past the hard stop measured from the mark.
Marked ==
    /\ pc \in {"snapshot", "ladder", "flatten", "trade"} => Total <= hwm
    /\ pc = "trade" => ~DrawdownReaches(Total, hwm, HardStopPct)

\* The inductive invariant of JudgeCovered.
LadderInv == TypeOK /\ SnapshotsBelowMark /\ Marked

LEMMA LadderInit == Init => LadderInv
  <1>. SUFFICES ASSUME Init PROVE LadderInv
    OBVIOUS
  <1>1. TypeOK
    BY TypeInit
  <1>2. SnapshotsBelowMark /\ Marked
    BY DEF Init, SnapshotsBelowMark, Marked
  <1>. QED BY <1>1, <1>2 DEF LadderInv

LEMMA LadderStep == LadderInv /\ [Next]_vars => LadderInv'
  <1>. SUFFICES ASSUME LadderInv, [Next]_vars PROVE LadderInv'
    OBVIOUS
  <1>1. TypeOK /\ TypeOK' /\ SnapshotsBelowMark /\ Marked
    BY TypeStep DEF LadderInv
  <1>2. Total \in Nat /\ hwm \in Nat /\ hwm' \in Nat
    BY <1>1, TotalNat DEF TypeOK
  <1>3. CASE UNCHANGED <<hwm, snaps, value>> /\ (pc' = pc \/ pc' = "stopped" \/ pc' = "rest")
    BY <1>1, <1>3 DEF LadderInv, SnapshotsBelowMark, Marked, Total, DrawdownReaches
  <1>4. CASE UNCHANGED <<hwm, snaps>> /\ pc' \in {"stopped", "rest", "baseline", "observe"}
    BY <1>1, <1>4 DEF LadderInv, SnapshotsBelowMark, Marked
  <1>5. CASE ObservePortfolio
    <2>1. hwm <= hwm' /\ Total <= hwm' /\ snaps' = snaps /\ value' = value
          /\ pc' = "snapshot"
      BY <1>2, <1>5 DEF ObservePortfolio, reading
    <2>2. SnapshotsBelowMark'
      <3>. SUFFICES ASSUME NEW i \in DOMAIN snaps PROVE snaps[i].usd <= hwm'
        BY <2>1 DEF SnapshotsBelowMark
      <3>1. snaps[i].usd <= hwm /\ snaps[i].usd \in Nat
        BY <1>1, SnapNat DEF SnapshotsBelowMark
      <3>. QED BY <1>2, <2>1, <3>1
    <2>. QED BY <1>1, <2>1, <2>2 DEF LadderInv, Marked, Total
  <1>6. CASE RecordSnapshot
    <2>1. hwm' = hwm /\ value' = value /\ pc = "snapshot" /\ pc' = "ladder"
          /\ Total <= hwm
      BY <1>1, <1>6 DEF RecordSnapshot, Marked, reading
    <2>2. SnapshotsBelowMark'
      <3>1. CASE snaps' = snaps
        BY <1>1, <2>1, <3>1 DEF SnapshotsBelowMark
      <3>2. CASE snaps' = Append(snaps, [ts |-> startedAt, usd |-> Total])
        <4>1. snaps \in Seq([ts : Nat, usd : Nat])
          BY <1>1 DEF TypeOK
        <4>. SUFFICES ASSUME NEW i \in DOMAIN snaps' PROVE snaps'[i].usd <= hwm
          BY <2>1 DEF SnapshotsBelowMark
        <4>2. CASE i = Len(snaps) + 1
          BY <2>1, <3>2, <4>1, <4>2
        <4>3. CASE i \in DOMAIN snaps
          BY <1>1, <3>2, <4>1, <4>3 DEF SnapshotsBelowMark
        <4>. QED BY <3>2, <4>1, <4>2, <4>3
      <3>. QED BY <3>1, <3>2, <1>6 DEF RecordSnapshot
    <2>. QED BY <1>1, <2>1, <2>2 DEF LadderInv, Marked, Total
  <1>7. CASE Climb
    <2>1. hwm' = hwm /\ value' = value /\ snaps' = snaps /\ pc = "ladder"
          /\ pc' \in {"flatten", "trade"}
          /\ (pc' = "trade" => ~DrawdownReaches(Total, hwm, HardStopPct))
      BY <1>7 DEF Climb, DrawdownState, store, reading
    <2>2. Total' = Total
      BY <2>1 DEF Total
    <2>3. DrawdownReaches(Total', hwm', HardStopPct) <=> DrawdownReaches(Total, hwm, HardStopPct)
      BY <2>1, <2>2 DEF DrawdownReaches
    <2>. QED BY <1>1, <2>1, <2>2, <2>3 DEF LadderInv, SnapshotsBelowMark, Marked
  <1>. QED
    BY <1>3, <1>4, <1>5, <1>6, <1>7
    DEF Next, vars, wallet, store, reading, history, PriceMoves, LateSwap, Tick, Fund,
        Start, Stop, Crash, Reconcile, SetBaseline, Flatten, Trade, EndCycle

\* The judge's drawdown is covered: with every fault, ladder and price, a cycle
\* that goes on trading is not past the hard stop measured from any snapshot.
THEOREM JudgeCovered == Spec => []LadderCoversJudge
  <1>1. LadderInv => LadderCoversJudge
    <2>. SUFFICES ASSUME LadderInv, pc = "trade", NEW i \in DOMAIN snaps
                  PROVE ~DrawdownReaches(Total, snaps[i].usd, HardStopPct)
      BY DEF LadderCoversJudge
    <2>1. Total \in Nat /\ hwm \in Nat /\ snaps[i].usd \in Nat /\ snaps[i].usd <= hwm
      BY TotalNat, SnapNat DEF LadderInv, TypeOK, SnapshotsBelowMark
    <2>2. ~DrawdownReaches(Total, hwm, HardStopPct)
      BY DEF LadderInv, Marked
    <2>. QED BY <2>1, <2>2, LowerMark, LadderAssumption
  <1>. QED BY <1>1, LadderInit, LadderStep, PTL DEF Spec

-----------------------------------------------------------------------------
(* What the store remembers is what the wallet was worth *)

\* Every state of the money side is well typed.
THEOREM LadderTyped == Spec => []TypeOK
  BY TypeInit, TypeStep, PTL DEF Spec

Cycling == {"baseline", "observe", "snapshot", "ladder", "flatten", "trade"}

\* As long as nothing was misread or cut off: within a cycle the reading is what
\* the wallet was worth; the mark is the peak once observe_portfolio has run; the
\* baseline is the first live worth, once set_baseline has.
Remembers ==
    /\ pc \in Cycling => Total = worth
    /\ IF pc \in {"baseline", "observe"}
       THEN peak = (IF worth > hwm THEN worth ELSE hwm)
       ELSE hwm = peak
    /\ IF pc = "baseline" /\ baseline = 0 /\ live
       THEN firstLive = worth ELSE baseline = firstLive
    /\ HardStopIsExact

RecallInv == TypeOK /\ (clean => Remembers)

LEMMA RecallInit == Init => RecallInv
  BY TypeInit DEF Init, RecallInv, Remembers, Cycling, HardStopIsExact

\* A right reading adds up to what the wallet is worth.
LEMMA TrueTotal == ASSUME value' = True PROVE Total' = Worth
  BY DEF Total, True, Worth, Asset

\* The ladder's hard stop, said of what is left instead of what is lost.
LEMMA LossIsRest ==
    ASSUME NEW t \in Nat, NEW h \in Nat, NEW p \in Nat
    PROVE  DrawdownReaches(t, h, p) <=> (h > 0 /\ 100 * t <= (100 - p) * h)
  <1>1. (100 - p) * h = 100 * h - p * h
    OBVIOUS
  <1>2. (h - t) * 100 = 100 * h - 100 * t
    OBVIOUS
  <1>3. p * h \in Nat
    BY ProductNat
  <1>. QED BY <1>1, <1>2, <1>3 DEF DrawdownReaches

\* A step that leaves the store, the reading, the process's place and the history.
LEMMA RecallQuiet ==
    ASSUME RecallInv, TypeOK', UNCHANGED <<pc, value, baseline, hwm, worth, peak,
                                           firstLive, clean, live>>
    PROVE  RecallInv'
  BY DEF RecallInv, Remembers, HardStopIsExact, RealLoss, Total

LEMMA RecallStep == RecallInv /\ [Next]_vars => RecallInv'
  <1>. SUFFICES ASSUME RecallInv, [Next]_vars PROVE RecallInv'
    OBVIOUS
  <1>t. TypeOK /\ TypeOK'
    BY TypeStep DEF RecallInv
  <1>0. /\ worth \in Nat /\ peak \in Nat /\ hwm \in Nat /\ baseline \in Nat
        /\ firstLive \in Nat /\ Total \in Nat
    BY <1>t, TotalNat DEF TypeOK
  <1>1. CASE PriceMoves \/ LateSwap \/ Tick \/ Fund \/ UNCHANGED vars
    <2>1. UNCHANGED <<pc, value, baseline, hwm, worth, peak, firstLive, clean, live>>
      BY <1>1 DEF PriceMoves, LateSwap, Tick, Fund, vars, store, reading, history, past
    <2>. QED BY <1>t, <2>1, RecallQuiet
  <1>2. CASE Start \/ Stop
    <2>1. /\ pc \in {"rest", "stopped"} /\ pc' \in {"rest", "stopped"}
          /\ UNCHANGED <<baseline, hwm, worth, peak, firstLive, clean>>
      BY <1>2 DEF Start, Stop, store, history, past
    <2>. QED BY <1>t, <2>1 DEF RecallInv, Remembers, HardStopIsExact, Cycling
  <1>3. CASE Crash
    BY <1>t, <1>3 DEF Crash, RecallInv
  <1>4. CASE Reconcile
    <2>. SUFFICES ASSUME clean' PROVE Remembers'
      BY <1>t DEF RecallInv
    <2>1. Remembers /\ value' = True
      BY <1>4 DEF Reconcile, RecallInv
    <2>2. /\ pc = "rest" /\ pc' = "baseline" /\ worth' = Worth
          /\ UNCHANGED <<baseline, hwm, live>>
          /\ peak' = IF Worth > peak THEN Worth ELSE peak
          /\ firstLive' = IF live /\ firstLive = 0 THEN Worth ELSE firstLive
      BY <1>4 DEF Reconcile, store
    <2>3. Total' = worth'
      BY <2>1, <2>2, TrueTotal
    <2>4. hwm = peak /\ baseline = firstLive
      BY <2>1, <2>2 DEF Remembers
    <2>. QED BY <2>2, <2>3, <2>4 DEF Remembers, HardStopIsExact
  <1>5. CASE SetBaseline
    <2>. SUFFICES ASSUME clean' PROVE Remembers'
      BY <1>t DEF RecallInv
    <2>1. /\ pc = "baseline" /\ pc' = "observe"
          /\ baseline' = (IF baseline = 0 /\ live THEN Total ELSE baseline)
          /\ UNCHANGED <<value, hwm, worth, peak, firstLive, clean>>
      BY <1>5 DEF SetBaseline, reading, history, past
    <2>2. Remembers /\ Total = worth
      BY <2>1 DEF RecallInv, Remembers, Cycling
    <2>3. Total' = Total
      BY <2>1 DEF Total
    <2>4. baseline' = firstLive
      BY <2>1, <2>2 DEF Remembers
    <2>. QED BY <2>1, <2>2, <2>3, <2>4 DEF Remembers, HardStopIsExact
  <1>6. CASE ObservePortfolio
    <2>. SUFFICES ASSUME clean' PROVE Remembers'
      BY <1>t DEF RecallInv
    <2>1. /\ pc = "observe" /\ pc' = "snapshot"
          /\ hwm' = (IF Total > hwm THEN Total ELSE hwm)
          /\ UNCHANGED <<value, baseline, worth, peak, firstLive, clean>>
      BY <1>6 DEF ObservePortfolio, reading, history, past
    <2>2. Remembers /\ Total = worth
      BY <2>1 DEF RecallInv, Remembers, Cycling
    <2>3. Total' = Total
      BY <2>1 DEF Total
    <2>4. hwm' = peak /\ baseline = firstLive
      BY <2>1, <2>2 DEF Remembers
    <2>. QED BY <2>1, <2>2, <2>3, <2>4 DEF Remembers, HardStopIsExact
  <1>7. CASE RecordSnapshot
    <2>1. /\ pc = "snapshot" /\ pc' = "ladder"
          /\ UNCHANGED <<value, baseline, hwm, worth, peak, firstLive, clean, live>>
      BY <1>7 DEF RecordSnapshot, reading, history, past
    <2>2. Total' = Total
      BY <2>1 DEF Total
    <2>. QED BY <1>t, <2>1, <2>2 DEF RecallInv, Remembers, HardStopIsExact, Cycling
  <1>8. CASE Climb
    <2>. SUFFICES ASSUME clean' PROVE Remembers'
      BY <1>t DEF RecallInv
    <2>1. /\ pc = "ladder" /\ pc' \in {"flatten", "trade"}
          /\ UNCHANGED <<value, baseline, hwm, worth, peak, firstLive, clean>>
          /\ pc' = "flatten" <=> DrawdownReaches(Total, hwm, HardStopPct)
      BY <1>8 DEF Climb, DrawdownState, store, reading, history, past
    <2>2. Remembers /\ Total = worth /\ hwm = peak
      BY <2>1 DEF RecallInv, Remembers, Cycling
    <2>3. Total' = Total /\ (RealLoss' <=> RealLoss)
      BY <2>1 DEF Total, RealLoss
    <2>4. DrawdownReaches(Total, hwm, HardStopPct) <=> RealLoss
      BY <1>0, <2>2, LossIsRest, LadderAssumption DEF RealLoss
    <2>. QED BY <2>1, <2>2, <2>3, <2>4 DEF Remembers, HardStopIsExact
  <1>9. CASE Flatten \/ Trade
    <2>1. /\ pc \in {"flatten", "trade"} /\ pc' = "rest"
          /\ UNCHANGED <<baseline, hwm, peak, firstLive, clean>>
      BY <1>9 DEF Flatten, Trade, EndCycle, store, past
    <2>. QED BY <1>t, <2>1 DEF RecallInv, Remembers, HardStopIsExact, Cycling
  <1>. QED
    BY <1>1, <1>2, <1>3, <1>4, <1>5, <1>6, <1>7, <1>8, <1>9 DEF Next

LEMMA Recalled == Spec => []RecallInv
  BY RecallInit, RecallStep, PTL DEF Spec

\* For every ladder, price and deposit: while nothing was misread or cut off the
\* wallet is flattened exactly when its real worth has fallen by the hard stop.
THEOREM HardStopExact == Spec => []HardStopIsExact
  <1>1. RecallInv => HardStopIsExact
    BY DEF RecallInv, Remembers, HardStopIsExact
  <1>. QED BY <1>1, Recalled, PTL

\* Under the same assumption the return baseline is the first live worth, over
\* every restart, dry run, deposit and trade.
THEOREM BaselineFirstLive == Spec => []BaselineIsFirstLive
  <1>1. RecallInv => BaselineIsFirstLive
    BY DEF RecallInv, Remembers, BaselineIsFirstLive
  <1>. QED BY <1>1, Recalled, PTL

-----------------------------------------------------------------------------
(* The hard stop is final *)

\* A cycle that has read the wallet and not yet climbed the ladder.
Reading == pc \in {"baseline", "observe", "snapshot", "ladder"}

\* A sunk wallet, read as it is or as less, is past the hard stop and shows no
\* more than dust of the coin.
Finished ==
    /\ TypeOK
    /\ baseline > 0 /\ Sunk
    /\ Reading => DrawdownReaches(Total, hwm, HardStopPct)
    /\ Reading \/ pc = "flatten" => value["COIN"] <= Dust
    /\ pc # "trade"

\* A mark that is reached from t is reached from all that is worth less.
LEMMA LowerTotal ==
    ASSUME NEW t \in Nat, NEW u \in Nat, NEW h \in Nat, NEW p \in Nat,
           t <= u, DrawdownReaches(u, h, p)
    PROVE  DrawdownReaches(t, h, p)
  <1>1. p * h \in Nat
    BY ProductNat
  <1>. QED BY <1>1 DEF DrawdownReaches

\* A mark that is reached from t lies at or above t.
LEMMA ReachedMark ==
    ASSUME NEW t \in Nat, NEW h \in Nat, NEW p \in Nat, DrawdownReaches(t, h, p)
    PROVE  t <= h
  <1>1. p * h \in Nat
    BY ProductNat
  <1>. QED BY <1>1 DEF DrawdownReaches

\* A sunk wallet is below the hard stop at the quotes of the moment.
LEMMA SunkNow ==
    ASSUME TypeOK, Sunk
    PROVE  True["COIN"] <= Dust /\ DrawdownReaches(Worth, hwm, HardStopPct)
  <1>1. price \in Quoted
    BY DEF TypeOK
  <1>2. /\ coin * price["COIN"] <= Dust
        /\ DrawdownReaches(cash * price["CASH"] + coin * price["COIN"] + Gas * price["BNB"],
                           hwm, HardStopPct)
    BY <1>1 DEF Sunk
  <1>3. /\ True["CASH"] = cash * price["CASH"] /\ True["COIN"] = coin * price["COIN"]
        /\ True["BNB"] = Gas * price["BNB"]
    BY DEF True, Wallet, Asset
  <1>4. Worth = cash * price["CASH"] + coin * price["COIN"] + Gas * price["BNB"]
    BY <1>3 DEF Worth
  <1>. QED BY <1>2, <1>3, <1>4

\* A reading that shows no more than there is finds a sunk wallet sunk.
LEMMA ReadingsBelow ==
    ASSUME TypeOK, Sunk, Reconcile, ~inflated'
    PROVE  value'["COIN"] <= Dust /\ DrawdownReaches(Total', hwm, HardStopPct)
  <1>1. value' \in [Asset -> Nat] /\ True \in [Asset -> Nat] /\ Dust \in Nat
    BY ReadingsNat, TrueNat, ConstantsNat
  <1>2. ASSUME NEW a \in Asset PROVE value'[a] <= True[a]
    <2>1. ~(value'[a] > True[a])
      BY DEF Reconcile
    <2>2. value'[a] \in Nat /\ True[a] \in Nat
      BY <1>1
    <2>. QED BY <2>1, <2>2
  <1>3. /\ value'["CASH"] <= True["CASH"] /\ value'["COIN"] <= True["COIN"]
        /\ value'["BNB"] <= True["BNB"]
    BY <1>2 DEF Asset
  <1>4. /\ {value'["CASH"], value'["COIN"], value'["BNB"]} \subseteq Nat
        /\ {True["CASH"], True["COIN"], True["BNB"]} \subseteq Nat
    BY <1>1 DEF Asset
  <1>5. Total' \in Nat /\ Worth \in Nat /\ Total' <= Worth
    BY <1>3, <1>4 DEF Total, Worth
  <1>6. True["COIN"] <= Dust /\ DrawdownReaches(Worth, hwm, HardStopPct)
    BY SunkNow
  <1>7. DrawdownReaches(Total', hwm, HardStopPct)
    BY <1>5, <1>6, LowerTotal, LadderAssumption DEF TypeOK
  <1>. QED BY <1>1, <1>3, <1>4, <1>6, <1>7

LEMMA FinishedStep == Finished /\ [Next]_vars => Finished' \/ inflated'
  <1>. SUFFICES ASSUME Finished, [Next]_vars, ~inflated' PROVE Finished'
    OBVIOUS
  <1>0. /\ TypeOK /\ TypeOK' /\ baseline > 0 /\ Sunk /\ pc # "trade"
        /\ Total \in Nat /\ hwm \in Nat /\ pending = <<>>
    BY TypeStep, TotalNat DEF Finished, TypeOK, Sunk
  <1>1. ASSUME UNCHANGED <<cash, coin, pending, hwm, baseline>>, pc' # "trade",
               Reading' => DrawdownReaches(Total', hwm, HardStopPct),
               Reading' \/ pc' = "flatten" => value'["COIN"] <= Dust
        PROVE  Finished'
    <2>1. Sunk'
      BY <1>0, <1>1 DEF Sunk, DrawdownReaches
    <2>2. Reading' => DrawdownReaches(Total, hwm, HardStopPct)'
      BY <1>1 DEF DrawdownReaches
    <2>3. baseline' > 0
      BY <1>0, <1>1
    <2>. QED BY <1>0, <1>1, <2>1, <2>2, <2>3 DEF Finished
  <1>2. CASE PriceMoves \/ Tick \/ UNCHANGED vars
    <2>1. UNCHANGED <<cash, coin, pending, hwm, baseline, pc, value>>
      BY <1>2 DEF PriceMoves, Tick, vars, wallet, store, reading
    <2>2. Total' = Total /\ (Reading' <=> Reading)
      BY <2>1 DEF Total, Reading
    <2>. QED BY <1>0, <1>1, <2>1, <2>2 DEF Finished
  <1>3. CASE LateSwap
    BY <1>0, <1>3 DEF LateSwap
  <1>4. CASE Fund
    BY <1>0, <1>4 DEF Fund, TypeOK
  <1>5. CASE Start \/ Stop \/ Crash
    <2>1. /\ UNCHANGED <<cash, coin, pending, hwm, baseline>>
          /\ pc' \in {"rest", "stopped"}
      BY <1>5 DEF Start, Stop, Crash, wallet, store
    <2>. QED BY <1>1, <2>1 DEF Reading
  <1>6. CASE Reconcile
    <2>1. UNCHANGED <<cash, coin, pending, hwm, baseline>> /\ pc' = "baseline"
      BY <1>6 DEF Reconcile, wallet, store
    <2>2. value'["COIN"] <= Dust /\ DrawdownReaches(Total', hwm, HardStopPct)
      BY <1>0, <1>6, ReadingsBelow
    <2>. QED BY <1>1, <2>1, <2>2
  <1>7. CASE SetBaseline \/ ObservePortfolio \/ RecordSnapshot
    <2>1. /\ Reading /\ DrawdownReaches(Total, hwm, HardStopPct)
          /\ value["COIN"] <= Dust
      BY <1>7 DEF Finished, Reading, SetBaseline, ObservePortfolio, RecordSnapshot
    <2>2. Total <= hwm
      BY <1>0, <2>1, ReachedMark, LadderAssumption
    <2>3. /\ UNCHANGED <<cash, coin, pending, value>>
          /\ pc' \in {"observe", "snapshot", "ladder"}
          /\ hwm' \in {hwm, IF Total > hwm THEN Total ELSE hwm}
          /\ baseline' \in {baseline, IF baseline = 0 /\ live THEN Total ELSE baseline}
      BY <1>7 DEF SetBaseline, ObservePortfolio, RecordSnapshot, wallet, reading
    <2>5. ~(Total > hwm) /\ baseline # 0
      BY <1>0, <2>2
    <2>6. UNCHANGED <<hwm, baseline>> /\ pc' # "trade"
      BY <2>3, <2>5
    <2>4. Total' = Total
      BY <2>3 DEF Total
    <2>. QED BY <1>1, <2>1, <2>3, <2>4, <2>6
  <1>8. CASE Climb
    <2>1. DrawdownReaches(Total, hwm, HardStopPct) /\ value["COIN"] <= Dust
      BY <1>8 DEF Finished, Reading, Climb
    <2>2. /\ UNCHANGED <<cash, coin, pending, hwm, baseline, value>>
          /\ pc' = "flatten"
      BY <1>8, <2>1 DEF Climb, DrawdownState, wallet, store, reading
    <2>. QED BY <1>1, <2>1, <2>2 DEF Reading
  <1>9. CASE Flatten
    <2>1. value["COIN"] <= Dust /\ value["COIN"] \in Nat /\ Dust \in Nat
      BY <1>0, <1>9, ConstantsNat DEF Finished, Flatten, TypeOK, Asset
    <2>2. UNCHANGED <<cash, coin, pending, hwm, baseline>> /\ pc' = "rest"
      BY <1>9, <2>1 DEF Flatten, EndCycle, store
    <2>. QED BY <1>1, <2>2 DEF Reading
  <1>10. CASE Trade
    BY <1>0, <1>10 DEF Trade
  <1>. QED
    BY <1>2, <1>3, <1>4, <1>5, <1>6, <1>7, <1>8, <1>9, <1>10 DEF Next

\* No later reading takes back that one has shown too much.
LEMMA InflatedStays == inflated /\ [Next]_vars => inflated'
  BY DEF Next, vars, history, past, PriceMoves, LateSwap, Tick, Fund, Start, Stop,
         Crash, Reconcile, SetBaseline, ObservePortfolio, RecordSnapshot, Climb,
         Flatten, Trade

\* For every ladder, every range of quotes (the stable's own among them) and
\* every fault: once a cycle finds nothing to sell, no swap under way and the
\* wallet sunk, no later cycle trades again until a reading shows more than there is.
THEOREM HardStopIsFinal == Spec => FlatIsFinal
  <1>. DEFINE Found == pc = "flatten" /\ value["COIN"] <= Dust /\ baseline > 0 /\ Sunk
              Over == Finished \/ inflated
  <1>1. TypeOK /\ Found => Over
    BY DEF Finished, Reading
  <1>2. Over => pc # "trade" \/ inflated
    BY DEF Finished
  <1>3. Over /\ [Next]_vars => Over'
    BY FinishedStep, InflatedStays
  <1>. HIDE DEF Over
  <1>4. Over /\ [][Next]_vars => [](pc # "trade" \/ inflated)
    BY <1>2, <1>3, PTL
  <1>5. Spec => [](TypeOK /\ [][Next]_vars)
    BY LadderTyped, PTL DEF Spec
  <1>6. TypeOK /\ [][Next]_vars => (Found => [](pc # "trade" \/ inflated))
    BY <1>1, <1>4, PTL
  <1>7. Spec => [](Found => [](pc # "trade" \/ inflated))
    BY <1>5, <1>6, PTL
  <1>. QED BY <1>7 DEF FlatIsFinal
=============================================================================
