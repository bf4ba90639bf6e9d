------------------------- MODULE PremiumEntry_proofs -------------------------
(***************************************************************************)
(* Payments, retries and churn, for every registry, bound and set of faults *)
(* of PremiumEntry.                                                         *)
(***************************************************************************)
EXTENDS PremiumEntry, FiniteSetTheorems, WellFoundedInduction, SequenceTheorems, TLAPS

-----------------------------------------------------------------------------
(* Spending *)

\* Lines of spends that are in the file or about to be.
Spent == lines + (IF pc = "spend" THEN 1 ELSE 0)

\* Half a line at the end of the file is one more line a fault has still to take.
Owed == IF half = TRUE THEN 1 ELSE 0

SpendInv ==
    /\ paid \in Nat /\ free \in Nat /\ lines \in Nat /\ faults \in Nat
    /\ Spent <= paid + free
    /\ paid + free + Owed <= Spent + 2 * faults

LEMMA SpendInit == Init => SpendInv
  <1>. SUFFICES ASSUME Init PROVE SpendInv
    OBVIOUS
  <1>1. Owed = 0
    BY DEF Init, Owed
  <1>2. paid = 0 /\ free = 0 /\ lines = 0 /\ faults = 0 /\ pc = "idle"
    BY DEF Init
  <1>. QED BY <1>1, <1>2 DEF SpendInv, Spent

\* Steps that touch neither the money nor the place in the tie-break.
LEMMA SpendKept ==
    ASSUME SpendInv, UNCHANGED money,
           pc' # "spend", pc # "spend"
    PROVE  SpendInv'
  <1>1. Owed' = Owed
    BY DEF money, Owed
  <1>. QED BY <1>1 DEF SpendInv, Spent, money

LEMMA SpendSame ==
    ASSUME SpendInv, UNCHANGED money, pc' = pc
    PROVE  SpendInv'
  <1>1. Owed' = Owed
    BY DEF money, Owed
  <1>. QED BY <1>1 DEF SpendInv, Spent, money

LEMMA SpendPay ==
    ASSUME SpendInv, NEW outcome \in {"answered", "free", "refused", "lost"},
           Pay(outcome)
    PROVE  SpendInv'
  <1>1. Owed' = Owed /\ lines' = lines /\ pc = "paying"
    BY DEF Pay, Owed
  <1>2. Owed \in Nat
    BY DEF Owed
  <1>3. \/ paid' = paid + 1 /\ free' = free /\ faults' = faults /\ pc' = "spend"
        \/ paid' = paid /\ free' = free + 1 /\ faults' = faults /\ pc' = "spend"
        \/ paid' = paid /\ free' = free /\ faults' = faults /\ pc' # "spend"
        \/ paid' = paid + 1 /\ free' = free /\ faults' = faults + 1 /\ pc' # "spend"
    BY DEF Pay, Booked
  <1>. QED BY <1>1, <1>2, <1>3 DEF SpendInv, Spent

LEMMA SpendRecorded ==
    ASSUME SpendInv, RecordSpend
    PROVE  SpendInv'
  <1>1. paid' = paid /\ free' = free /\ pc = "spend" /\ pc' = "verdict"
    BY DEF RecordSpend
  <1>2. Owed \in 0 .. 1 /\ Owed' \in 0 .. 1
    BY DEF Owed
  <1>3. \/ Owed' = 0 /\ faults' = faults /\ lines' + Owed = lines + 1
        \/ faults' = faults + 1 /\ lines' = lines
    <2>1. CASE lines' = InRows /\ half' = FALSE /\ UNCHANGED faults
      <3>1. lines' + Owed = lines + 1
        BY <2>1 DEF InRows, Owed, SpendInv
      <3>. QED BY <2>1, <3>1 DEF Owed
    <2>2. CASE faults' = faults + 1 /\ UNCHANGED lines
      BY <2>2
    <2>. QED BY <2>1, <2>2 DEF RecordSpend
  <1>4. /\ paid \in Nat /\ free \in Nat /\ lines \in Nat /\ faults \in Nat
        /\ lines + 1 <= paid + free
        /\ paid + free + Owed <= lines + 1 + 2 * faults
    BY <1>1 DEF SpendInv, Spent
  <1>5. lines' = lines \/ lines' = lines + 1
    BY DEF RecordSpend, InRows
  <1>6. lines' <= paid + free /\ paid + free + Owed' <= lines' + 2 * faults'
    BY <1>2, <1>3, <1>4, <1>5
  <1>7. Spent' = lines' + 0
    BY <1>1 DEF Spent
  <1>. QED BY <1>1, <1>3, <1>4, <1>5, <1>6, <1>7 DEF SpendInv

LEMMA SpendNext ==
    ASSUME SpendInv, [Next]_vars
    PROVE  SpendInv'
  <1>1. CASE NewData
    BY <1>1, SpendKept DEF NewData
  <1>2. CASE SellSignal \/ BuySignal
    BY <1>2, SpendKept DEF SellSignal, BuySignal, Propose
  <1>3. CASE GreyZoneSignal
    BY <1>3, SpendKept DEF GreyZoneSignal
  <1>4. ASSUME NEW outcome \in {"answered", "free", "refused", "lost"}, Pay(outcome)
        PROVE  SpendInv'
    BY <1>4, SpendPay
  <1>5. CASE RecordSpend
    BY <1>5, SpendRecorded
  <1>6. ASSUME NEW answer \in Answers, Verdict(answer)
        PROVE  SpendInv'
    BY <1>6, SpendKept DEF Verdict, Propose
  <1>7. CASE SwapMined
    BY <1>7, SpendKept DEF SwapMined
  <1>8. ASSUME NEW error \in CliErrors, CliSwapFails(error)
        PROVE  SpendInv'
    BY <1>8, SpendKept DEF CliSwapFails, AttemptFails
  <1>9. ASSUME NEW error \in RestErrors, RestSwapFails(error)
        PROVE  SpendInv'
    BY <1>9, SpendKept DEF RestSwapFails, AttemptFails
  <1>10. ASSUME NEW f \in flight, LateSwap(f)
         PROVE  SpendInv'
    BY <1>10, SpendSame DEF LateSwap
  <1>11. CASE ComplianceSwap
    BY <1>11, SpendKept DEF ComplianceSwap
  <1>12. CASE UNCHANGED vars
    BY <1>12, SpendSame DEF vars
  <1>. QED
    BY <1>1, <1>2, <1>3, <1>4, <1>5, <1>6, <1>7, <1>8, <1>9, <1>10, <1>11, <1>12
       DEF Next

\* A report counts no more spends than the seller answered calls, the free ones
\* included, and a fault hides two of them at most, however many there are
\* (mcp_paid_call, record_spend, summarize).
THEOREM SpendsReported == Spec => []SpendsOnRecord
  <1>1. SpendInv => SpendsOnRecord
    <2>. SUFFICES ASSUME SpendInv PROVE SpendsOnRecord
      OBVIOUS
    <2>1. Owed \in Nat
      BY DEF Owed
    <2>. QED BY <2>1 DEF SpendInv, Spent, SpendsOnRecord
  <1>. QED BY SpendInit, SpendNext, <1>1, PTL DEF Spec

-----------------------------------------------------------------------------
(* Retries *)

Side == {"none", "buy", "sell"}
How == {"signal", "premium", "past"}
Calls == [side : Side, how : How, again : BOOLEAN]

Flights == [id : Ids, side : Side, how : How, again : BOOLEAN]

SwapType ==
    /\ calls \in 0 .. MaxCalls
    /\ mined \in [Ids -> Nat]
    /\ call \in Calls
    /\ flight \subseteq Flights
    /\ misled \subseteq Ids

\* The swaps of call c given up on at its first attempt, or at its second, of which
\* there is one at most.
First(c) == IF \E f \in flight : f.id = c /\ f.again = FALSE THEN 1 ELSE 0
Again(c) == IF \E f \in flight : f.id = c /\ f.again = TRUE THEN 1 ELSE 0

\* The swaps of call c that are mined or may yet be.
Load(c) == mined[c] + First(c) + Again(c)

\* A call has two swaps only if it was misled, and none before it is made; the call
\* at hand has none of the attempt it is at.
SwapInv ==
    /\ SwapType
    /\ \A f, g \in flight : f.id = g.id /\ f.again = g.again => f = g
    /\ \A c \in Ids : /\ Load(c) <= 2 /\ (c \notin misled => Load(c) <= 1)
                      /\ c > calls => Load(c) = 0 /\ c \notin misled
    /\ pc = "swap" => /\ calls \in Ids
                      /\ Load(calls) = 0 \/ (call.again /\ calls \in misled /\ Load(calls) = 1)
                      /\ Again(calls) = 0
                      /\ ~call.again => calls \notin misled

LEMMA CallsNat == MaxCalls \in Nat
  BY EntryAssumption

LEMMA SwapInit == Init => SwapInv
  <1>. SUFFICES ASSUME Init PROVE SwapInv
    OBVIOUS
  <1>1. SwapType /\ pc # "swap" /\ misled = {} /\ flight = {}
    BY CallsNat DEF Init, SwapType, NoCall, Side, How, Calls, Ids, Flights
  <1>2. \A c \in Ids : mined[c] = 0 /\ First(c) = 0 /\ Again(c) = 0
    BY DEF Init, First, Again, Ids
  <1>. QED BY <1>1, <1>2 DEF SwapInv, Load

LEMMA LoadRange ==
    ASSUME SwapType, NEW c \in Ids
    PROVE  /\ First(c) \in 0 .. 1 /\ Again(c) \in 0 .. 1
           /\ mined[c] \in Nat /\ Load(c) \in Nat
           /\ Load(c) = mined[c] + First(c) + Again(c)
  BY DEF SwapType, First, Again, Load

\* What leaves calls, swaps and their outcomes alone keeps the invariant, if the
\* call at hand is the same or is over.
LEMMA SwapKept ==
    ASSUME SwapInv, UNCHANGED <<calls, mined, flight, misled>>,
           pc' = "swap" => pc = "swap" /\ call'.again = call.again,
           call' \in Calls
    PROVE  SwapInv'
  <1>1. \A c \in Ids : Load(c)' = Load(c) /\ Again(c)' = Again(c)
    BY DEF Load, First, Again
  <1>2. pc' = "swap" => calls \in Ids
    BY DEF SwapInv
  <1>. QED BY <1>1, <1>2 DEF SwapInv, SwapType

LEMMA SwapProposed ==
    ASSUME SwapInv, NEW s \in Side, NEW h \in How, Propose(s, h), UNCHANGED report
    PROVE  SwapInv'
  <1>1. calls' = calls + 1 /\ calls' \in Ids /\ UNCHANGED <<flight, mined, misled>>
        /\ pc' = "swap" /\ call' \in Calls
    BY CallsNat DEF Propose, SwapInv, SwapType, Ids, Calls
  <1>2. \A c \in Ids : Load(c)' = Load(c) /\ Again(c)' = Again(c)
    BY <1>1 DEF Load, First, Again
  <1>3. calls' > calls /\ \A c \in Ids : c > calls' => c > calls
    BY <1>1 DEF SwapInv, SwapType, Ids
  <1>4. Load(calls') = 0 /\ calls' \notin misled
    BY <1>1, <1>3 DEF SwapInv
  <1>5. Again(calls') = 0
    BY <1>1, <1>4, LoadRange DEF Load, SwapInv
  <1>6. Load(calls)' = Load(calls') /\ Again(calls)' = Again(calls')
    BY <1>1 DEF Load, First, Again
  <1>7. SwapType'
    BY <1>1, CallsNat DEF SwapInv, SwapType, Ids
  <1>. QED BY <1>1, <1>2, <1>3, <1>4, <1>5, <1>6, <1>7 DEF SwapInv

LEMMA SwapAged ==
    ASSUME SwapInv, NewData
    PROVE  SwapInv'
  <1>. DEFINE Old(g) == [g EXCEPT !.how = "past"]
  <1>1. flight' = {Old(g) : g \in flight}
    BY DEF NewData
  <1>2. \A g \in flight : /\ Old(g).id = g.id /\ Old(g).again = g.again
                          /\ Old(g) \in Flights
    BY DEF SwapInv, SwapType, Flights, How
  <1>. HIDE DEF Old
  <1>3. UNCHANGED <<calls, mined, misled, call>> /\ pc' # "swap"
    BY DEF NewData
  <1>4. \A c \in Ids : Again(c)' = Again(c) /\ First(c)' = First(c)
    BY <1>1, <1>2 DEF First, Again
  <1>5. \A c \in Ids : Load(c)' = Load(c)
    BY <1>3, <1>4 DEF Load
  <1>6. SwapType'
    BY <1>1, <1>2, <1>3 DEF SwapInv, SwapType
  <1>7. \A f, g \in flight' : f.id = g.id /\ f.again = g.again => f = g
    BY <1>1, <1>2 DEF SwapInv
  <1>. QED BY <1>3, <1>5, <1>6, <1>7 DEF SwapInv

\* Settle books one swap of one call at most.
LEMMA SettleOnce ==
    ASSUME SwapInv, NEW c \in Ids, NEW s, NEW h, Settle(c, s, h)
    PROVE  /\ mined' \in [Ids -> Nat]
           /\ mined'[c] <= mined[c] + 1
           /\ \A d \in Ids \ {c} : mined'[d] = mined[d]
  BY DEF Settle, SwapInv, SwapType

LEMMA SwapSettled ==
    ASSUME SwapInv, SwapMined
    PROVE  SwapInv'
  <1>1. calls \in Ids /\ UNCHANGED <<calls, flight, misled>> /\ pc' # "swap" /\ call' \in Calls
    BY DEF SwapInv, SwapMined, NoCall, Side, How, Calls
  <1>2. /\ mined' \in [Ids -> Nat]
        /\ mined'[calls] <= mined[calls] + 1
        /\ \A d \in Ids \ {calls} : mined'[d] = mined[d]
    BY <1>1, SettleOnce DEF SwapMined
  <1>3. \A c \in Ids : Again(c)' = Again(c) /\ First(c)' = First(c)
    BY <1>1 DEF First, Again
  <1>4. \A c \in Ids : c # calls => Load(c)' = Load(c)
    BY <1>2, <1>3 DEF Load
  <1>5. Load(calls)' <= Load(calls) + 1 /\ Load(calls) \in Nat
    <2>1. Load(calls)' = mined'[calls] + First(calls) + Again(calls)
      BY <1>1, <1>3 DEF Load
    <2>2. mined'[calls] \in Nat
      BY <1>1, <1>2
    <2>. QED BY <1>1, <1>2, <2>1, <2>2, LoadRange DEF Load, SwapInv
  <1>6. Load(calls) = 0 \/ (calls \in misled /\ Load(calls) = 1)
    BY DEF SwapInv, SwapMined
  <1>7. ASSUME NEW c \in Ids
        PROVE  /\ Load(c)' <= 2 /\ (c \notin misled => Load(c)' <= 1)
               /\ c > calls => Load(c)' = 0 /\ c \notin misled
    <2>0. Load(c)' \in Nat
      BY <1>2, <1>3, LoadRange DEF Load, SwapInv
    <2>1. CASE c = calls
      <3>1. Load(c)' <= Load(calls) + 1
        BY <1>1, <1>5, <2>1 DEF Load, First, Again
      <3>2. ~(c > calls)
        BY <1>1, <2>1, CallsNat DEF Ids
      <3>. QED BY <1>5, <1>6, <2>0, <2>1, <3>1, <3>2
    <2>2. CASE c # calls
      BY <1>4, <2>2 DEF SwapInv
    <2>. QED BY <2>1, <2>2
  <1>8. SwapType'
    BY <1>1, <1>2 DEF SwapInv, SwapType
  <1>. QED BY <1>1, <1>7, <1>8 DEF SwapInv

\* A second attempt is at most the second swap of its call, and the first is under
\* way by then only if the call was misled.
LEMMA SwapFailed ==
    ASSUME SwapInv, NEW error, error.phrase \in BOOLEAN, pc = "swap", AttemptFails(error)
    PROVE  SwapInv'
  <1>. DEFINE new == [id |-> calls, side |-> call.side, how |-> call.how, again |-> call.again]
              retried == Retries(error) /\ ~call.again
  <1>1. UNCHANGED <<calls, mined>> /\ calls \in Ids /\ call.again \in BOOLEAN
        /\ new \in Flights /\ new.id = calls /\ new.again = call.again
    BY DEF AttemptFails, SwapInv, SwapType, Calls, Flights
  <1>2. call' \in Calls /\ (pc' = "swap" => retried /\ call'.again = TRUE)
    <2>1. CASE retried
      <3>1. call' = [call EXCEPT !.again = TRUE] /\ call \in Calls
        BY <2>1 DEF AttemptFails, SwapInv, SwapType
      <3>. QED BY <2>1, <3>1 DEF Calls
    <2>2. CASE ~retried
      <3>1. call' = NoCall /\ pc' = "idle"
        BY <2>2 DEF AttemptFails
      <3>. QED BY <3>1 DEF NoCall, Calls, Side, How
    <2>. QED BY <2>1, <2>2
  <1>3. CASE UNCHANGED <<flight, misled>>
    <2>1. \A c \in Ids : Load(c)' = Load(c) /\ Again(c)' = Again(c)
      BY <1>1, <1>3 DEF Load, First, Again
    <2>2. Load(calls)' = Load(calls) /\ Again(calls)' = Again(calls)
      BY <1>1, <1>3 DEF Load, First, Again
    <2>. QED BY <1>1, <1>2, <1>3, <2>1, <2>2 DEF SwapInv, SwapType
  <1>4. CASE /\ flight' = flight \cup {new}
             /\ misled' = IF retried THEN misled \cup {calls} ELSE misled
    <2>1. (call.again = FALSE => First(calls) = 0) /\ Again(calls) = 0
      <3>1. Load(calls) = 0 => First(calls) = 0 /\ Again(calls) = 0
        BY <1>1, LoadRange DEF Load, SwapInv
      <3>. QED BY <1>1, <3>1 DEF SwapInv
    <2>2. \A f \in flight : ~(f.id = calls /\ f.again = call.again)
      BY <2>1 DEF First, Again
    <2>3. \A c \in Ids : c # calls => /\ Again(c)' = Again(c)
                                      /\ First(c)' = First(c)
      BY <1>1, <1>4 DEF First, Again
    <2>4. \A c \in Ids : c # calls => Load(c)' = Load(c)
      BY <1>1, <2>3 DEF Load
    <2>5. Load(calls)' = Load(calls) + 1 /\ (~call.again => Again(calls)' = 0)
      <3>1. CASE call.again
        <4>1. Again(calls)' = 1 /\ First(calls)' = First(calls)
          BY <1>1, <1>4, <3>1 DEF First, Again
        <4>. QED BY <1>1, <2>1, <3>1, <4>1, LoadRange DEF Load, SwapInv
      <3>2. CASE ~call.again
        <4>1. First(calls)' = 1 /\ Again(calls)' = Again(calls)
          BY <1>1, <1>4, <3>2 DEF First, Again
        <4>2. First(calls) = 0
          BY <1>1, <2>1, <3>2
        <4>. QED BY <1>1, <2>1, <4>1, <4>2, LoadRange DEF Load, SwapInv
      <3>. QED BY <3>1, <3>2
    <2>6. /\ Load(calls) = 0 \/ (call.again /\ calls \in misled /\ Load(calls) = 1)
          /\ ~call.again => Load(calls) = 0
      BY DEF SwapInv
    <2>7. ASSUME NEW c \in Ids
          PROVE  /\ Load(c)' <= 2 /\ (c \notin misled' => Load(c)' <= 1)
                 /\ c > calls => Load(c)' = 0 /\ c \notin misled'
      <3>1. CASE c = calls
        <4>1. Load(c)' = Load(calls) + 1
          BY <1>1, <2>5, <3>1 DEF Load, First, Again
        <4>2. ~(c > calls)
          BY <1>1, <3>1, CallsNat DEF Ids
        <4>. QED BY <1>4, <2>6, <3>1, <4>1, <4>2
      <3>2. CASE c # calls
        BY <1>4, <2>4, <3>2 DEF SwapInv
      <3>. QED BY <3>1, <3>2
    <2>8. \A f, g \in flight' : f.id = g.id /\ f.again = g.again => f = g
      BY <1>1, <1>4, <2>2 DEF SwapInv
    <2>9. pc' = "swap" => /\ call'.again = TRUE /\ calls' \in misled' /\ Load(calls)' = 1
                          /\ Again(calls)' = 0
      BY <1>1, <1>2, <1>4, <2>5, <2>6
    <2>10. SwapType'
      BY <1>1, <1>2, <1>4 DEF SwapInv, SwapType
    <2>. HIDE DEF new, retried
    <2>. QED BY <1>1, <2>7, <2>8, <2>9, <2>10 DEF SwapInv
  <1>. QED BY <1>3, <1>4 DEF AttemptFails, Retries

LEMMA SwapLate ==
    ASSUME SwapInv, NEW f \in flight, LateSwap(f)
    PROVE  SwapInv'
  <1>1. /\ f.id \in Ids /\ f.again \in BOOLEAN
        /\ f.again = FALSE => First(f.id) = 1
        /\ f.again = TRUE => Again(f.id) = 1
    BY DEF SwapInv, SwapType, First, Again, Flights
  <1>2. flight' = flight \ {f} /\ UNCHANGED <<calls, call, pc, misled>>
    BY DEF LateSwap
  <1>3. /\ f.again = FALSE => First(f.id)' = 0
        /\ f.again = TRUE => Again(f.id)' = 0
    BY <1>2 DEF SwapInv, First, Again
  <1>4. \A c \in Ids : Again(c)' <= Again(c) /\ First(c)' <= First(c)
    BY <1>2 DEF First, Again
  <1>5. /\ mined' \in [Ids -> Nat]
        /\ mined'[f.id] <= mined[f.id] + 1
        /\ \A d \in Ids \ {f.id} : mined'[d] = mined[d]
    <2>1. CASE Settle(f.id, f.side, f.how)
      BY <1>1, <2>1, SettleOnce
    <2>2. CASE UNCHANGED mined
      BY <1>1, <2>2 DEF SwapInv, SwapType
    <2>. QED BY <2>1, <2>2 DEF LateSwap
  <1>6. ASSUME NEW c \in Ids PROVE Load(c)' <= Load(c) /\ Load(c)' \in Nat
    <2>0. /\ First(c) \in 0 .. 1 /\ Again(c) \in 0 .. 1 /\ mined[c] \in Nat
          /\ First(c)' \in 0 .. 1 /\ Again(c)' \in 0 .. 1 /\ mined'[c] \in Nat
      <3>1. /\ First(c) \in 0 .. 1 /\ Again(c) \in 0 .. 1
            /\ First(c)' \in 0 .. 1 /\ Again(c)' \in 0 .. 1
        BY DEF First, Again
      <3>2. mined[c] \in Nat
        BY DEF SwapInv, SwapType
      <3>3. mined'[c] \in Nat
        BY <1>5
      <3>. QED BY <3>1, <3>2, <3>3
    <2>1. CASE c = f.id
      <3>1. mined'[c] <= mined[c] + 1
        BY <1>5, <2>1
      <3>2. CASE f.again = TRUE
        <4>1. Again(c) = 1 /\ Again(c)' = 0
          BY <1>1, <1>3, <2>1, <3>2 DEF Again
        <4>. QED BY <1>4, <2>0, <3>1, <4>1 DEF Load
      <3>3. CASE f.again = FALSE
        <4>1. First(c) = 1 /\ First(c)' = 0
          BY <1>1, <1>3, <2>1, <3>3 DEF First
        <4>. QED BY <1>4, <2>0, <3>1, <4>1 DEF Load
      <3>. QED BY <1>1, <3>2, <3>3
    <2>2. CASE c # f.id
      <3>1. mined'[c] = mined[c]
        BY <1>5, <2>2
      <3>. QED BY <1>4, <2>0, <3>1 DEF Load
    <2>. QED BY <2>1, <2>2
  <1>7. SwapType'
    BY <1>2, <1>5 DEF SwapInv, SwapType
  <1>8. ASSUME NEW c \in Ids
        PROVE  /\ Load(c)' <= 2 /\ (c \notin misled => Load(c)' <= 1)
               /\ c > calls => Load(c)' = 0 /\ c \notin misled
    <2>1. Load(c) \in Nat
      BY LoadRange DEF SwapInv
    <2>. QED BY <1>6, <2>1 DEF SwapInv
  <1>9. pc = "swap" =>
          /\ Load(calls)' = 0 \/ (call.again /\ calls \in misled /\ Load(calls)' = 1)
          /\ Again(calls)' = 0
    <2>. SUFFICES ASSUME pc = "swap" PROVE
          /\ Load(calls)' = 0 \/ (call.again /\ calls \in misled /\ Load(calls)' = 1)
          /\ Again(calls)' = 0
      OBVIOUS
    <2>1. calls \in Ids /\ Again(calls) = 0
          /\ (Load(calls) = 0 \/ (call.again /\ calls \in misled /\ Load(calls) = 1))
      BY DEF SwapInv
    <2>2. PICK c \in Ids : c = calls
      BY <2>1
    <2>3. Load(c)' <= Load(c) /\ Load(c)' \in Nat /\ Again(c)' <= Again(c)
          /\ Again(c)' \in 0 .. 1
      BY <1>4, <1>6 DEF First, Again
    <2>4. Load(c)' = Load(calls)' /\ Again(c)' = Again(calls)'
          /\ Load(c) = Load(calls) /\ Again(c) = Again(calls)
      BY <1>2, <2>2 DEF Load, First, Again
    <2>. QED BY <2>1, <2>3, <2>4
  <1>. QED BY <1>2, <1>7, <1>8, <1>9 DEF SwapInv

LEMMA SwapNext ==
    ASSUME SwapInv, [Next]_vars
    PROVE  SwapInv'
  <1>1. CASE NewData
    BY <1>1, SwapAged
  <1>2. CASE SellSignal \/ BuySignal
    BY <1>2, SwapProposed DEF SellSignal, BuySignal, Side, How
  <1>3. CASE GreyZoneSignal
    BY <1>3, SwapKept DEF GreyZoneSignal, twak, SwapInv, SwapType
  <1>4. ASSUME NEW outcome \in {"answered", "free", "refused", "lost"}, Pay(outcome)
        PROVE  SwapInv'
    BY <1>4, SwapKept DEF Pay, twak, SwapInv, SwapType
  <1>5. CASE RecordSpend
    BY <1>5, SwapKept DEF RecordSpend, twak, SwapInv, SwapType
  <1>6. ASSUME NEW answer \in Answers, Verdict(answer)
        PROVE  SwapInv'
    <2>1. CASE Propose("buy", "premium")
      BY <1>6, <2>1, SwapProposed DEF Verdict, Side, How
    <2>2. CASE pc' = "idle" /\ UNCHANGED twak
      BY <2>2, SwapKept DEF twak, SwapInv, SwapType
    <2>. QED BY <1>6, <2>1, <2>2 DEF Verdict
  <1>7. CASE SwapMined
    BY <1>7, SwapSettled
  <1>8. ASSUME NEW error \in CliErrors, CliSwapFails(error)
        PROVE  SwapInv'
    <2>1. error.phrase \in BOOLEAN
      BY <1>8 DEF CliErrors
    <2>. QED BY <1>8, <2>1, SwapFailed DEF CliSwapFails
  <1>9. ASSUME NEW error \in RestErrors, RestSwapFails(error)
        PROVE  SwapInv'
    <2>0. error.phrase \in BOOLEAN /\ pc = "swap"
      BY <1>9 DEF RestErrors, RestSwapFails
    <2>1. CASE AttemptFails(error)
      BY <2>0, <2>1, SwapFailed
    <2>2. CASE pc' = "idle" /\ call' = NoCall /\ UNCHANGED <<calls, flight, mined, misled>>
      BY <2>2, SwapKept DEF NoCall, Calls, Side, How
    <2>. QED BY <1>9, <2>1, <2>2 DEF RestSwapFails
  <1>10. ASSUME NEW f \in flight, LateSwap(f)
         PROVE  SwapInv'
    BY <1>10, SwapLate
  <1>11. CASE ComplianceSwap
    BY <1>11, SwapKept DEF ComplianceSwap, twak, SwapInv, SwapType
  <1>12. CASE UNCHANGED vars
    BY <1>12, SwapKept DEF vars, twak, SwapInv, SwapType
  <1>. QED
    BY <1>1, <1>2, <1>3, <1>4, <1>5, <1>6, <1>7, <1>8, <1>9, <1>10, <1>11, <1>12
       DEF Next

\* A swap call mines two swaps at most, and two only if its first failure named an
\* approval race while its swap was under way, whichever transport made the call,
\* whatever was lost and however late it is mined (swap, _is_approval_race).
THEOREM RetriesSafe == Spec => []SwapsPerCall
  <1>1. SwapInv => SwapsPerCall
    <2>. SUFFICES ASSUME SwapInv, NEW c \in Ids
                  PROVE  mined[c] <= 2 /\ (mined[c] = 2 => c \in misled)
      BY DEF SwapsPerCall
    <2>1. mined[c] <= Load(c) /\ mined[c] \in Nat /\ Load(c) \in Nat
      BY LoadRange DEF Load, SwapInv
    <2>. QED BY <2>1 DEF SwapInv
  <1>. QED BY SwapInit, SwapNext, <1>1, PTL DEF Spec

-----------------------------------------------------------------------------
(* Churn *)

\* The entry of a strategy and its exit never hold for the same reading.
\* ("reclaim" may leave at a high RSI it may also enter at.)
Apart(strategy, r) ==
    ~(/\ Evaluate(strategy, r, FALSE).action = "buy"
      /\ Evaluate(strategy, r, TRUE).action = "sell")

LEMMA TrendApart ==
    ASSUME NEW r \in Readings
    PROVE  Apart("trend", r)
  <1>. SUFFICES ASSUME Trend(r, FALSE).action = "buy", Trend(r, TRUE).action = "sell"
                PROVE  FALSE
    BY DEF Apart, Evaluate
  <1>1. Met(r) = 4
    BY DEF Trend, Buy, GreyZone, Hold, Signal
  <1>2. \A i \in 1 .. 4 : Conditions(r)[i]
    <2>. DEFINE S == {i \in 1 .. 4 : Conditions(r)[i]}
    <2>1. IsFiniteSet(1 .. 4) /\ Cardinality(1 .. 4) = 4
      <3>1. IsFiniteSet(1 .. 4) /\ Cardinality(1 .. 4) = IF 1 > 4 THEN 0 ELSE 4 - 1 + 1
        <4>1. 1 \in Int /\ 4 \in Int
          OBVIOUS
        <4>. QED BY <4>1, FS_Interval, Zenon
      <3>. QED BY <3>1
    <2>2. S \subseteq 1 .. 4 /\ Cardinality(S) = Cardinality(1 .. 4)
      BY <1>1, <2>1 DEF Met
    <2>3. S = 1 .. 4
      BY <2>1, <2>2, FS_Subset
    <2>. QED BY <2>3
  <1>3. r.bull /\ r.px > r.slow /\ r.rsi < 70
    <2>1. Conditions(r)[2] /\ Conditions(r)[3] /\ Conditions(r)[4]
      BY <1>2
    <2>2. Conditions(r)[2] = r.bull
      BY DEF Conditions
    <2>3. Conditions(r)[3] = (r.px > r.slow)
      BY DEF Conditions
    <2>4. Conditions(r)[4] = (r.rsi < 70)
      BY DEF Conditions
    <2>. QED BY <2>1, <2>2, <2>3, <2>4, Zenon
  <1>4. r.px <= r.slow \/ r.rsi >= 80 \/ ~r.bull
    BY <1>1 DEF Trend, Buy, GreyZone, Hold, Sell, Signal
  <1>5. r.px \in Int /\ r.slow \in Int /\ r.rsi \in Int
    BY DEF Readings, Ranks, RsiLevels
  <1>. QED BY <1>3, <1>4, <1>5

LEMMA OthersApart ==
    ASSUME NEW r \in Readings,
           NEW strategy \in {"bounce", "mean_reversion", "momentum"}
    PROVE  Apart(strategy, r)
  <1>1. r.px \in Int /\ r.fast \in Int /\ r.slow \in Int /\ r.rsi \in Int
    BY DEF Readings, Ranks, RsiLevels
  <1>2. r.breakout => r.px > r.fast
    BY DEF Readings, Coherent
  <1>3. CASE strategy = "bounce"
    BY <1>1, <1>3 DEF Apart, Evaluate, Bounce, Decide, Buy, Sell, Hold, Signal
  <1>4. CASE strategy = "mean_reversion"
    BY <1>1, <1>4 DEF Apart, Evaluate, MeanReversion, Decide, Buy, Sell, Hold, Signal
  <1>5. CASE strategy = "momentum"
    BY <1>1, <1>2, <1>5 DEF Apart, Evaluate, Momentum, Decide, Buy, Sell, Hold, Signal
  <1>. QED BY <1>3, <1>4, <1>5

\* The run's registry, for a theorem about any that leaves "reclaim" out.
NoReclaim == "reclaim" \notin Registry

LEMMA OutlooksApart ==
    ASSUME NoReclaim, NEW strategy \in Registry, NEW o \in Outlooks(strategy)
    PROVE  ~(o.flat.action = "buy" /\ o.held.action = "sell")
  <1>1. CASE o = [flat |-> Hold, held |-> Hold]
    BY <1>1 DEF Hold, Signal
  <1>2. ASSUME NEW r \in Readings, o = Outlook(strategy, r)
        PROVE  ~(o.flat.action = "buy" /\ o.held.action = "sell")
    <2>1. Apart(strategy, r)
      BY TrendApart, OthersApart, EntryAssumption DEF NoReclaim, Plugins
    <2>. QED BY <1>2, <2>1 DEF Apart, Outlook
  <1>. QED BY <1>1, <1>2 DEF Outlooks

\* Whatever "signal" is written on, the data at hand gave the buy signal.
ChurnInv ==
    /\ <<active, look>> \in Says
    /\ by = "signal" => look.flat.action = "buy"
    /\ \A f \in flight : f.how = "signal" /\ f.side = "buy" => look.flat.action = "buy"
    /\ pc = "swap" /\ call.side = "buy" /\ call.how = "signal" => look.flat.action = "buy"
    /\ pc = "swap" /\ call.side = "sell" => look.held.action = "sell"

LEMMA SaysApart ==
    ASSUME NoReclaim, <<active, look>> \in Says
    PROVE  ~(look.flat.action = "buy" /\ look.held.action = "sell")
  <1>1. PICK s \in Registry : <<active, look>> \in {<<s, o>> : o \in Outlooks(s)}
    BY DEF Says
  <1>2. look \in Outlooks(s)
    BY <1>1
  <1>. QED BY <1>2, OutlooksApart

LEMMA ChurnInit == Init => ChurnInv
  <1>. SUFFICES ASSUME Init PROVE ChurnInv
    OBVIOUS
  <1>1. PICK s \in Says : active = s[1] /\ look = s[2]
    BY DEF Init
  <1>2. s = <<s[1], s[2]>>
    BY DEF Says
  <1>. QED BY <1>1, <1>2 DEF Init, ChurnInv

\* Steps between which the data, the position and the swaps stay as they are.
LEMMA ChurnKept ==
    ASSUME ChurnInv, UNCHANGED <<data, by, flight>>,
           pc' = "swap" => pc = "swap" /\ call'.side = call.side /\ call'.how = call.how
    PROVE  ChurnInv'
  BY DEF ChurnInv, data

LEMMA ChurnSettled ==
    ASSUME ChurnInv, NEW c, NEW s, NEW h, Settle(c, s, h), UNCHANGED data,
           h = "signal" /\ s = "buy" => look.flat.action = "buy"
    PROVE  by' = "signal" => look'.flat.action = "buy"
  BY DEF Settle, ChurnInv, data

LEMMA ChurnMined ==
    ASSUME ChurnInv, SwapMined
    PROVE  ChurnInv'
  <1>1. UNCHANGED data /\ UNCHANGED flight /\ pc = "swap" /\ pc' = "idle"
    BY DEF SwapMined
  <1>2. by' = "signal" => look'.flat.action = "buy"
    BY <1>1, ChurnSettled DEF SwapMined, ChurnInv
  <1>. QED BY <1>1, <1>2 DEF ChurnInv, data

LEMMA ChurnFailed ==
    ASSUME SwapType, ChurnInv, NEW error, pc = "swap", AttemptFails(error)
    PROVE  ChurnInv'
  <1>1. UNCHANGED <<data, by>>
    BY DEF AttemptFails, wallet
  <1>2. \A f \in flight' : f \in flight \/ f = [id |-> calls, side |-> call.side,
                                                how |-> call.how, again |-> call.again]
    BY DEF AttemptFails
  <1>3. (call'.side = call.side /\ call'.how = call.how) \/ pc' = "idle"
    <2>1. call' = [call EXCEPT !.again = TRUE] \/ pc' = "idle"
      BY DEF AttemptFails
    <2>. QED BY <2>1 DEF SwapType, Calls
  <1>. QED BY <1>1, <1>2, <1>3 DEF ChurnInv, data

LEMMA ChurnLate ==
    ASSUME ChurnInv, NEW f \in flight, LateSwap(f)
    PROVE  ChurnInv'
  <1>1. UNCHANGED <<data, call, pc>> /\ flight' \subseteq flight
    BY DEF LateSwap
  <1>2. by' = "signal" => look'.flat.action = "buy"
    <2>1. CASE Settle(f.id, f.side, f.how)
      BY <1>1, <2>1, ChurnSettled DEF ChurnInv
    <2>2. CASE UNCHANGED wallet
      BY <1>1, <2>2 DEF wallet, ChurnInv, data
    <2>. QED BY <2>1, <2>2 DEF LateSwap
  <1>. QED BY <1>1, <1>2 DEF ChurnInv, data

LEMMA ChurnNext ==
    ASSUME SwapInv, ChurnInv, [Next]_vars
    PROVE  ChurnInv'
  <1>1. CASE NewData
    <2>1. <<active, look>>' \in Says
      <3>1. PICK s \in Says : active = s[1] /\ look' = s[2]
        BY <1>1 DEF NewData
      <3>2. s = <<s[1], s[2]>>
        BY DEF Says
      <3>. QED BY <1>1, <3>1, <3>2 DEF NewData
    <2>2. \A f \in flight' : f.how # "signal"
      BY <1>1 DEF NewData, SwapInv, SwapType, Flights
    <2>. QED BY <1>1, <2>1, <2>2 DEF NewData, ChurnInv
  <1>2. CASE SellSignal
    BY <1>2 DEF SellSignal, Propose, ChurnInv, data, wallet
  <1>3. CASE BuySignal
    BY <1>3 DEF BuySignal, Propose, ChurnInv, data, wallet
  <1>4. CASE GreyZoneSignal
    BY <1>4, ChurnKept DEF GreyZoneSignal, twak, wallet
  <1>5. ASSUME NEW outcome \in {"answered", "free", "refused", "lost"}, Pay(outcome)
        PROVE  ChurnInv'
    BY <1>5, ChurnKept DEF Pay, twak, wallet
  <1>6. CASE RecordSpend
    BY <1>6, ChurnKept DEF RecordSpend, twak, wallet
  <1>7. ASSUME NEW answer \in Answers, Verdict(answer)
        PROVE  ChurnInv'
    <2>1. CASE Propose("buy", "premium")
      BY <1>7, <2>1 DEF Verdict, Propose, ChurnInv, data, wallet
    <2>2. CASE pc' = "idle" /\ UNCHANGED twak
      BY <1>7, <2>2, ChurnKept DEF Verdict, twak, wallet
    <2>. QED BY <1>7, <2>1, <2>2 DEF Verdict
  <1>8. CASE SwapMined
    BY <1>8, ChurnMined
  <1>9. ASSUME NEW error \in CliErrors, CliSwapFails(error)
        PROVE  ChurnInv'
    BY <1>9, ChurnFailed DEF CliSwapFails, SwapInv
  <1>10. ASSUME NEW error \in RestErrors, RestSwapFails(error)
         PROVE  ChurnInv'
    <2>1. CASE AttemptFails(error)
      BY <1>10, <2>1, ChurnFailed DEF RestSwapFails, SwapInv
    <2>2. CASE pc' = "idle" /\ UNCHANGED <<data, wallet, flight>>
      BY <2>2, ChurnKept DEF wallet
    <2>. QED BY <1>10, <2>1, <2>2 DEF RestSwapFails
  <1>11. ASSUME NEW f \in flight, LateSwap(f)
         PROVE  ChurnInv'
    BY <1>11, ChurnLate
  <1>12. CASE ComplianceSwap
    BY <1>12, ChurnKept DEF ComplianceSwap, twak, wallet
  <1>13. CASE UNCHANGED vars
    BY <1>13, ChurnKept DEF vars, twak, wallet
  <1>. QED
    BY <1>1, <1>2, <1>3, <1>4, <1>5, <1>6, <1>7, <1>8, <1>9, <1>10, <1>11, <1>12, <1>13
       DEF Next

\* With every strategy but "reclaim", a position a signal opened is not sold by a
\* signal on the same data, swaps given up on and mined late included (evaluate of
\* the strategies, _trade_watchlist).
THEOREM NoRoundTripOnOneReading ==
    ASSUME NoReclaim
    PROVE  Spec => []NoChurn
  <1>1. ChurnInv => NoChurn
    BY SaysApart DEF ChurnInv, NoChurn
  <1>. QED BY SwapInit, SwapNext, ChurnInit, ChurnNext, <1>1, PTL DEF Spec

-----------------------------------------------------------------------------
(* Folds *)

\* A set of natural numbers that is not empty has a least element: what stands in
\* for induction here, as a least counterexample.
LEMMA LeastNumber ==
    ASSUME NEW T \in SUBSET Nat, NEW n \in T
    PROVE  \E m \in T : \A k \in T : m <= k
  <1>. DEFINE S == 0 .. n
              Below(m) == {k \in S : k <= m}
              U == {Below(m) : m \in T \cap S}
  <1>1. IsFiniteSet(S) /\ U \subseteq FiniteSubsetsOf(S) /\ U # {}
    <2>1. IsFiniteSet(S) /\ n \in S
      BY FS_Interval
    <2>2. \A m : IsFiniteSet(Below(m))
      BY <2>1, FS_Subset
    <2>. QED BY <2>1, <2>2 DEF FiniteSubsetsOf
  <1>2. PICK b \in U : \A c \in U : <<c, b>> \notin StrictSubsetOrdering(S)
    <2>. HIDE DEF U
    <2>. QED BY <1>1, FS_StrictSubsetOrderingWellFounded, WFMin
  <1>3. PICK m \in T \cap S : b = Below(m)
    OBVIOUS
  <1>4. ASSUME NEW k \in T, k < m PROVE FALSE
    <2>1. k \in S /\ Below(k) \subseteq Below(m) /\ m \in Below(m) /\ m \notin Below(k)
      BY <1>4
    <2>2. <<Below(k), Below(m)>> \in StrictSubsetOrdering(S)
      BY <2>1 DEF StrictSubsetOrdering
    <2>. QED BY <1>2, <1>3, <2>1, <2>2
  <1>. QED BY <1>3, <1>4

LEMMA MaxOfInterval ==
    ASSUME NEW n \in Nat, NEW s \in SUBSET (1 .. n), s # {}
    PROVE  Max(s) \in s /\ \A i \in s : i <= Max(s)
  <1>. DEFINE T == {m \in Nat : \A i \in s : i <= m}
  <1>1. PICK m \in T : \A k \in T : m <= k
    <2>1. n \in T /\ T \in SUBSET Nat
      OBVIOUS
    <2>. HIDE DEF T
    <2>. QED BY <2>1, LeastNumber
  <1>2. m \in s
    <2>. SUFFICES ASSUME m \notin s PROVE FALSE
      OBVIOUS
    <2>0. \A i \in s : i \in Nat \ {0} /\ i <= m /\ i # m
      BY <1>1
    <2>1. m \in Nat /\ \E i \in s : i \in Nat \ {0} /\ i <= m
      BY <1>1, <2>0
    <2>2. m - 1 \in Nat /\ \A i \in s : i <= m - 1
      BY <2>0, <2>1
    <2>. QED BY <1>1, <2>1, <2>2
  <1>3. \E x \in s : \A y \in s : x >= y
    BY <1>1, <1>2
  <1>. QED BY <1>3 DEF Max

\* What build_digest has paired so far, as a fold and as the table of that fold
\* over every set of positions in the log.
Base == [open |-> <<>>, trips |-> {}]
Pairing(seq) == FoldLeft(Pair, Base, seq)
Body(g, seq, s) == IF s = {} THEN Base ELSE Pair(g[s \ {Max(s)}], seq[Max(s)])
Table(seq) == CHOOSE g : g = [s \in SUBSET DOMAIN seq |-> Body(g, seq, s)]

LEMMA PairingByTable == \A seq : Pairing(seq) = Table(seq)[DOMAIN seq]
  BY DEF Pairing, FoldLeft, MapThenFoldSet, Table, Body

LEMMA TableExists ==
    ASSUME NEW seq, NEW n \in Nat
    PROVE  \E g : g = [s \in SUBSET (1 .. n) |-> Body(g, seq, s)]
  <1>. DEFINE T == {m \in Nat : ~\E g : g = [s \in SUBSET (1 .. m) |-> Body(g, seq, s)]}
  <1>. SUFFICES ASSUME n \in T PROVE FALSE
    OBVIOUS
  <1>1. PICK m \in T : \A k \in T : m <= k
    <2>1. T \in SUBSET Nat
      OBVIOUS
    <2>. HIDE DEF T
    <2>. QED BY <2>1, LeastNumber
  <1>2. m # 0
    <2>. SUFFICES ASSUME m = 0 PROVE FALSE
      OBVIOUS
    <2>1. SUBSET (1 .. m) = {{}}
      OBVIOUS
    <2>. DEFINE g == [s \in SUBSET (1 .. m) |-> Base]
    <2>2. g = [s \in SUBSET (1 .. m) |-> Body(g, seq, s)]
      BY <2>1 DEF Body
    <2>. QED BY <2>2
  <1>3. m - 1 \in Nat /\ m - 1 \notin T
    <2>1. m \in Nat
      BY <1>1
    <2>2. m - 1 \in Nat /\ ~(m <= m - 1)
      BY <1>2, <2>1
    <2>. QED BY <1>1, <2>2
  <1>4. PICK g : g = [s \in SUBSET (1 .. m - 1) |-> Body(g, seq, s)]
    BY <1>3
  <1>. DEFINE h == [s \in SUBSET (1 .. m) |-> Body(g, seq, s)]
  <1>5. ASSUME NEW s \in SUBSET (1 .. m) PROVE h[s] = Body(h, seq, s)
    <2>. SUFFICES ASSUME s # {} PROVE h[s] = Body(h, seq, s)
      BY DEF Body
    <2>1. Max(s) \in s /\ \A i \in s : i <= Max(s)
      BY MaxOfInterval
    <2>2. s \ {Max(s)} \in SUBSET (1 .. m - 1)
      <3>1. \A i \in s \ {Max(s)} : i \in 1 .. m /\ i <= Max(s) /\ i # Max(s) /\ Max(s) \in 1 .. m
        BY <2>1
      <3>2. \A i \in s \ {Max(s)} : i \in 1 .. m - 1
        BY <1>1, <3>1
      <3>. QED BY <3>2
    <2>3. s \ {Max(s)} \in SUBSET (1 .. m)
      BY <2>2
    <2>4. h[s \ {Max(s)}] = g[s \ {Max(s)}]
      BY <1>4, <2>2, <2>3
    <2>. QED BY <2>4 DEF Body
  <1>6. h = [s \in SUBSET (1 .. m) |-> Body(h, seq, s)]
    BY <1>5
  <1>. HIDE DEF h
  <1>. QED BY <1>1, <1>6

LEMMA TableIsFold ==
    ASSUME NEW S, NEW seq \in Seq(S), NEW i \in 0 .. Len(seq)
    PROVE  Table(seq)[1 .. i] = IF i = 0 THEN Base
                                ELSE Pair(Table(seq)[1 .. i - 1], seq[i])
  <1>1. DOMAIN seq = 1 .. Len(seq) /\ Len(seq) \in Nat
    OBVIOUS
  <1>2. \E g : g = [s \in SUBSET DOMAIN seq |-> Body(g, seq, s)]
    <2>1. \E g : g = [s \in SUBSET (1 .. Len(seq)) |-> Body(g, seq, s)]
      BY <1>1, TableExists
    <2>. QED BY <1>1, <2>1
  <1>. DEFINE t == Table(seq)
  <1>3. t = [s \in SUBSET DOMAIN seq |-> Body(t, seq, s)]
    BY <1>2 DEF Table
  <1>. HIDE DEF t
  <1>4. 1 .. i \in SUBSET DOMAIN seq /\ t[1 .. i] = Body(t, seq, 1 .. i)
    BY <1>1, <1>3
  <1>5. CASE i = 0
    <2>1. 1 .. i = {}
      BY <1>5
    <2>. QED BY <1>4, <1>5, <2>1 DEF Body, t
  <1>6. CASE i # 0
    <2>1. Max(1 .. i) = i
      <3>1. Max(1 .. i) \in 1 .. i /\ \A k \in 1 .. i : k <= Max(1 .. i)
        <4>1. i \in Nat /\ i \in 1 .. i
          BY <1>1, <1>6
        <4>. QED BY <4>1, MaxOfInterval
      <3>. QED BY <1>6, <3>1
    <2>2. (1 .. i) \ {i} = 1 .. i - 1 /\ 1 .. i # {}
      BY <1>6
    <2>. QED BY <1>4, <1>6, <2>1, <2>2 DEF Body, t
  <1>. QED BY <1>5, <1>6

LEMMA PairingEmpty == Pairing(<<>>) = Base
  <1>1. <<>> \in Seq({}) /\ DOMAIN <<>> = 1 .. 0 /\ Len(<<>>) = 0
    OBVIOUS
  <1>2. Table(<<>>)[1 .. 0] = Base
    <2>1. 0 \in 0 .. Len(<<>>)
      BY <1>1
    <2>. QED BY <1>1, <2>1, TableIsFold
  <1>. QED BY <1>1, <1>2, PairingByTable

LEMMA PairingAppend ==
    ASSUME NEW S, NEW seq \in Seq(S), NEW e \in S
    PROVE  Pairing(Append(seq, e)) = Pair(Pairing(seq), e)
  <1>. DEFINE more == Append(seq, e)
              T == {i \in 0 .. Len(seq) : Table(more)[1 .. i] # Table(seq)[1 .. i]}
  <1>1. /\ more \in Seq(S) /\ Len(more) = Len(seq) + 1 /\ Len(seq) \in Nat
        /\ \A i \in 1 .. Len(seq) : more[i] = seq[i]
        /\ more[Len(seq) + 1] = e
    OBVIOUS
  <1>. HIDE DEF more
  <1>2. T = {}
    <2>. SUFFICES ASSUME NEW n \in T PROVE FALSE
      OBVIOUS
    <2>1. PICK m \in T : \A k \in T : m <= k
      <3>1. T \in SUBSET Nat
        BY <1>1
      <3>. HIDE DEF T
      <3>. QED BY <3>1, LeastNumber
    <2>2. m # 0
      BY <1>1, <2>1, TableIsFold
    <2>3. m - 1 \in 0 .. Len(seq) /\ m - 1 \notin T
      BY <1>1, <2>1, <2>2
    <2>4. Table(more)[1 .. m] = Pair(Table(more)[1 .. m - 1], more[m])
      BY <1>1, <2>2, TableIsFold
    <2>5. Table(seq)[1 .. m] = Pair(Table(seq)[1 .. m - 1], seq[m])
      BY <1>1, <2>2, TableIsFold
    <2>6. more[m] = seq[m] /\ Table(more)[1 .. m - 1] = Table(seq)[1 .. m - 1]
      BY <1>1, <2>2, <2>3
    <2>. QED BY <2>1, <2>4, <2>5, <2>6
  <1>3. Table(more)[1 .. Len(seq)] = Table(seq)[1 .. Len(seq)]
    BY <1>1, <1>2
  <1>4. Table(more)[1 .. Len(seq) + 1] = Pair(Table(more)[1 .. Len(seq)], e)
    <2>1. Len(seq) + 1 \in 0 .. Len(more) /\ Len(seq) + 1 # 0
          /\ (Len(seq) + 1) - 1 = Len(seq)
      BY <1>1
    <2>. QED BY <1>1, <2>1, TableIsFold
  <1>5. DOMAIN seq = 1 .. Len(seq) /\ DOMAIN more = 1 .. Len(seq) + 1
    BY <1>1
  <1>. QED BY <1>3, <1>4, <1>5, PairingByTable DEF more

-----------------------------------------------------------------------------
(* Round trips *)

Entry == [side : {"buy", "sell", "stable"}, id : Nat]

\* A tie-break or a buy has begun.
Buying == pc \in {"paying", "spend", "verdict"} \/ (pc = "swap" /\ call.side = "buy")

\* What a pairing has come to while h is the position: no entry is open but its own.
Right(acc, h) ==
    /\ acc = [open |-> acc.open, trips |-> acc.trips]
    /\ acc.open = <<>> \/ (h # 0 /\ acc.open = <<h>>)
    /\ \A trip \in acc.trips : trip[1] = trip[2]

\* The part of the log behind its first k trades.
Period(k) == SubSeq(log, k + 1, Len(log))

\* A buy begins with no position, and only a swap that goes unlogged can give it
\* one before it is made; in the periods that count every swap is in the log.
DigestInv ==
    /\ held \in Nat /\ gaps \subseteq Nat
    /\ log \in Seq(Entry)
    /\ pc = "swap" => call.side \in {"buy", "sell"}
    /\ Buying => held = 0 \/ Len(log) \in gaps
    /\ \A k \in 0 .. Len(log) : (\A g \in gaps : g < k) => Right(Pairing(Period(k)), held)

LEMMA RightBase == \A h : Right(Base, h)
  BY DEF Right, Base

LEMMA DigestInit == Init => DigestInv
  <1>. SUFFICES ASSUME Init PROVE DigestInv
    OBVIOUS
  <1>1. log = <<>> /\ Len(log) = 0 /\ log \in Seq(Entry) /\ held = 0 /\ gaps = {} /\ pc = "idle"
    BY DEF Init
  <1>2. \A k \in 0 .. Len(log) : Period(k) = <<>>
    BY <1>1, SubSeqEmpty DEF Period
  <1>. QED BY <1>1, <1>2, PairingEmpty, RightBase DEF DigestInv, Buying

\* A step that leaves log and position begins no buy with a position.
LEMMA DigestKept ==
    ASSUME DigestInv, UNCHANGED <<held, log, gaps>>, Buying' => Buying \/ held = 0,
           pc' = "swap" => call'.side \in {"buy", "sell"}
    PROVE  DigestInv'
  <1>1. \A k : Period(k)' = Period(k)
    BY DEF Period
  <1>. QED BY <1>1 DEF DigestInv

\* After a swap that is not in the log no period counts until the next trade.
LEMMA DigestGap ==
    ASSUME DigestInv, log' = log, gaps' = gaps \cup {Len(log)}, held' \in Nat,
           pc' = "swap" => call'.side \in {"buy", "sell"}
    PROVE  DigestInv'
  <1>1. Len(log) \in Nat /\ \A k \in 0 .. Len(log) : ~(Len(log) < k)
    BY DEF DigestInv
  <1>. QED BY <1>1 DEF DigestInv

LEMMA PeriodAppend ==
    ASSUME NEW s \in Seq(Entry), NEW e \in Entry, NEW k \in 0 .. Len(s)
    PROVE  /\ SubSeq(s, k + 1, Len(s)) \in Seq(Entry)
           /\ SubSeq(Append(s, e), k + 1, Len(s) + 1) = Append(SubSeq(s, k + 1, Len(s)), e)
  <1>. DEFINE a == SubSeq(s, k + 1, Len(s))
              b == SubSeq(Append(s, e), k + 1, Len(s) + 1)
  <1>0. Len(s) \in Nat /\ \A i \in 1 .. Len(s) : s[i] \in Entry
    OBVIOUS
  <1>1. /\ a \in Seq(Entry) /\ Len(a) = Len(s) - k
        /\ \A i \in 1 .. Len(s) - k : a[i] = s[k + i]
    BY <1>0, SubSeqProperties
  <1>2. /\ Append(s, e) \in Seq(Entry) /\ Append(s, e)[Len(s) + 1] = e
        /\ \A i \in 1 .. Len(s) : Append(s, e)[i] = s[i]
    BY AppendProperties
  <1>3. /\ b \in Seq(Entry) /\ Len(b) = Len(s) + 1 - k
        /\ \A i \in 1 .. Len(s) + 1 - k : b[i] = Append(s, e)[k + i]
    BY <1>0, <1>2, SubSeqProperties
  <1>4. /\ Append(a, e) \in Seq(Entry) /\ Len(Append(a, e)) = Len(s) + 1 - k
        /\ Append(a, e)[Len(s) - k + 1] = e
        /\ \A i \in 1 .. Len(s) - k : Append(a, e)[i] = s[k + i]
    BY <1>0, <1>1, AppendProperties
  <1>. HIDE DEF a, b
  <1>5. ASSUME NEW i \in 1 .. Len(b) PROVE b[i] = Append(a, e)[i]
    <2>1. i \in 1 .. Len(s) + 1 - k /\ b[i] = Append(s, e)[k + i]
      BY <1>3
    <2>2. CASE i = Len(s) + 1 - k
      <3>1. k + i = Len(s) + 1 /\ i = Len(s) - k + 1
        BY <1>0, <2>2
      <3>. QED BY <1>2, <1>4, <2>1, <3>1
    <2>3. CASE i # Len(s) + 1 - k
      <3>1. i \in 1 .. Len(s) - k /\ k + i \in 1 .. Len(s)
        BY <1>0, <2>1, <2>3
      <3>. QED BY <1>2, <1>4, <2>1, <3>1
    <2>. QED BY <2>2, <2>3
  <1>6. b = Append(a, e)
    BY <1>3, <1>4, <1>5, SeqEqual
  <1>. QED BY <1>1, <1>6 DEF a, b

\* A trade that is logged, if every right pairing takes it and stays right.
LEMMA DigestLogged ==
    ASSUME DigestInv, NEW e \in Entry, log' = Append(log, e), gaps' = gaps,
           held' \in Nat, pc' = "idle",
           Len(log) \notin gaps => \A acc : Right(acc, held) => Right(Pair(acc, e), held')
    PROVE  DigestInv'
  <1>1. log \in Seq(Entry) /\ Len(log) \in Nat
    BY DEF DigestInv
  <1>2. log' \in Seq(Entry) /\ Len(log') = Len(log) + 1
    BY <1>1, AppendProperties
  <1>3. ASSUME NEW k \in 0 .. Len(log'), \A g \in gaps : g < k
        PROVE  Right(Pairing(Period(k)'), held')
    <2>1. CASE k = Len(log) + 1
      <3>1. Period(k)' = <<>>
        BY <1>1, <1>2, <2>1, SubSeqEmpty DEF Period
      <3>. QED BY <3>1, PairingEmpty, RightBase
    <2>2. CASE k # Len(log) + 1
      <3>1. k \in 0 .. Len(log)
        BY <1>1, <1>2, <2>2
      <3>2. Len(log) \notin gaps
        BY <1>1, <1>3, <3>1
      <3>3. Period(k) \in Seq(Entry) /\ Period(k)' = Append(Period(k), e)
        BY <1>1, <1>2, <3>1, PeriodAppend DEF Period
      <3>4. Right(Pairing(Period(k)), held)
        BY <1>3, <3>1 DEF DigestInv
      <3>5. Pairing(Period(k)') = Pair(Pairing(Period(k)), e)
        BY <3>3, PairingAppend
      <3>. QED BY <3>2, <3>4, <3>5
    <2>. QED BY <2>1, <2>2
  <1>. QED BY <1>2, <1>3 DEF DigestInv, Buying

LEMMA DigestMined ==
    ASSUME DigestInv, SwapInv, SwapMined
    PROVE  DigestInv'
  <1>1. /\ pc = "swap" /\ calls \in Nat \ {0} /\ held \in Nat /\ pc' = "idle"
        /\ call.side \in {"buy", "sell"}
        /\ Settle(calls, call.side, call.how)
    BY CallsNat DEF SwapInv, Ids, SwapMined, DigestInv, Buying
  <1>2. held' \in Nat /\ (call.side = "buy" => held' = calls) /\ (call.side # "buy" => held' = 0)
    BY <1>1 DEF Settle
  <1>3. CASE gaps' = gaps \cup {Len(log)} /\ UNCHANGED log
    BY <1>1, <1>2, <1>3, DigestGap
  <1>4. CASE UNCHANGED gaps /\ call.side = "buy"
             /\ log' = Append(log, [side |-> call.side, id |-> calls])
    <2>. DEFINE e == [side |-> "buy", id |-> calls]
    <2>1. e \in Entry /\ log' = Append(log, e)
      BY <1>1, <1>4 DEF Entry
    <2>2. Len(log) \notin gaps => held = 0
      BY <1>1, <1>4 DEF DigestInv, Buying
    <2>3. ASSUME NEW acc, Right(acc, 0) PROVE Right(Pair(acc, e), calls)
      <3>1. Pair(acc, e) = [open |-> Append(<<>>, calls), trips |-> acc.trips]
        BY <2>3 DEF Right, Pair
      <3>2. Append(<<>>, calls) = <<calls>>
        OBVIOUS
      <3>. QED BY <1>1, <2>3, <3>1, <3>2 DEF Right
    <2>. HIDE DEF e
    <2>. QED BY <1>1, <1>2, <1>4, <2>1, <2>2, <2>3, DigestLogged
  <1>5. CASE UNCHANGED gaps /\ call.side # "buy"
             /\ log' = Append(log, [side |-> call.side, id |-> held])
    <2>. DEFINE e == [side |-> "sell", id |-> held]
    <2>1. e \in Entry /\ log' = Append(log, e)
      BY <1>1, <1>5 DEF Entry
    <2>2. ASSUME NEW acc, Right(acc, held) PROVE Right(Pair(acc, e), 0)
      <3>1. CASE acc.open = <<>>
        BY <2>2, <3>1 DEF Right, Pair
      <3>2. CASE acc.open = <<held>>
        <4>1. Head(<<held>>) = held /\ Tail(<<held>>) = <<>> /\ <<held>> # <<>>
          OBVIOUS
        <4>2. Pair(acc, e) = [open |-> <<>>, trips |-> acc.trips \cup {<<held, held>>}]
          BY <3>2, <4>1 DEF Pair
        <4>. QED BY <2>2, <4>2 DEF Right
      <3>. QED BY <2>2, <3>1, <3>2 DEF Right
    <2>. HIDE DEF e
    <2>. QED BY <1>1, <1>2, <1>5, <2>1, <2>2, DigestLogged
  <1>. QED BY <1>3, <1>4, <1>5 DEF SwapMined

LEMMA DigestNext ==
    ASSUME DigestInv, SwapInv, [Next]_vars
    PROVE  DigestInv'
  <1>1. CASE NewData \/ UNCHANGED vars
    BY <1>1, DigestKept DEF NewData, vars, data, report, wallet, twak, Buying, DigestInv
  <1>2. CASE SellSignal \/ BuySignal \/ GreyZoneSignal
    BY <1>2, DigestKept
       DEF SellSignal, BuySignal, GreyZoneSignal, Propose, report, wallet, Buying
  <1>3. ASSUME NEW outcome \in {"answered", "free", "refused", "lost"}, Pay(outcome)
        PROVE  DigestInv'
    BY <1>3, DigestKept DEF Pay, report, wallet, Buying
  <1>4. CASE RecordSpend
    BY <1>4, DigestKept DEF RecordSpend, report, wallet, Buying
  <1>5. ASSUME NEW answer \in Answers, Verdict(answer)
        PROVE  DigestInv'
    BY <1>5, DigestKept DEF Verdict, Propose, report, wallet, Buying
  <1>6. CASE SwapMined
    BY <1>6, DigestMined
  <1>7. ASSUME NEW error, pc = "swap", AttemptFails(error)
        PROVE  DigestInv'
    <2>1. UNCHANGED <<held, log, gaps>>
      BY <1>7 DEF AttemptFails, wallet, report
    <2>2. pc' = "idle" \/ (pc' = "swap" /\ call'.side = call.side)
      BY <1>7 DEF AttemptFails, SwapInv, SwapType, Calls
    <2>. QED BY <1>7, <2>1, <2>2, DigestKept DEF Buying, DigestInv
  <1>8. ASSUME NEW error \in RestErrors, RestSwapFails(error)
        PROVE  DigestInv'
    <2>1. CASE pc' = "idle" /\ UNCHANGED <<wallet, report>>
      BY <2>1, DigestKept DEF wallet, report, Buying
    <2>. QED BY <1>7, <1>8, <2>1 DEF RestSwapFails
  <1>9. ASSUME NEW f \in flight, LateSwap(f)
        PROVE  DigestInv'
    <2>1. CASE Settle(f.id, f.side, f.how) /\ gaps' = gaps \cup {Len(log)}
      <3>1. f.id \in Nat /\ held' \in Nat
        BY <2>1, CallsNat DEF SwapInv, SwapType, Ids, Settle, Flights
      <3>. QED BY <1>9, <2>1, <3>1, DigestGap DEF LateSwap, DigestInv
    <2>2. CASE UNCHANGED <<wallet, gaps>>
      BY <1>9, <2>2, DigestKept DEF LateSwap, wallet, Buying, DigestInv
    <2>. QED BY <1>9, <2>1, <2>2 DEF LateSwap
  <1>10. CASE ComplianceSwap
    <2>. DEFINE e == [side |-> "stable", id |-> 0]
    <2>1. e \in Entry /\ log' = Append(log, e) /\ gaps' = gaps /\ held' = held /\ pc' = "idle"
      BY <1>10 DEF ComplianceSwap, Entry, wallet
    <2>2. \A acc : Pair(acc, e) = acc
      BY DEF Pair
    <2>. HIDE DEF e
    <2>. QED BY <2>1, <2>2, DigestLogged DEF DigestInv
  <1>. QED
    BY <1>1, <1>2, <1>3, <1>4, <1>5, <1>6, <1>7, <1>8, <1>9, <1>10 DEF Next, CliSwapFails

\* For every registry, bound and set of faults: a round trip the digest reports of
\* a period whose trades are all in the log joins an exit with its own entry.
THEOREM RoundTripsRight == Spec => []DigestPairs
  <1>1. DigestInv => DigestPairs
    <2>. SUFFICES ASSUME DigestInv, NEW k \in 0 .. Len(log), \A g \in gaps : g < k
                  PROVE  \A trip \in RoundTrips(SubSeq(log, k + 1, Len(log))) :
                            trip[1] = trip[2]
      BY DEF DigestPairs
    <2>1. RoundTrips(SubSeq(log, k + 1, Len(log))) = Pairing(Period(k)).trips
      BY DEF RoundTrips, Pairing, Base, Period
    <2>2. Right(Pairing(Period(k)), held)
      BY DEF DigestInv
    <2>. QED BY <2>1, <2>2 DEF Right
  <1>2. SwapInv /\ DigestInv /\ [Next]_vars => SwapInv' /\ DigestInv'
    BY SwapNext, DigestNext
  <1>. QED BY SwapInit, DigestInit, <1>1, <1>2, PTL DEF Spec
===============================================================================
