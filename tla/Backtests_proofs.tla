-------------------------- MODULE Backtests_proofs --------------------------
(***************************************************************************)
(* The simulators behind the configuration, for every set of tokens,       *)
(* prices and tickets: the slots hold, the trade records account for the   *)
(* money, and a simulation keeps the lifecycle of PositionLifecycle.       *)
(***************************************************************************)
EXTENDS Backtests, FiniteSetTheorems, WellFoundedInduction, SequenceTheorems, TLAPS

Position == [qty : Nat, px : Nat, peak : Nat, idx : Nat]
RestingOrder == [limit : Nat, expiry : Nat, scale : Scales \cup {0}]
Trade == [token : Tokens, usd : Nat, qty : Nat, px : Nat, exit : Nat, back : Nat, fee : Nat]

\* Every state of a simulation is well typed.
Typed ==
    /\ bar \in Nat /\ price \in Closes /\ gate \in Scales /\ cash \in Nat
    /\ pass \in {"exits", "fills", "entries", "over"}
    /\ todo \in SUBSET Tokens
    /\ pos \in [Tokens -> Position]
    /\ pending \in [Tokens -> RestingOrder]
    /\ lastExit \in [Tokens -> Int]
    /\ trades \in Seq(Trade)

\* What the passes rely on: they visit what is held or resting, a token is never
\* both, and whoever orders has rested and will find a slot.
WalkInv ==
    /\ pass = "exits" => todo \subseteq Held
    /\ pass = "fills" => todo \subseteq Resting
    /\ Held \cap Resting = {}
    /\ Cardinality(Held) + Cardinality(Resting) <= MaxConcurrent
    /\ \A t \in Resting : bar - lastExit[t] >= Cooldown

\* What can be bought with a ticket at px is counted exactly.
Buys(px) ==
    /\ px > 0
    /\ \A usd \in Tickets : ((usd - Leg(usd)) \div px) * px = usd - Leg(usd)

\* A position and its record know each other.
Matched(t) ==
    LET i == pos[t].idx IN
    /\ i \in 1 .. Len(trades)
    /\ trades[i].exit = 0 /\ trades[i].token = t /\ trades[i].qty = pos[t].qty

\* A record is that of an open position, or one whose account is settled.
Settled(i) ==
    LET r == trades[i] IN
    /\ r.qty * r.px = r.usd - Leg(r.usd)
    /\ IF r.exit = 0
       THEN r.token \in Held /\ pos[r.token].idx = i /\ r.fee = Leg(r.usd)
       ELSE r.back - r.usd + r.fee = r.qty * (r.exit - r.px)

RecordInv ==
    /\ cash = Balance(trades)
    /\ \A t \in Resting : Buys(pending[t].limit)
    /\ \A t \in Held : Matched(t)
    /\ \A i \in 1 .. Len(trades) : Settled(i)

-----------------------------------------------------------------------------
(* Steps *)

LEMMA ConstantsNat ==
    /\ Start \in Nat /\ MaxConcurrent \in Nat /\ Cooldown \in Nat /\ Lifetime \in Nat
    /\ Bars \in Nat /\ IsFiniteSet(Tokens) /\ Tickets \subseteq Nat
    /\ Prices \subseteq Nat \ {0, 1}
  BY BacktestAssumption

\* A step visits a position, fills an order, enters, orders, or leaves books and
\* orders as they are.
LEMMA Steps ==
    ASSUME [Next]_vars
    PROVE  \/ \E t \in Tokens : \E f : VisitHeld(t, f)
           \/ \E t \in Tokens : Fill(t)
           \/ \E t \in Tokens : \E f : EnterAtClose(t, f)
           \/ \E t \in Tokens : \E f : EnterByLimit(t, f)
           \/ \E t \in Tokens : PassOver(t)
           \/ NextPass \/ Report \/ UNCHANGED vars
  BY DEF Next, Simulate, SimulateTraced, SimulateVolume, SimulateAtr, SimulateLimit

\* The fee of a leg is a part of it.
LEMMA LegNat == ASSUME NEW x \in Nat PROVE Leg(x) \in Nat /\ Leg(x) <= x
  BY DEF Leg

LEMMA ProductNat == ASSUME NEW a \in Nat, NEW b \in Nat PROVE a * b \in Nat
  OBVIOUS

LEMMA QuotientNat == ASSUME NEW a \in Nat, NEW b \in Nat \ {0} PROVE a \div b \in Nat
  OBVIOUS

\* Orders and closes are prices a ticket buys a whole number of units at.
LEMMA PricesBuy == \A p \in Prices : Buys(p) /\ Buys(p - 1) /\ p - 1 \in Nat
  BY TicketAssumption, ConstantsNat DEF Buys

\* What selling the position brings, before and after the fee.
LEMMA ProceedsNat ==
    ASSUME Typed, NEW t \in Tokens
    PROVE  Worth(t) \in Nat /\ Leg(Worth(t)) \in Nat /\ Worth(t) - Leg(Worth(t)) \in Nat
  <1>1. pos[t].qty \in Nat /\ price[t] \in Nat
    BY ConstantsNat DEF Typed, Position, Closes
  <1>2. Worth(t) \in Nat
    BY <1>1, ProductNat DEF Worth
  <1>3. Leg(Worth(t)) \in Nat /\ Leg(Worth(t)) <= Worth(t)
    BY <1>2, LegNat
  <1>. QED BY <1>2, <1>3

\* The record that is closed is the position's own.
LEMMA OwnRecord ==
    ASSUME Typed, RecordInv, NEW t \in Held
    PROVE  Record(t) = pos[t].idx
  <1>1. Matched(t) /\ \A i \in 1 .. Len(trades) : Settled(i)
    BY DEF RecordInv
  <1>. DEFINE Last(i) == /\ trades[i].token = t /\ trades[i].exit = 0
                         /\ \A j \in i + 1 .. Len(trades) :
                               trades[j].token # t \/ trades[j].exit # 0
  <1>2. \A i \in 1 .. Len(trades) : trades[i].token = t /\ trades[i].exit = 0 => i = pos[t].idx
    BY <1>1 DEF Settled
  <1>3. pos[t].idx \in 1 .. Len(trades) /\ Last(pos[t].idx)
    <2>1. pos[t].idx \in 1 .. Len(trades) /\ trades[pos[t].idx].token = t
          /\ trades[pos[t].idx].exit = 0 /\ Len(trades) \in Nat
      BY <1>1 DEF Matched, Typed
    <2>2. \A j \in pos[t].idx + 1 .. Len(trades) : j \in 1 .. Len(trades) /\ j # pos[t].idx
      BY <2>1
    <2>. QED BY <1>2, <2>1, <2>2
  <1>4. \A i \in 1 .. Len(trades) : Last(i) => i = pos[t].idx
    BY <1>2
  <1>5. OpenIdx(t) = CHOOSE i \in 1 .. Len(trades) : Last(i)
    BY DEF OpenIdx
  <1>. HIDE DEF Last
  <1>. QED BY <1>3, <1>4, <1>5 DEF Record

-----------------------------------------------------------------------------
(* What is held and what rests *)

LEMMA SetsFinite ==
    /\ IsFiniteSet(Held) /\ IsFiniteSet(Resting)
    /\ Cardinality(Held) \in Nat /\ Cardinality(Resting) \in Nat
  <1>1. Held \subseteq Tokens /\ Resting \subseteq Tokens
    BY DEF Held, Resting
  <1>2. IsFiniteSet(Held) /\ IsFiniteSet(Resting)
    BY <1>1, ConstantsNat, FS_Subset
  <1>. QED BY <1>2, FS_CardinalityType

LEMMA CloseHeld ==
    ASSUME Typed, NEW t \in Held, Close(t)
    PROVE  Held' = Held \ {t}
  <1>1. pos' = [pos EXCEPT ![t] = NoPos] /\ pos \in [Tokens -> Position]
    BY DEF Close, Typed
  <1>. QED BY <1>1 DEF Held

LEMMA OpenHeld ==
    ASSUME Typed, NEW t \in Tokens, NEW usd, NEW px, Open(t, usd, px)
    PROVE  Held' = Held \cup {t}
  <1>1. /\ pos \in [Tokens -> Position]
        /\ pos' = [pos EXCEPT ![t] = [qty |-> (usd - Leg(usd)) \div px, px |-> px,
                                      peak |-> px, idx |-> Len(trades) + 1]]
    BY DEF Open, Typed
  <1>2. Len(trades) \in Nat
    BY DEF Typed
  <1>3. pos'[t].idx # NoPos.idx
    BY <1>1, <1>2 DEF NoPos
  <1>4. pos'[t] # NoPos /\ \A u \in Tokens \ {t} : pos'[u] = pos[u]
    BY <1>1, <1>3
  <1>. QED BY <1>4 DEF Held

LEMMA PeakHeld ==
    ASSUME Typed, RecordInv, NEW t \in Held, NEW peak,
           pos' = [pos EXCEPT ![t].peak = peak]
    PROVE  Held' = Held
  <1>1. pos \in [Tokens -> Position] /\ pos[t].idx # 0 /\ t \in Tokens
    BY DEF Typed, RecordInv, Matched, Held
  <1>2. pos'[t].idx # NoPos.idx /\ \A u \in Tokens \ {t} : pos'[u] = pos[u]
    BY <1>1 DEF NoPos, Position
  <1>. QED BY <1>1, <1>2 DEF Held

LEMMA DropResting ==
    ASSUME Typed, NEW t \in Tokens, pending' = [pending EXCEPT ![t] = NoOrder]
    PROVE  Resting' = Resting \ {t}
  BY DEF Typed, Resting

LEMMA OrderResting ==
    ASSUME Typed, NEW t \in Tokens, NEW f, EnterByLimit(t, f)
    PROVE  /\ Resting' = Resting \cup {t}
           /\ pending'[t] \in RestingOrder /\ Buys(pending'[t].limit)
  <1>1. /\ pending \in [Tokens -> RestingOrder] /\ price[t] \in Prices /\ bar \in Nat
        /\ gate \in Scales
    BY DEF Typed, Closes
  <1>2. pending'[t] = [limit |-> price[t] - 1, expiry |-> bar + Lifetime, scale |-> gate]
        /\ \A u \in Tokens \ {t} : pending'[u] = pending[u]
    BY <1>1 DEF EnterByLimit
  <1>3. price[t] - 1 \in Nat \ {0} /\ bar + Lifetime \in Nat /\ Buys(price[t] - 1)
    <2>1. price[t] \in Nat \ {0, 1} /\ Lifetime \in Nat
      BY <1>1, ConstantsNat
    <2>2. price[t] - 1 \in Nat \ {0} /\ bar + Lifetime \in Nat
      BY <1>1, <2>1
    <2>. QED BY <1>1, <2>2, PricesBuy
  <1>4. pending'[t].limit # NoOrder.limit
    BY <1>2, <1>3 DEF NoOrder
  <1>5. Resting' = Resting \cup {t}
    BY <1>2, <1>4 DEF Resting
  <1>. QED BY <1>1, <1>2, <1>3, <1>5 DEF RestingOrder

-----------------------------------------------------------------------------
(* Types *)

LEMMA TypedInit == Init => Typed
  <1>. SUFFICES ASSUME Init PROVE Typed
    OBVIOUS
  <1>1. trades \in Seq(Trade) /\ NoPos \in Position /\ NoOrder \in RestingOrder
    BY DEF Init, NoPos, Position, NoOrder, RestingOrder
  <1>2. 0 - Cooldown \in Int /\ Start \in Nat
    BY ConstantsNat
  <1>. QED BY <1>1, <1>2 DEF Init, Typed

\* A record and a position of a ticket.
LEMMA TicketTyped ==
    ASSUME Typed, NEW t \in Tokens, NEW usd \in Tickets, NEW px \in Nat \ {0}
    PROVE  /\ usd \in Nat /\ Leg(usd) \in Nat /\ (usd - Leg(usd)) \div px \in Nat
           /\ [qty |-> (usd - Leg(usd)) \div px, px |-> px, peak |-> px,
               idx |-> Len(trades) + 1] \in Position
           /\ [token |-> t, usd |-> usd, qty |-> (usd - Leg(usd)) \div px, px |-> px,
               exit |-> 0, back |-> 0, fee |-> Leg(usd)] \in Trade
  <1>1. usd \in Nat /\ Leg(usd) \in Nat /\ Leg(usd) <= usd
    BY ConstantsNat, LegNat
  <1>2. usd - Leg(usd) \in Nat
    BY <1>1
  <1>3. (usd - Leg(usd)) \div px \in Nat
    BY <1>2, QuotientNat
  <1>4. Len(trades) + 1 \in Nat
    BY DEF Typed
  <1>. QED BY <1>1, <1>3, <1>4 DEF Position, Trade

LEMMA OpenTyped ==
    ASSUME Typed, NEW t \in Tokens, NEW usd \in Tickets, usd <= cash,
           NEW px \in Nat \ {0}, Open(t, usd, px)
    PROVE  /\ cash' \in Nat /\ pos' \in [Tokens -> Position] /\ trades' \in Seq(Trade)
           /\ lastExit' \in [Tokens -> Int]
  <1>1. cash \in Nat /\ pos \in [Tokens -> Position] /\ trades \in Seq(Trade)
        /\ lastExit \in [Tokens -> Int]
    BY DEF Typed
  <1>2. cash' = cash - usd /\ lastExit' = lastExit
    BY DEF Open
  <1>3. pos' \in [Tokens -> Position]
    BY <1>1, TicketTyped DEF Open
  <1>4. trades' \in Seq(Trade)
    BY <1>1, TicketTyped, AppendProperties DEF Open
  <1>. QED BY <1>1, <1>2, <1>3, <1>4, ConstantsNat

\* What closing a position does to the records.
LEMMA CloseRecords ==
    ASSUME Typed, RecordInv, NEW t \in Held, Close(t)
    PROVE  LET i == pos[t].idx
               r == trades[i]
               s == trades'[i]
               gross == Worth(t)
           IN  /\ i \in 1 .. Len(trades) /\ trades' \in Seq(Trade)
               /\ trades' = [trades EXCEPT ![i] = s]
               /\ s.exit = price[t] /\ s.back = gross - Leg(gross)
               /\ s.fee = r.fee + Leg(gross)
               /\ s.token = t /\ s.usd = r.usd /\ s.qty = r.qty /\ s.px = r.px
  <1>. DEFINE i == pos[t].idx
              gross == Worth(t)
              r == trades[i]
              new == [r EXCEPT !.exit = price[t], !.back = gross - Leg(gross),
                               !.fee = @ + Leg(gross)]
  <1>1. /\ i \in 1 .. Len(trades) /\ trades \in Seq(Trade) /\ r.token = t
        /\ t \in Tokens
    BY DEF RecordInv, Matched, Typed, Held
  <1>2. r \in Trade
    BY <1>1
  <1>3. trades' = [trades EXCEPT ![i].exit = price[t], ![i].back = gross - Leg(gross),
                                 ![i].fee = @ + Leg(gross)]
    BY OwnRecord DEF Close
  <1>4. price[t] \in Nat
    BY <1>1, ConstantsNat DEF Typed, Closes
  <1>5. Leg(gross) \in Nat /\ gross - Leg(gross) \in Nat
    BY <1>1, ProceedsNat
  <1>. HIDE DEF i, gross
  <1>6. trades' = [trades EXCEPT ![i] = new]
    BY <1>1, <1>3
  <1>7. /\ new \in Trade
        /\ new.exit = price[t] /\ new.back = gross - Leg(gross)
        /\ new.fee = r.fee + Leg(gross)
        /\ new.token = r.token /\ new.usd = r.usd /\ new.qty = r.qty /\ new.px = r.px
    <2>1. Leg(gross) \in Nat /\ gross - Leg(gross) \in Nat /\ price[t] \in Nat /\ r \in Trade
      BY <1>2, <1>4, <1>5
    <2>. HIDE DEF r
    <2>. DEFINE paid == gross - Leg(gross)
                fee == Leg(gross)
                exit == price[t]
    <2>2. fee \in Nat /\ paid \in Nat /\ exit \in Nat
      BY <2>1
    <2>. HIDE DEF paid, fee, exit
    <2>. DEFINE a == [r EXCEPT !.exit = exit]
                b == [a EXCEPT !.back = paid]
                s == [r EXCEPT !.exit = exit, !.back = paid, !.fee = @ + fee]
    <2>3. a \in Trade
      BY <2>1, <2>2 DEF Trade
    <2>4. b \in Trade
      <3>. HIDE DEF a
      <3>. QED BY <2>2, <2>3 DEF Trade
    <2>5. [b EXCEPT !.fee = r.fee + fee] \in Trade
      <3>1. r.fee + fee \in Nat
        BY <2>1, <2>2 DEF Trade
      <3>. HIDE DEF b
      <3>. QED BY <2>4, <3>1 DEF Trade
    <2>6. s = [b EXCEPT !.fee = r.fee + fee]
      BY <2>1, <2>2 DEF Trade
    <2>7. /\ s.exit = exit /\ s.back = paid /\ s.fee = r.fee + fee
          /\ s.token = r.token /\ s.usd = r.usd /\ s.qty = r.qty /\ s.px = r.px
      BY <2>1, <2>2 DEF Trade
    <2>8. s \in Trade
      BY <2>5, <2>6
    <2>. QED BY <2>7, <2>8 DEF paid, fee, exit
  <1>. HIDE DEF new
  <1>8. trades'[i] = new /\ trades' \in Seq(Trade)
    BY <1>1, <1>6, <1>7
  <1>. QED BY <1>1, <1>6, <1>7, <1>8 DEF i, gross

LEMMA CloseTyped ==
    ASSUME Typed, RecordInv, NEW t \in Held, Close(t)
    PROVE  /\ cash' \in Nat /\ pos' \in [Tokens -> Position] /\ trades' \in Seq(Trade)
           /\ lastExit' \in [Tokens -> Int]
  <1>1. t \in Tokens /\ NoPos \in Position /\ bar \in Int
    BY DEF Held, NoPos, Position, Typed
  <1>2. trades' \in Seq(Trade)
    BY CloseRecords
  <1>3. cash \in Nat /\ Worth(t) - Leg(Worth(t)) \in Nat /\ Worth(t) \in Nat
        /\ Leg(Worth(t)) \in Nat
    BY <1>1, ProceedsNat DEF Typed
  <1>4. cash' \in Nat
    BY <1>3 DEF Close
  <1>. QED BY <1>1, <1>2, <1>4 DEF Close, Left, Typed

\* The price a resting order is filled at.
LEMMA LimitNat ==
    ASSUME Typed, RecordInv, NEW t \in Resting
    PROVE  t \in Tokens /\ pending[t].limit \in Nat \ {0} /\ Buys(pending[t].limit)
  <1>1. t \in Tokens /\ pending[t] \in RestingOrder /\ Buys(pending[t].limit)
    BY DEF Typed, Resting, RecordInv
  <1>. QED BY <1>1 DEF RestingOrder, Buys

LEMMA TypedStep ==
    ASSUME Typed, WalkInv, RecordInv, [Next]_vars
    PROVE  Typed'
  <1>1. ASSUME NEW t \in Tokens, NEW f, VisitHeld(t, f)
        PROVE  Typed'
    <2>1. t \in Held /\ UNCHANGED <<bar, price, gate, pass, pending>>
          /\ todo' \in SUBSET Tokens
      BY <1>1 DEF VisitHeld, Visit, WalkInv, walk, Typed
    <2>2. CASE Close(t)
      BY <2>1, <2>2, CloseTyped DEF Typed
    <2>3. CASE pos' = [pos EXCEPT ![t].peak = Peak(t)] /\ UNCHANGED <<cash, lastExit, trades>>
      <3>1. Peak(t) \in Nat /\ pos \in [Tokens -> Position]
        BY ConstantsNat DEF Typed, Position, Closes, Peak
      <3>2. pos' \in [Tokens -> Position]
        BY <2>3, <3>1 DEF Position
      <3>. QED BY <2>1, <2>3, <3>2 DEF Typed
    <2>. QED BY <1>1, <2>2, <2>3 DEF VisitHeld
  <1>2. ASSUME NEW t \in Tokens, Fill(t)
        PROVE  Typed'
    <2>1. t \in Resting /\ UNCHANGED <<bar, price, gate, pass>>
          /\ todo' \in SUBSET Tokens /\ NoOrder \in RestingOrder
      BY <1>2 DEF Fill, Visit, WalkInv, walk, Typed, NoOrder, RestingOrder
    <2>2. pending' \in [Tokens -> RestingOrder]
      BY <1>2, <2>1 DEF Fill, Typed
    <2>3. CASE UNCHANGED books
      BY <2>1, <2>2, <2>3 DEF Typed, books
    <2>4. ASSUME NEW usd \in Sizes(pending[t].scale), Open(t, usd, pending[t].limit)
          PROVE  Typed'
      <3>1. usd \in Tickets /\ usd <= cash
        BY DEF Sizes
      <3>2. /\ cash' \in Nat /\ pos' \in [Tokens -> Position]
            /\ trades' \in Seq(Trade) /\ lastExit' \in [Tokens -> Int]
        BY <2>1, <2>4, <3>1, LimitNat, OpenTyped
      <3>. QED BY <2>1, <2>2, <3>2 DEF Typed
    <2>. QED BY <1>2, <2>3, <2>4 DEF Fill
  <1>3. ASSUME NEW t \in Tokens, NEW f, EnterAtClose(t, f)
        PROVE  Typed'
    <2>1. UNCHANGED <<bar, price, gate, pass, pending>> /\ todo' \in SUBSET Tokens
      BY <1>3 DEF EnterAtClose, Admitted, Consider, Visit, walk, Typed
    <2>2. PICK usd \in Sizes(gate) : Open(t, usd, price[t])
      BY <1>3 DEF EnterAtClose
    <2>3. usd \in Tickets /\ usd <= cash
      BY DEF Sizes
    <2>4. price[t] \in Nat \ {0}
      BY ConstantsNat DEF Typed, Closes
    <2>5. /\ cash' \in Nat /\ pos' \in [Tokens -> Position]
          /\ trades' \in Seq(Trade) /\ lastExit' \in [Tokens -> Int]
      BY <2>2, <2>3, <2>4, OpenTyped
    <2>. QED BY <2>1, <2>5 DEF Typed
  <1>4. ASSUME NEW t \in Tokens, NEW f, EnterByLimit(t, f)
        PROVE  Typed'
    <2>1. UNCHANGED <<bar, price, gate, pass, books>> /\ todo' \in SUBSET Tokens
      BY <1>4 DEF EnterByLimit, Admitted, Consider, Visit, walk, Typed
    <2>2. pending'[t] \in RestingOrder
      BY <1>4, OrderResting
    <2>3. pending' \in [Tokens -> RestingOrder]
      BY <1>4, <2>2 DEF EnterByLimit, Typed
    <2>. QED BY <2>1, <2>3 DEF Typed, books
  <1>5. CASE (\E t \in Tokens : PassOver(t)) \/ Report \/ UNCHANGED vars
    BY <1>5 DEF PassOver, Consider, Visit, Report, vars, walk, books, Typed
  <1>6. CASE NextPass
    <2>1. Held \subseteq Tokens /\ Resting \subseteq Tokens
      BY DEF Held, Resting
    <2>. QED BY <1>6, <2>1 DEF NextPass, books, Typed
  <1>. QED BY <1>1, <1>2, <1>3, <1>4, <1>5, <1>6, Steps

-----------------------------------------------------------------------------
(* Slots and cooldowns *)

LEMMA WalkInit == Init => WalkInv
  <1>. SUFFICES ASSUME Init PROVE WalkInv
    OBVIOUS
  <1>1. Held = {} /\ Resting = {}
    BY DEF Init, Held, Resting
  <1>2. Cardinality({}) = 0
    BY FS_EmptySet
  <1>. QED BY <1>1, <1>2, ConstantsNat DEF Init, WalkInv

\* A position is sold: its slot is free.
LEMMA WalkClosed ==
    ASSUME Typed, WalkInv, NEW t \in Held, Held' = Held \ {t}, Resting' = Resting,
           bar' = bar, pass' = pass, pass = "exits", todo' = todo \ {t},
           \A u \in Tokens \ {t} : lastExit'[u] = lastExit[u]
    PROVE  WalkInv'
  <1>1. Cardinality(Held') = Cardinality(Held) - 1
    BY SetsFinite, FS_RemoveElement
  <1>2. Cardinality(Held') + Cardinality(Resting') <= MaxConcurrent
    BY <1>1, SetsFinite, ConstantsNat DEF WalkInv
  <1>3. \A u \in Resting : u \in Tokens \ {t}
    BY DEF WalkInv, Resting
  <1>. QED BY <1>2, <1>3 DEF WalkInv

\* An order is filled: its slot becomes the position's.
LEMMA WalkFilled ==
    ASSUME Typed, WalkInv, NEW t \in Resting, Held' = Held \cup {t}, Resting' = Resting \ {t},
           bar' = bar, pass' = pass, pass = "fills", todo' = todo \ {t},
           lastExit' = lastExit
    PROVE  WalkInv'
  <1>1. Cardinality(Resting') = Cardinality(Resting) - 1
    BY SetsFinite, FS_RemoveElement
  <1>2. t \notin Held
    BY DEF WalkInv
  <1>3. Cardinality(Held') = Cardinality(Held) + 1
    BY <1>2, SetsFinite, FS_AddElement
  <1>4. Cardinality(Held') + Cardinality(Resting') <= MaxConcurrent
    BY <1>1, <1>3, SetsFinite, ConstantsNat DEF WalkInv
  <1>. QED BY <1>4 DEF WalkInv

\* An order is gone: its slot is free.
LEMMA WalkDropped ==
    ASSUME Typed, WalkInv, NEW t \in Resting, Held' = Held, Resting' = Resting \ {t},
           bar' = bar, pass' = pass, pass = "fills", todo' = todo \ {t},
           lastExit' = lastExit
    PROVE  WalkInv'
  <1>1. Cardinality(Resting') = Cardinality(Resting) - 1
    BY SetsFinite, FS_RemoveElement
  <1>2. Cardinality(Held') + Cardinality(Resting') <= MaxConcurrent
    BY <1>1, SetsFinite, ConstantsNat DEF WalkInv
  <1>. QED BY <1>2 DEF WalkInv

\* A token that was admitted takes a slot.
LEMMA WalkAdmitted ==
    ASSUME Typed, WalkInv, NEW t \in Tokens, NEW f, Admitted(t, f), UNCHANGED walk,
           lastExit' = lastExit,
           \/ Held' = Held \cup {t} /\ Resting' = Resting
           \/ Held' = Held /\ Resting' = Resting \cup {t}
    PROVE  WalkInv'
  <1>1. /\ t \notin Held /\ t \notin Resting /\ pass = "entries"
        /\ Cardinality(Held) + Cardinality(Resting) < MaxConcurrent
        /\ bar - lastExit[t] >= Cooldown
    BY DEF Admitted, Slots
  <1>2. Cardinality(Held \cup {t}) = Cardinality(Held) + 1
        /\ Cardinality(Resting \cup {t}) = Cardinality(Resting) + 1
    BY <1>1, SetsFinite, FS_AddElement
  <1>3. Cardinality(Held') + Cardinality(Resting') <= MaxConcurrent
    <2>1. \/ /\ Cardinality(Held') = Cardinality(Held) + 1
             /\ Cardinality(Resting') = Cardinality(Resting)
          \/ /\ Cardinality(Held') = Cardinality(Held)
             /\ Cardinality(Resting') = Cardinality(Resting) + 1
      BY <1>2
    <2>. QED BY <1>1, <2>1, SetsFinite, ConstantsNat
  <1>. QED BY <1>1, <1>3 DEF WalkInv, walk

LEMMA WalkStep ==
    ASSUME Typed, WalkInv, RecordInv, [Next]_vars
    PROVE  WalkInv'
  <1>1. ASSUME NEW t \in Tokens, NEW f, VisitHeld(t, f)
        PROVE  WalkInv'
    <2>1. t \in Held /\ UNCHANGED <<bar, pass, pending>> /\ todo' = todo \ {t} /\ pass = "exits"
      BY <1>1 DEF VisitHeld, Visit, WalkInv, walk
    <2>2. Resting' = Resting
      BY <2>1 DEF Resting
    <2>3. CASE Close(t)
      <3>1. \A u \in Tokens \ {t} : lastExit'[u] = lastExit[u]
        BY <2>3 DEF Close, Left, Typed
      <3>. QED BY <2>1, <2>2, <2>3, <3>1, CloseHeld, WalkClosed
    <2>4. CASE pos' = [pos EXCEPT ![t].peak = Peak(t)] /\ UNCHANGED <<cash, lastExit, trades>>
      <3>1. Held' = Held
        BY <2>1, <2>4, PeakHeld
      <3>. QED BY <2>1, <2>2, <2>4, <3>1 DEF WalkInv
    <2>. QED BY <1>1, <2>3, <2>4 DEF VisitHeld
  <1>2. ASSUME NEW t \in Tokens, Fill(t)
        PROVE  WalkInv'
    <2>1. t \in Resting /\ UNCHANGED <<bar, pass>> /\ todo' = todo \ {t} /\ pass = "fills"
      BY <1>2 DEF Fill, Visit, WalkInv, walk
    <2>2. CASE UNCHANGED books /\ pending' = [pending EXCEPT ![t] = NoOrder]
      <3>1. Held' = Held /\ lastExit' = lastExit /\ Resting' = Resting \ {t}
        BY <2>2, DropResting DEF books, Held
      <3>. QED BY <2>1, <3>1, WalkDropped
    <2>3. CASE UNCHANGED books /\ pending' = pending
      <3>1. Held' = Held /\ lastExit' = lastExit /\ Resting' = Resting
        BY <2>3 DEF books, Held, Resting
      <3>. QED BY <2>1, <3>1 DEF WalkInv
    <2>4. ASSUME NEW usd, Open(t, usd, pending[t].limit), pending' = [pending EXCEPT ![t] = NoOrder]
          PROVE  WalkInv'
      <3>1. Held' = Held \cup {t} /\ lastExit' = lastExit /\ Resting' = Resting \ {t}
        BY <2>4, OpenHeld, DropResting DEF Open
      <3>. QED BY <2>1, <3>1, WalkFilled
    <2>. QED BY <1>2, <2>2, <2>3, <2>4 DEF Fill
  <1>3. ASSUME NEW t \in Tokens, NEW f, EnterAtClose(t, f)
        PROVE  WalkInv'
    <2>1. Admitted(t, f) /\ UNCHANGED walk /\ pending' = pending
          /\ \E usd : Open(t, usd, price[t])
      BY <1>3 DEF EnterAtClose
    <2>2. Held' = Held \cup {t} /\ lastExit' = lastExit /\ Resting' = Resting
      BY <2>1, OpenHeld DEF Open, Resting
    <2>. QED BY <2>1, <2>2, WalkAdmitted
  <1>4. ASSUME NEW t \in Tokens, NEW f, EnterByLimit(t, f)
        PROVE  WalkInv'
    <2>1. Admitted(t, f) /\ UNCHANGED walk /\ UNCHANGED books
      BY <1>4 DEF EnterByLimit
    <2>2. Held' = Held /\ lastExit' = lastExit /\ Resting' = Resting \cup {t}
      BY <1>4, <2>1, OrderResting DEF books, Held
    <2>. QED BY <2>1, <2>2, WalkAdmitted
  <1>5. CASE (\E t \in Tokens : PassOver(t)) \/ Report \/ UNCHANGED vars
    <2>1. UNCHANGED <<bar, pos, pending, lastExit>>
      BY <1>5 DEF PassOver, Report, vars, walk, books
    <2>2. Held' = Held /\ Resting' = Resting
      BY <2>1 DEF Held, Resting
    <2>3. \/ pass' = pass /\ todo' \subseteq todo
          \/ pass' \notin {"exits", "fills"}
      BY <1>5 DEF PassOver, Consider, Visit, Report, vars, walk
    <2>. QED BY <2>1, <2>2, <2>3 DEF WalkInv
  <1>6. CASE NextPass
    <2>1. UNCHANGED <<pos, pending, lastExit>>
      BY <1>6 DEF NextPass, books
    <2>2. Held' = Held /\ Resting' = Resting
      BY <2>1 DEF Held, Resting
    <2>3. bar' \in {bar, bar + 1} /\ \A t \in Resting : lastExit[t] \in Int /\ bar \in Nat
      BY <1>6 DEF NextPass, Typed, Resting
    <2>4. \A t \in Resting : bar' - lastExit[t] >= Cooldown
      BY <2>3, ConstantsNat DEF WalkInv
    <2>5. /\ pass' = "exits" => todo' = Held
          /\ pass' = "fills" => todo' = Resting
      BY <1>6 DEF NextPass
    <2>. QED BY <2>1, <2>2, <2>4, <2>5 DEF WalkInv
  <1>. QED BY <1>1, <1>2, <1>3, <1>4, <1>5, <1>6, Steps

-----------------------------------------------------------------------------
(* Records and cash *)

\* A set of natural numbers that is not empty has a least element: what stands in
\* for induction here, as a least counterexample.
LEMMA LeastNumber ==
    ASSUME NEW T \in SUBSET Nat, NEW n \in T
    PROVE  \E m \in T : \A k \in T : m <= k
  <1>. DEFINE S == 0 .. n
              Below(m) == {k \in S : k <= m}
              U == {Below(m) : m \in T \cap S}
  <1>1. IsFiniteSet(S) /\ U \subseteq FiniteSubsetsOf(S) /\ U # {}
    <2>1. IsFiniteSet(S) /\ n \in S
      BY FS_Interval
    <2>2. \A m : IsFiniteSet(Below(m))
      BY <2>1, FS_Subset
    <2>. QED BY <2>1, <2>2 DEF FiniteSubsetsOf
  <1>2. PICK b \in U : \A c \in U : <<c, b>> \notin StrictSubsetOrdering(S)
    <2>. HIDE DEF U
    <2>. QED BY <1>1, FS_StrictSubsetOrderingWellFounded, WFMin
  <1>3. PICK m \in T \cap S : b = Below(m)
    OBVIOUS
  <1>4. ASSUME NEW k \in T, k < m PROVE FALSE
    <2>1. k \in S /\ Below(k) \subseteq Below(m) /\ m \in Below(m) /\ m \notin Below(k)
      BY <1>4
    <2>2. <<Below(k), Below(m)>> \in StrictSubsetOrdering(S)
      BY <2>1 DEF StrictSubsetOrdering
    <2>. QED BY <1>2, <1>3, <2>1, <2>2
  <1>. QED BY <1>3, <1>4

\* What cash has come to after each of the records.
After(s) == CHOOSE g : g = [i \in 0 .. Len(s) |->
                               IF i = 0 THEN Start ELSE g[i - 1] + Flow(s[i])]

LEMMA AfterExists ==
    ASSUME NEW s, NEW n \in Nat
    PROVE  \E g : g = [i \in 0 .. n |-> IF i = 0 THEN Start ELSE g[i - 1] + Flow(s[i])]
  <1>. DEFINE Table(g, m) ==
                 g = [i \in 0 .. m |-> IF i = 0 THEN Start ELSE g[i - 1] + Flow(s[i])]
              T == {m \in Nat : ~\E g : Table(g, m)}
  <1>. SUFFICES ASSUME n \in T PROVE FALSE
    OBVIOUS
  <1>1. PICK m \in T : \A k \in T : m <= k
    <2>1. T \in SUBSET Nat
      OBVIOUS
    <2>. HIDE DEF T
    <2>. QED BY <2>1, LeastNumber
  <1>2. m # 0
    <2>. SUFFICES ASSUME m = 0 PROVE FALSE
      OBVIOUS
    <2>. DEFINE g == [i \in 0 .. m |-> Start]
    <2>1. \A i \in 0 .. m : i = 0
      OBVIOUS
    <2>2. g = [i \in 0 .. m |-> IF i = 0 THEN Start ELSE g[i - 1] + Flow(s[i])]
      BY <2>1
    <2>3. Table(g, m)
      BY <2>2
    <2>. HIDE DEF g, Table
    <2>. QED BY <1>1, <2>3
  <1>3. m \in Nat /\ m - 1 \in Nat /\ ~(m <= m - 1)
    BY <1>1, <1>2
  <1>4. PICK g : Table(g, m - 1)
    BY <1>1, <1>3
  <1>. DEFINE h == [i \in 0 .. m |-> IF i = 0 THEN Start ELSE g[i - 1] + Flow(s[i])]
  <1>5. ASSUME NEW i \in 0 .. m
        PROVE  h[i] = IF i = 0 THEN Start ELSE h[i - 1] + Flow(s[i])
    <2>. SUFFICES ASSUME i # 0 PROVE h[i - 1] = g[i - 1]
      OBVIOUS
    <2>1. i - 1 \in 0 .. m - 1 /\ i - 1 \in 0 .. m
      BY <1>3
    <2>. QED BY <1>4, <2>1
  <1>6. h = [i \in 0 .. m |-> h[i]]
    OBVIOUS
  <1>. HIDE DEF h
  <1>7. Table(h, m)
    BY <1>5, <1>6
  <1>. HIDE DEF Table
  <1>. QED BY <1>1, <1>7

LEMMA AfterStep ==
    ASSUME NEW s \in Seq(Trade)
    PROVE  /\ After(s)[0] = Start
           /\ \A i \in 1 .. Len(s) : After(s)[i] = After(s)[i - 1] + Flow(s[i])
           /\ Balance(s) = After(s)[Len(s)]
  <1>. DEFINE g == After(s)
  <1>1. Len(s) \in Nat
    OBVIOUS
  <1>2. g = [i \in 0 .. Len(s) |-> IF i = 0 THEN Start ELSE g[i - 1] + Flow(s[i])]
    BY <1>1, AfterExists DEF After
  <1>3. Balance(s) = g[Len(s)]
    BY DEF Balance, After
  <1>. HIDE DEF g
  <1>4. g[0] = Start /\ \A i \in 1 .. Len(s) : g[i] = g[i - 1] + Flow(s[i])
    <2>1. 0 \in 0 .. Len(s) /\ \A i \in 1 .. Len(s) : i \in 0 .. Len(s) /\ i # 0
      BY <1>1
    <2>. QED BY <1>2, <2>1
  <1>. QED BY <1>3, <1>4 DEF g

LEMMA FlowInt == ASSUME NEW r \in Trade PROVE Flow(r) \in Int
  BY DEF Flow, Trade

\* Two accounts that differ by d from some record on.
LEMMA AccountsDiffer ==
    ASSUME NEW s \in Seq(Trade), NEW u \in Seq(Trade), NEW n \in Nat,
           n <= Len(s), n <= Len(u), NEW i \in 1 .. n + 1, NEW d \in Int,
           \A k \in 1 .. n : Flow(u[k]) = Flow(s[k]) + (IF k = i THEN d ELSE 0)
    PROVE  /\ After(s)[n] \in Int
           /\ After(u)[n] = After(s)[n] + (IF n < i THEN 0 ELSE d)
  <1>. DEFINE Right(k) == /\ After(s)[k] \in Int
                          /\ After(u)[k] = After(s)[k] + (IF k < i THEN 0 ELSE d)
              T == {k \in 0 .. n : ~Right(k)}
  <1>. SUFFICES ASSUME n \in T PROVE FALSE
    OBVIOUS
  <1>1. PICK m \in T : \A k \in T : m <= k
    <2>1. T \in SUBSET Nat
      OBVIOUS
    <2>. HIDE DEF T
    <2>. QED BY <2>1, LeastNumber
  <1>2. m # 0
    <2>1. After(s)[0] = Start /\ After(u)[0] = Start /\ Start \in Int /\ 0 < i
      BY AfterStep, ConstantsNat
    <2>. QED BY <1>1, <2>1
  <1>3. m \in 1 .. n /\ m - 1 \in 0 .. n /\ ~(m <= m - 1)
    BY <1>1, <1>2
  <1>4. Right(m - 1)
    BY <1>1, <1>3
  <1>5. m \in 1 .. Len(s) /\ m \in 1 .. Len(u)
    BY <1>3
  <1>6. /\ After(s)[m] = After(s)[m - 1] + Flow(s[m])
        /\ After(u)[m] = After(u)[m - 1] + Flow(u[m])
        /\ Flow(u[m]) = Flow(s[m]) + (IF m = i THEN d ELSE 0)
        /\ Flow(s[m]) \in Int
    BY <1>3, <1>5, AfterStep, FlowInt
  <1>7. Right(m)
    <2>1. CASE m < i
      BY <1>3, <1>4, <1>6, <2>1
    <2>2. CASE m = i
      BY <1>3, <1>4, <1>6, <2>2
    <2>3. CASE m > i
      BY <1>3, <1>4, <1>6, <2>3
    <2>. QED BY <1>3, <2>1, <2>2, <2>3
  <1>. QED BY <1>1, <1>7

\* Another record adds its flow.
LEMMA BalanceAppend ==
    ASSUME NEW s \in Seq(Trade), NEW r \in Trade
    PROVE  Balance(Append(s, r)) = Balance(s) + Flow(r)
  <1>. DEFINE u == Append(s, r)
              n == Len(s)
  <1>1. /\ u \in Seq(Trade) /\ Len(u) = n + 1 /\ n \in Nat /\ u[n + 1] = r
        /\ \A k \in 1 .. n : u[k] = s[k]
    OBVIOUS
  <1>. HIDE DEF u
  <1>2. \A k \in 1 .. n : Flow(u[k]) = Flow(s[k]) + (IF k = n + 1 THEN 0 ELSE 0)
    <2>1. \A k \in 1 .. n : s[k] \in Trade
      OBVIOUS
    <2>. QED BY <1>1, <2>1, FlowInt
  <1>3. n <= Len(s) /\ n <= Len(u) /\ n + 1 \in 1 .. n + 1 /\ 0 \in Int /\ n < n + 1
    BY <1>1
  <1>4. After(s)[n] \in Int /\ After(u)[n] = After(s)[n] + (IF n < n + 1 THEN 0 ELSE 0)
    <2>. HIDE DEF n
    <2>. QED BY <1>1, <1>2, <1>3, AccountsDiffer
  <1>5. After(u)[n + 1] = After(u)[n] + Flow(r)
    <2>1. n + 1 \in 1 .. Len(u) /\ n + 1 - 1 = n
      BY <1>1
    <2>. QED BY <1>1, <2>1, AfterStep
  <1>6. Balance(u) = After(u)[n + 1] /\ Balance(s) = After(s)[n]
    BY <1>1, AfterStep
  <1>. QED BY <1>4, <1>5, <1>6 DEF u

\* A record that is rewritten changes the balance by what its flow changes.
LEMMA BalanceRewrite ==
    ASSUME NEW s \in Seq(Trade), NEW i \in 1 .. Len(s), NEW r \in Trade
    PROVE  Balance([s EXCEPT ![i] = r]) = Balance(s) + (Flow(r) - Flow(s[i]))
  <1>. DEFINE u == [s EXCEPT ![i] = r]
              n == Len(s)
              d == Flow(r) - Flow(s[i])
  <1>1. /\ u \in Seq(Trade) /\ Len(u) = n /\ n \in Nat /\ u[i] = r
        /\ \A k \in 1 .. n : k # i => u[k] = s[k]
        /\ \A k \in 1 .. n : s[k] \in Trade
    OBVIOUS
  <1>. HIDE DEF u
  <1>2. d \in Int /\ \A k \in 1 .. n : Flow(u[k]) = Flow(s[k]) + (IF k = i THEN d ELSE 0)
    BY <1>1, FlowInt
  <1>3. n <= Len(s) /\ n <= Len(u) /\ i \in 1 .. n + 1 /\ ~(n < i)
    BY <1>1
  <1>4. After(u)[n] = After(s)[n] + (IF n < i THEN 0 ELSE d)
    <2>. HIDE DEF n, d
    <2>. QED BY <1>1, <1>2, <1>3, AccountsDiffer
  <1>5. Balance(u) = After(u)[n] /\ Balance(s) = After(s)[n]
    BY <1>1, AfterStep
  <1>. QED BY <1>3, <1>4, <1>5 DEF u

LEMMA RecordInit == Init => RecordInv
  <1>. SUFFICES ASSUME Init PROVE RecordInv
    OBVIOUS
  <1>1. trades = <<>> /\ trades \in Seq(Trade) /\ Len(trades) = 0 /\ cash = Start
        /\ Held = {} /\ Resting = {}
    BY DEF Init, Held, Resting
  <1>2. Balance(trades) = Start
    BY <1>1, AfterStep
  <1>. QED BY <1>1, <1>2 DEF RecordInv

\* Records and positions are left alone, but for the peak of a position.
LEMMA RecordKept ==
    ASSUME RecordInv, UNCHANGED <<cash, trades>>, Held' = Held,
           \A u \in Held : pos'[u].idx = pos[u].idx /\ pos'[u].qty = pos[u].qty,
           \A u \in Resting' : Buys(pending'[u].limit)
    PROVE  RecordInv'
  <1>1. \A u \in Held : Matched(u)'
    BY DEF RecordInv, Matched
  <1>2. \A i \in 1 .. Len(trades) : Settled(i)'
    BY DEF RecordInv, Settled
  <1>. QED BY <1>1, <1>2 DEF RecordInv

LEMMA RecordClosed ==
    ASSUME Typed, RecordInv, NEW t \in Held, Close(t), pending' = pending
    PROVE  RecordInv'
  <1>0. PICK i : i = pos[t].idx
    OBVIOUS
  <1>. DEFINE gross == Worth(t)
              r == trades[i]
              s == trades'[i]
  <1>1. /\ i \in 1 .. Len(trades) /\ trades' \in Seq(Trade)
        /\ trades' = [trades EXCEPT ![i] = s]
        /\ s.exit = price[t] /\ s.back = gross - Leg(gross) /\ s.fee = r.fee + Leg(gross)
        /\ s.token = t /\ s.usd = r.usd /\ s.qty = r.qty /\ s.px = r.px
    BY <1>0, CloseRecords
  <1>2. t \in Tokens /\ Held' = Held \ {t} /\ Resting' = Resting
    BY CloseHeld DEF Held, Resting
  <1>3. /\ trades \in Seq(Trade) /\ r \in Trade /\ s \in Trade
        /\ Len(trades') = Len(trades)
        /\ \A k \in 1 .. Len(trades) : k # i => trades'[k] = trades[k]
    BY <1>1 DEF Typed
  <1>4. /\ r.exit = 0 /\ r.token = t /\ r.qty = pos[t].qty
        /\ r.qty * r.px = r.usd - Leg(r.usd) /\ r.fee = Leg(r.usd)
    BY <1>0, <1>1 DEF RecordInv, Matched, Settled
  <1>5. /\ r.usd \in Nat /\ r.qty \in Nat /\ r.px \in Nat /\ price[t] \in Nat \ {0}
        /\ gross \in Nat /\ Leg(gross) \in Nat /\ Leg(r.usd) \in Nat /\ cash \in Nat
    BY <1>2, <1>3, ConstantsNat, ProceedsNat, LegNat DEF Trade, Typed, Closes
  <1>6. /\ \A u \in Held' : u \in Held /\ u # t /\ pos'[u] = pos[u]
        /\ cash' = cash + gross - Leg(gross)
    BY <1>2 DEF Close, Typed, Held
  <1>. HIDE DEF gross
  <1>7. cash' = Balance(trades')
    <2>1. Balance(trades') = Balance(trades) + (Flow(s) - Flow(r))
      BY <1>1, <1>3, BalanceRewrite
    <2>2. Flow(s) = (gross - Leg(gross)) - r.usd /\ Flow(r) = 0 - r.usd
      BY <1>1, <1>4, <1>5 DEF Flow
    <2>3. cash = Balance(trades)
      BY DEF RecordInv
    <2>. QED BY <1>5, <1>6, <2>1, <2>2, <2>3
  <1>8. ASSUME NEW u \in Held' PROVE Matched(u)'
    <2>1. u \in Held /\ u # t /\ pos'[u] = pos[u] /\ Matched(u)
      BY <1>6 DEF RecordInv
    <2>2. pos[u].idx # i
      BY <1>4, <2>1 DEF Matched
    <2>. QED BY <1>3, <2>1, <2>2 DEF Matched
  <1>9. ASSUME NEW k \in 1 .. Len(trades'), k # i PROVE Settled(k)'
    <2>1. k \in 1 .. Len(trades) /\ trades'[k] = trades[k] /\ Settled(k)
      BY <1>3, <1>9 DEF RecordInv
    <2>2. trades[k].exit = 0 => /\ trades[k].token \in Held'
                                /\ pos'[trades[k].token] = pos[trades[k].token]
      BY <1>0, <1>2, <1>6, <1>9, <2>1 DEF Settled
    <2>. QED BY <2>1, <2>2 DEF Settled
  <1>10. Settled(i)'
    <2>1. gross = r.qty * price[t]
      BY <1>4 DEF Worth, gross
    <2>2. r.qty * (price[t] - r.px) = r.qty * price[t] - r.qty * r.px
      BY <1>5
    <2>3. r.qty * price[t] \in Nat /\ r.qty * r.px \in Nat
      BY <1>5, ProductNat
    <2>. DEFINE bought == r.qty * r.px
                sold == r.qty * price[t]
                feeIn == Leg(r.usd)
                feeOut == Leg(gross)
                usd == r.usd
    <2>4. /\ bought \in Nat /\ sold \in Nat /\ feeIn \in Nat /\ feeOut \in Nat /\ usd \in Nat
          /\ gross = sold /\ bought = usd - feeIn
      BY <1>4, <1>5, <2>1, <2>3
    <2>. HIDE DEF bought, sold, feeIn, feeOut, usd
    <2>5. ((gross - feeOut) - usd) + (feeIn + feeOut) = sold - bought
      BY <2>4
    <2>6. (s.back - s.usd) + s.fee = s.qty * (s.exit - s.px)
      BY <1>1, <1>4, <2>2, <2>5 DEF bought, sold, feeIn, feeOut, usd
    <2>7. s.exit # 0 /\ s.qty * s.px = s.usd - Leg(s.usd)
      BY <1>1, <1>4, <1>5
    <2>. QED BY <2>6, <2>7 DEF Settled
  <1>11. \A u \in Resting' : Buys(pending'[u].limit)
    BY <1>2 DEF RecordInv
  <1>12. \A k \in 1 .. Len(trades') : Settled(k)'
    BY <1>9, <1>10
  <1>. QED BY <1>7, <1>8, <1>11, <1>12 DEF RecordInv

LEMMA RecordOpened ==
    ASSUME Typed, RecordInv, NEW t \in Tokens, t \notin Held, NEW usd \in Tickets, usd <= cash,
           NEW px \in Nat \ {0}, Buys(px), Open(t, usd, px),
           \A u \in Resting' : Buys(pending'[u].limit)
    PROVE  RecordInv'
  <1>. DEFINE n == Len(trades) + 1
              r == [token |-> t, usd |-> usd, qty |-> (usd - Leg(usd)) \div px, px |-> px,
                    exit |-> 0, back |-> 0, fee |-> Leg(usd)]
              p == [qty |-> (usd - Leg(usd)) \div px, px |-> px, peak |-> px, idx |-> n]
  <1>1. trades' = Append(trades, r) /\ pos' = [pos EXCEPT ![t] = p] /\ cash' = cash - usd
    BY DEF Open
  <1>2. r \in Trade /\ usd \in Nat /\ trades \in Seq(Trade) /\ cash \in Nat
        /\ pos \in [Tokens -> Position]
    BY TicketTyped DEF Typed
  <1>3. /\ r.exit = 0 /\ r.back = 0 /\ r.token = t /\ r.usd = usd /\ r.px = px
        /\ r.qty = p.qty /\ p.idx = n /\ r.fee = Leg(r.usd)
        /\ r.qty * r.px = r.usd - Leg(r.usd)
    BY DEF Buys
  <1>. HIDE DEF r, p
  <1>4. /\ Len(trades') = n /\ trades'[n] = r /\ Len(trades) \in Nat
        /\ \A k \in 1 .. Len(trades) : trades'[k] = trades[k]
    BY <1>1, <1>2, AppendProperties
  <1>5. pos'[t] = p /\ \A u \in Tokens \ {t} : pos'[u] = pos[u]
    BY <1>1, <1>2
  <1>6. Held' = Held \cup {t}
    BY OpenHeld
  <1>7. cash' = Balance(trades')
    <2>1. Balance(trades') = Balance(trades) + Flow(r)
      BY <1>1, <1>2, BalanceAppend
    <2>2. Flow(r) = 0 - usd
      BY <1>3 DEF Flow
    <2>3. cash = Balance(trades)
      BY DEF RecordInv
    <2>. QED BY <1>1, <1>2, <2>1, <2>2, <2>3
  <1>8. ASSUME NEW u \in Held' PROVE Matched(u)'
    <2>1. CASE u = t
      <3>1. n \in 1 .. n
        BY <1>4
      <3>. QED BY <1>3, <1>4, <1>5, <2>1, <3>1 DEF Matched
    <2>2. CASE u # t
      <3>1. u \in Held /\ pos'[u] = pos[u] /\ Matched(u)
        BY <1>5, <1>6, <2>2 DEF RecordInv, Held
      <3>2. pos[u].idx \in 1 .. Len(trades) /\ pos[u].idx \in 1 .. Len(trades')
        BY <1>4, <3>1 DEF Matched
      <3>. QED BY <1>4, <3>1, <3>2 DEF Matched
    <2>. QED BY <2>1, <2>2
  <1>9. ASSUME NEW k \in 1 .. Len(trades') PROVE Settled(k)'
    <2>1. CASE k = n
      BY <1>3, <1>4, <1>5, <1>6, <2>1 DEF Settled
    <2>2. CASE k # n
      <3>1. k \in 1 .. Len(trades) /\ trades'[k] = trades[k] /\ Settled(k)
        BY <1>4, <2>2 DEF RecordInv
      <3>2. trades[k].exit = 0 => /\ trades[k].token \in Held'
                                  /\ pos'[trades[k].token] = pos[trades[k].token]
        BY <1>5, <1>6, <3>1 DEF Settled, Held
      <3>. QED BY <3>1, <3>2 DEF Settled
    <2>. QED BY <2>1, <2>2
  <1>. QED BY <1>7, <1>8, <1>9 DEF RecordInv

LEMMA RecordStep ==
    ASSUME Typed, WalkInv, RecordInv, [Next]_vars
    PROVE  RecordInv'
  <1>1. ASSUME NEW t \in Tokens, NEW f, VisitHeld(t, f)
        PROVE  RecordInv'
    <2>1. t \in Held /\ pending' = pending
      BY <1>1 DEF VisitHeld, Visit, WalkInv
    <2>2. CASE Close(t)
      BY <2>1, <2>2, RecordClosed
    <2>3. CASE pos' = [pos EXCEPT ![t].peak = Peak(t)] /\ UNCHANGED <<cash, lastExit, trades>>
      <3>1. Held' = Held
        BY <2>1, <2>3, PeakHeld
      <3>2. \A u \in Held : pos'[u].idx = pos[u].idx /\ pos'[u].qty = pos[u].qty
        BY <2>3 DEF Typed, Held, Position
      <3>3. \A u \in Resting' : Buys(pending'[u].limit)
        BY <2>1 DEF RecordInv, Resting
      <3>. QED BY <2>3, <3>1, <3>2, <3>3, RecordKept
    <2>. QED BY <1>1, <2>2, <2>3 DEF VisitHeld
  <1>2. ASSUME NEW t \in Tokens, Fill(t)
        PROVE  RecordInv'
    <2>1. t \in Resting /\ t \notin Held
      BY <1>2 DEF Fill, Visit, WalkInv
    <2>2. pending' = pending \/ pending' = [pending EXCEPT ![t] = NoOrder]
      BY <1>2 DEF Fill
    <2>3. \A u \in Resting' : Buys(pending'[u].limit)
      BY <2>2, DropResting DEF RecordInv, Resting, Typed
    <2>4. CASE UNCHANGED books
      <3>1. Held' = Held
        BY <2>4 DEF books, Held
      <3>. QED BY <2>3, <2>4, <3>1, RecordKept DEF books
    <2>5. ASSUME NEW usd \in Sizes(pending[t].scale), Open(t, usd, pending[t].limit)
          PROVE  RecordInv'
      <3>1. usd \in Tickets /\ usd <= cash
        BY DEF Sizes
      <3>. QED BY <2>1, <2>3, <2>5, <3>1, LimitNat, RecordOpened
    <2>. QED BY <1>2, <2>4, <2>5 DEF Fill
  <1>3. ASSUME NEW t \in Tokens, NEW f, EnterAtClose(t, f)
        PROVE  RecordInv'
    <2>1. t \notin Held /\ pending' = pending
      BY <1>3 DEF EnterAtClose, Admitted
    <2>2. PICK usd \in Sizes(gate) : Open(t, usd, price[t])
      BY <1>3 DEF EnterAtClose
    <2>3. usd \in Tickets /\ usd <= cash
      BY DEF Sizes
    <2>4. price[t] \in Nat \ {0} /\ Buys(price[t])
      BY ConstantsNat, PricesBuy DEF Typed, Closes
    <2>5. \A u \in Resting' : Buys(pending'[u].limit)
      BY <2>1 DEF RecordInv, Resting
    <2>. QED BY <2>1, <2>2, <2>3, <2>4, <2>5, RecordOpened
  <1>4. ASSUME NEW t \in Tokens, NEW f, EnterByLimit(t, f)
        PROVE  RecordInv'
    <2>1. UNCHANGED books
      BY <1>4 DEF EnterByLimit
    <2>2. Held' = Held
      BY <2>1 DEF books, Held
    <2>3. /\ Resting' = Resting \cup {t} /\ Buys(pending'[t].limit)
          /\ \A u \in Tokens \ {t} : pending'[u] = pending[u]
      BY <1>4, OrderResting DEF EnterByLimit, Typed
    <2>4. \A u \in Resting' : Buys(pending'[u].limit)
      BY <2>3 DEF RecordInv, Resting
    <2>. QED BY <2>1, <2>2, <2>4, RecordKept DEF books
  <1>5. CASE (\E t \in Tokens : PassOver(t)) \/ NextPass \/ Report \/ UNCHANGED vars
    <2>1. UNCHANGED <<cash, pos, trades, pending>>
      BY <1>5 DEF PassOver, NextPass, Report, vars, books
    <2>2. Held' = Held /\ Resting' = Resting
      BY <2>1 DEF Held, Resting
    <2>. QED BY <2>1, <2>2, RecordKept DEF RecordInv
  <1>. QED BY <1>1, <1>2, <1>3, <1>4, <1>5, Steps

-----------------------------------------------------------------------------
(* The promises *)

\* The inductive invariant of a simulation.
BookInv == Typed /\ WalkInv /\ RecordInv

LEMMA BookInit == Init => BookInv
  BY TypedInit, WalkInit, RecordInit DEF BookInv

LEMMA BookStep == BookInv /\ [Next]_vars => BookInv'
  BY TypedStep, WalkStep, RecordStep DEF BookInv

LEMMA Booked == Spec => []BookInv
  BY BookInit, BookStep, PTL DEF Spec

\* For every number of slots: positions and orders never exceed them, and no
\* fill is turned away for want of one.
THEOREM SlotsHold == Spec => []SlotsBounded
  <1>1. BookInv => SlotsBounded
    <2>. SUFFICES ASSUME BookInv PROVE SlotsBounded
      OBVIOUS
    <2>1. Cardinality(Held) + Cardinality(Resting) <= MaxConcurrent
      BY DEF BookInv, WalkInv
    <2>2. ASSUME pass = "fills", NEW t \in todo, price[t] <= pending[t].limit
          PROVE  Touched(t)
      <3>1. t \in Resting
        BY <2>2 DEF BookInv, WalkInv
      <3>2. Cardinality(Resting) # 0
        BY <3>1, SetsFinite, FS_EmptySet
      <3>3. Cardinality(Held) < MaxConcurrent
        BY <2>1, <3>2, SetsFinite, ConstantsNat
      <3>. QED BY <2>2, <3>3 DEF Touched
    <2>. QED BY <2>1, <2>2 DEF SlotsBounded
  <1>. QED BY <1>1, Booked, PTL

\* For every set of tokens, prices and tickets: the trade records account for
\* all the money, and each position is found as its one open trade.
THEOREM RecordsBalance == Spec => []BooksBalance
  <1>1. BookInv => BooksBalance
    <2>. SUFFICES ASSUME BookInv PROVE BooksBalance
      OBVIOUS
    <2>1. /\ Typed /\ RecordInv /\ cash = Balance(trades)
          /\ \A t \in Held : Matched(t)
          /\ \A i \in 1 .. Len(trades) : Settled(i)
      BY DEF BookInv, RecordInv
    <2>2. ASSUME NEW t \in Held PROVE {i \in Opened : trades[i].token = t} = {Record(t)}
      <3>1. Record(t) = pos[t].idx
        BY <2>1, OwnRecord
      <3>2. pos[t].idx \in Opened /\ trades[pos[t].idx].token = t
        BY <2>1 DEF Matched, Opened, Closed
      <3>3. \A i \in Opened : trades[i].token = t => i = pos[t].idx
        BY <2>1 DEF Settled, Opened, Closed
      <3>. QED BY <3>1, <3>2, <3>3
    <2>3. {trades[i].token : i \in Opened} = Held
      <3>1. \A i \in Opened : trades[i].token \in Held
        BY <2>1 DEF Settled, Opened, Closed
      <3>2. \A t \in Held : pos[t].idx \in Opened /\ trades[pos[t].idx].token = t
        BY <2>1 DEF Matched, Opened, Closed
      <3>. QED BY <3>1, <3>2
    <2>4. \A i \in Closed :
            trades[i].back - trades[i].usd + trades[i].fee
              = trades[i].qty * (trades[i].exit - trades[i].px)
      BY <2>1 DEF Settled, Closed
    <2>. QED BY <2>1, <2>2, <2>3, <2>4 DEF BooksBalance
  <1>. QED BY <1>1, Booked, PTL

\* What the lifecycle sees of a simulation.
Seen == [t \in Tokens |-> IF t \in Held THEN 1 ELSE 0]

LEMMA SeenKept ==
    ASSUME UNCHANGED <<bar, lastExit>>, Held' = Held
    PROVE  UNCHANGED Lifecycle!vars
  BY DEF Lifecycle!vars

LEMMA SeenOpened ==
    ASSUME Typed, NEW t \in Tokens, t \notin Held, Held' = Held \cup {t},
           UNCHANGED <<bar, lastExit>>, bar - lastExit[t] >= Cooldown
    PROVE  Lifecycle!Next
  <1>1. Seen[t] = 0 /\ Seen' = [Seen EXCEPT ![t] = 1]
    BY DEF Seen
  <1>2. Lifecycle!Open(t)
    BY <1>1 DEF Lifecycle!Open, Seen
  <1>. QED BY <1>2 DEF Lifecycle!Next

LEMMA LifecycleStep ==
    ASSUME BookInv, [Next]_vars
    PROVE  [Lifecycle!Next]_(Lifecycle!vars)
  <1>0. Typed /\ WalkInv /\ RecordInv
    BY DEF BookInv
  <1>1. ASSUME NEW t \in Tokens, NEW f, VisitHeld(t, f)
        PROVE  [Lifecycle!Next]_(Lifecycle!vars)
    <2>1. t \in Held /\ bar' = bar
      BY <1>0, <1>1 DEF VisitHeld, Visit, WalkInv, walk
    <2>2. CASE Close(t)
      <3>1. Held' = Held \ {t} /\ lastExit' = [lastExit EXCEPT ![t] = bar]
        BY <1>0, <2>1, <2>2, CloseHeld DEF Close, Left
      <3>2. Seen[t] = 1 /\ Seen' = [Seen EXCEPT ![t] = 0]
        BY <2>1, <3>1 DEF Seen
      <3>3. Lifecycle!Close(t)
        BY <2>1, <3>1, <3>2 DEF Lifecycle!Close, Seen
      <3>. QED BY <3>3 DEF Lifecycle!Next
    <2>3. CASE pos' = [pos EXCEPT ![t].peak = Peak(t)] /\ UNCHANGED <<cash, lastExit, trades>>
      <3>1. Held' = Held
        BY <1>0, <2>1, <2>3, PeakHeld
      <3>. QED BY <2>1, <2>3, <3>1, SeenKept
    <2>. QED BY <1>1, <2>2, <2>3 DEF VisitHeld
  <1>2. ASSUME NEW t \in Tokens, Fill(t)
        PROVE  [Lifecycle!Next]_(Lifecycle!vars)
    <2>1. t \in Resting /\ t \notin Held /\ bar' = bar /\ bar - lastExit[t] >= Cooldown
      BY <1>0, <1>2 DEF Fill, Visit, WalkInv, walk
    <2>2. CASE UNCHANGED books
      BY <2>1, <2>2, SeenKept DEF books, Held
    <2>3. ASSUME NEW usd, Open(t, usd, pending[t].limit)
          PROVE  Lifecycle!Next
      <3>1. Held' = Held \cup {t} /\ lastExit' = lastExit
        BY <1>0, <2>3, OpenHeld DEF Open
      <3>. QED BY <1>0, <2>1, <3>1, SeenOpened
    <2>. QED BY <1>2, <2>2, <2>3 DEF Fill
  <1>3. ASSUME NEW t \in Tokens, NEW f, EnterAtClose(t, f)
        PROVE  [Lifecycle!Next]_(Lifecycle!vars)
    <2>1. t \notin Held /\ bar' = bar /\ bar - lastExit[t] >= Cooldown
      BY <1>3 DEF EnterAtClose, Admitted, walk
    <2>2. PICK usd : Open(t, usd, price[t])
      BY <1>3 DEF EnterAtClose
    <2>3. Held' = Held \cup {t} /\ lastExit' = lastExit
      BY <1>0, <2>2, OpenHeld DEF Open
    <2>. QED BY <1>0, <2>1, <2>3, SeenOpened
  <1>4. CASE \/ \E t \in Tokens : \E f : EnterByLimit(t, f)
             \/ \E t \in Tokens : PassOver(t)
             \/ Report \/ UNCHANGED vars
    BY <1>4, SeenKept DEF EnterByLimit, PassOver, Report, vars, walk, books, Held
  <1>5. CASE NextPass
    <2>1. UNCHANGED <<pos, lastExit>> /\ bar' \in {bar, bar + 1}
      BY <1>5 DEF NextPass, books
    <2>2. Held' = Held
      BY <2>1 DEF Held
    <2>3. CASE bar' = bar
      BY <2>1, <2>2, <2>3, SeenKept
    <2>4. CASE bar' = bar + 1
      BY <2>1, <2>2, <2>4 DEF Lifecycle!Next, Lifecycle!Advance
    <2>. QED BY <2>1, <2>3, <2>4
  <1>. QED BY <1>1, <1>2, <1>3, <1>4, <1>5, Steps

\* Every simulation implements the lifecycle the trading cycle promises: one
\* position a token, a cooldown after every exit.
THEOREM SimulationKeepsLifecycle == Spec => LifecycleKept
  <1>1. Init => Lifecycle!Init
    BY DEF Init, Lifecycle!Init, Held
  <1>2. BookInv /\ [Next]_vars => [Lifecycle!Next]_(Lifecycle!vars)
    BY LifecycleStep
  <1>. QED BY <1>1, <1>2, Booked, PTL DEF Spec, LifecycleKept, Lifecycle!Spec
=============================================================================
