--------------------------- MODULE X402Server_proofs ---------------------------
(***************************************************************************)
(* Payment and product, for every catalogue of offers, number of threads    *)
(* and set of faults of X402Server.                                         *)
(***************************************************************************)
EXTENDS X402Server, TLAPS

Working == {"settle", "send", "wait", "produce"}
Answers == {"none", "402", "502", "data", "error", "closed"}

ShopType ==
    /\ arrived \in Nat /\ height \in Nat
    /\ path \in [Requests -> Wanted \cup {"none"}]
    /\ pc \in [Requests -> Working \cup {"new", "end"}]
    /\ auth \in [Requests -> Auths \cup {NoAuth}]
    /\ nonce \in [Requests -> Nonces \cup {NoNonce}]
    /\ resp \in [Requests -> Answers]
    /\ charges \in [Auths -> Nat]
    /\ flight \subseteq Tx /\ mined \subseteq Auths \X Nonces \X BOOLEAN

ForUs(a) == a \in Auths /\ Offer[a].toUs /\ Offer[a].value >= Price

\* A thread that works has an authorization for us; from the goods on it has the
\* receipt as well.  Revenue is booked for authorizations that were paid.
ShopInv ==
    /\ ShopType
    /\ \A r \in Requests :
          /\ r > arrived => pc[r] = "new"
          /\ pc[r] # "end" => resp[r] = "none"
          /\ pc[r] \in Working => path[r] \in Products
          /\ pc[r] \in Working \/ resp[r] \in {"data", "error"} => ForUs(auth[r])
          /\ pc[r] = "produce" \/ resp[r] \in {"data", "error"}
                => Receipt(auth[r], nonce[r], TRUE)
    /\ \A a \in Auths : charges[a] > 0 => a \in Used

LEMMA ShopInit == Init => ShopInv
  BY ShopAssumption DEF Init, ShopInv, ShopType, Working, Answers, Requests, Nonces, Tx

\* A receipt stays, and makes its authorization a used one.
LEMMA ReceiptUsed ==
    ASSUME ShopType, NEW a \in Auths, NEW n, Receipt(a, n, TRUE)
    PROVE  a \in Used
  BY DEF ShopType, Receipt, Used

\* One thread takes a step: every part of the invariant but the charges.
ThreadStep(r) ==
    /\ pc' = [pc EXCEPT ![r] = pc'[r]] /\ resp' = [resp EXCEPT ![r] = resp'[r]]
    /\ pc'[r] \in Working \cup {"end"} /\ resp'[r] \in Answers
    /\ pc'[r] # "end" => resp'[r] = "none"

LEMMA ShopThread ==
    ASSUME ShopInv, NEW r \in Requests, pc[r] \in Working,
           ThreadStep(r),
           UNCHANGED <<arrived, path, auth, height>>,
           flight' \subseteq Tx, mined' = mined,
           nonce' = nonce \/ /\ pc[r] = "settle"
                             /\ \E n \in Nonces : nonce' = [nonce EXCEPT ![r] = n]
                             /\ pc'[r] # "produce" /\ resp'[r] = "none",
           pc'[r] = "produce" \/ resp'[r] \in {"data", "error"}
               => Receipt(auth[r], nonce[r], TRUE),
           \/ UNCHANGED charges
           \/ /\ charges' = [charges EXCEPT ![auth[r]] = @ + 1]
              /\ Receipt(auth[r], nonce[r], TRUE)
    PROVE  ShopInv'
  <1>1. auth[r] \in Auths /\ ForUs(auth[r])
    BY DEF ShopInv, ForUs
  <1>2. nonce' \in [Requests -> Nonces \cup {NoNonce}]
        /\ \A q \in Requests \ {r} : nonce'[q] = nonce[q]
    BY DEF ShopInv, ShopType
  <1>3. pc' \in [Requests -> Working \cup {"new", "end"}] /\ resp' \in [Requests -> Answers]
        /\ \A q \in Requests \ {r} : pc'[q] = pc[q] /\ resp'[q] = resp[q]
    BY DEF ShopInv, ShopType, ThreadStep
  <1>4. charges' \in [Auths -> Nat]
    <2>1. charges \in [Auths -> Nat] /\ charges[auth[r]] + 1 \in Nat
      BY <1>1 DEF ShopInv, ShopType
    <2>. QED BY <1>1, <2>1
  <1>5. ShopType'
    BY <1>2, <1>3, <1>4 DEF ShopInv, ShopType
  <1>6. Used' = Used
    BY DEF Used
  <1>7. \A a \in Auths : charges'[a] > 0 => a \in Used'
    <2>1. auth[r] \in Used \/ UNCHANGED charges
      BY <1>1, ReceiptUsed DEF ShopInv
    <2>. QED BY <1>1, <1>6, <2>1 DEF ShopInv, ShopType
  <1>8. ~(r > arrived)
    <2>1. pc[r] # "new"
      BY DEF Working
    <2>. QED BY <2>1 DEF ShopInv
  <1>9. nonce'[r] = nonce[r] \/ (pc'[r] # "produce" /\ resp'[r] = "none")
    OBVIOUS
  <1>10. /\ r > arrived' => pc'[r] = "new"
         /\ pc'[r] # "end" => resp'[r] = "none"
         /\ pc'[r] \in Working => path'[r] \in Products
         /\ ForUs(auth'[r])
         /\ pc'[r] = "produce" \/ resp'[r] \in {"data", "error"}
               => Receipt(auth[r], nonce[r], TRUE)'
    <2>1. r > arrived' => pc'[r] = "new"
      BY <1>8
    <2>2. pc'[r] # "end" => resp'[r] = "none"
      BY DEF ThreadStep
    <2>3. ForUs(auth'[r])
      BY <1>1
    <2>4. pc'[r] = "produce" \/ resp'[r] \in {"data", "error"}
             => Receipt(auth[r], nonce[r], TRUE)'
      BY <1>9 DEF Receipt
    <2>5. pc'[r] \in Working => path'[r] \in Products
      BY DEF ShopInv
    <2>. QED BY <2>1, <2>2, <2>3, <2>4, <2>5
  <1>11. ASSUME NEW q \in Requests, q # r
         PROVE  /\ q > arrived' => pc'[q] = "new"
                /\ pc'[q] # "end" => resp'[q] = "none"
                /\ pc'[q] \in Working => path'[q] \in Products
                /\ pc'[q] \in Working \/ resp'[q] \in {"data", "error"} => ForUs(auth'[q])
                /\ pc'[q] = "produce" \/ resp'[q] \in {"data", "error"}
                     => Receipt(auth[q], nonce[q], TRUE)'
    BY <1>2, <1>3, <1>11 DEF ShopInv, Receipt
  <1>. QED BY <1>5, <1>7, <1>10, <1>11 DEF ShopInv

\* A request arrives: it is refused, or its authorization is acceptable.
LEMMA ShopArrival ==
    ASSUME ShopInv, NEW r \in Requests, NEW p \in Wanted, NEW a \in Auths,
           VerifyAccepts(r, p, a) \/ VerifyRefuses(r, p, a)
    PROVE  ShopInv'
  <1>1. GetPaid(r, p, a)
    BY DEF VerifyAccepts, VerifyRefuses
  <1>2. r = arrived + 1 /\ arrived' = r /\ auth' = [auth EXCEPT ![r] = a]
        /\ path' = [path EXCEPT ![r] = p] /\ p \in Products
        /\ UNCHANGED <<nonce, charges, flight, mined, height>>
    BY <1>1 DEF GetPaid, chain
  <1>3. \/ /\ pc' = [pc EXCEPT ![r] = "settle"] /\ resp' = resp /\ ForUs(a)
        \/ /\ pc' = [pc EXCEPT ![r] = "end"]
           /\ \E code \in {"402", "closed"} : resp' = [resp EXCEPT ![r] = code]
    BY DEF VerifyAccepts, VerifyRefuses, Goto, Answer, Acceptable, ForUs
  <1>4. ShopType'
    BY <1>2, <1>3 DEF ShopInv, ShopType, Working, Answers
  <1>5. Used' = Used
    BY <1>2 DEF Used
  <1>6. arrived \in Nat /\ resp[r] = "none"
    <2>1. arrived \in Nat
      BY DEF ShopInv, ShopType
    <2>2. r > arrived
      BY <1>2, <2>1
    <2>3. pc[r] = "new"
      BY <2>2 DEF ShopInv
    <2>. QED BY <2>1, <2>3 DEF ShopInv
  <1>7. /\ r > arrived' => pc'[r] = "new"
        /\ pc'[r] # "end" => resp'[r] = "none"
        /\ pc'[r] \in Working => path'[r] \in Products
        /\ pc'[r] \in Working \/ resp'[r] \in {"data", "error"} => ForUs(auth'[r])
        /\ ~(pc'[r] = "produce" \/ resp'[r] \in {"data", "error"})
    BY <1>2, <1>3, <1>6 DEF ShopInv, ShopType, Working
  <1>8. ASSUME NEW q \in Requests, q # r
        PROVE  /\ q > arrived' => pc'[q] = "new"
               /\ pc'[q] # "end" => resp'[q] = "none"
               /\ pc'[q] \in Working => path'[q] \in Products
               /\ pc'[q] \in Working \/ resp'[q] \in {"data", "error"} => ForUs(auth'[q])
               /\ pc'[q] = "produce" \/ resp'[q] \in {"data", "error"}
                    => Receipt(auth[q], nonce[q], TRUE)'
    <2>1. pc'[q] = pc[q] /\ resp'[q] = resp[q] /\ auth'[q] = auth[q]
          /\ path'[q] = path[q]
      BY <1>2, <1>3, <1>8 DEF ShopInv, ShopType
    <2>2. q > arrived' => q > arrived
      BY <1>2, <1>6 DEF Requests
    <2>3. /\ q > arrived => pc[q] = "new"
          /\ pc[q] # "end" => resp[q] = "none"
          /\ pc[q] \in Working => path[q] \in Products
          /\ pc[q] \in Working \/ resp[q] \in {"data", "error"} => ForUs(auth[q])
          /\ pc[q] = "produce" \/ resp[q] \in {"data", "error"}
               => Receipt(auth[q], nonce[q], TRUE)
      BY DEF ShopInv
    <2>4. Receipt(auth[q], nonce[q], TRUE)' = Receipt(auth[q], nonce[q], TRUE)
      BY <1>2, <2>1 DEF Receipt
    <2>. QED BY <2>1, <2>2, <2>3, <2>4, Zenon
  <1>. QED BY <1>2, <1>4, <1>5, <1>7, <1>8 DEF ShopInv

LEMMA ShopThreadNext ==
    ASSUME ShopInv, NEW r \in Requests, Thread(r)
    PROVE  ShopInv'
  <1>1. /\ pc \in [Requests -> Working \cup {"new", "end"}]
        /\ resp \in [Requests -> Answers] /\ flight \subseteq Tx
        /\ nonce \in [Requests -> Nonces \cup {NoNonce}]
    BY DEF ShopInv, ShopType
  <1>2. pc[r] \in Working => ForUs(auth[r]) /\ resp[r] = "none"
    BY DEF ShopInv, Working
  <1>3. CASE ReadNonce(r)
    <2>1. PICK n \in Nonces : nonce' = [nonce EXCEPT ![r] = n]
      BY <1>3 DEF ReadNonce
    <2>2. /\ pc[r] = "settle" /\ pc' = [pc EXCEPT ![r] = "send"]
          /\ UNCHANGED <<arrived, path, auth, height, resp, charges, flight, mined>>
      BY <1>3 DEF ReadNonce, Goto, chain
    <2>3. ThreadStep(r) /\ pc'[r] = "send" /\ resp'[r] = "none" /\ pc[r] \in Working
      BY <1>1, <1>2, <2>2 DEF ThreadStep, Working, Answers
    <2>. QED BY <1>1, <2>1, <2>2, <2>3, ShopThread
  <1>4. ASSUME pc[r] \in {"settle", "send", "wait"}, Answer(r, "502"),
               UNCHANGED <<arrived, path, auth, height, nonce, charges, mined>>, flight' \subseteq Tx
        PROVE  ShopInv'
    <2>1. ThreadStep(r) /\ pc'[r] = "end" /\ resp'[r] = "502" /\ pc[r] \in Working
      BY <1>1, <1>4 DEF ThreadStep, Answer, Goto, Working, Answers
    <2>. QED BY <1>4, <2>1, ShopThread
  <1>5. pc[r] \in Working /\ nonce[r] >= height => <<auth[r], nonce[r]>> \in Tx
    <2>1. height \in Nat /\ (nonce[r] \in Nonces \/ nonce[r] = -1)
      BY <1>1 DEF ShopInv, ShopType, NoNonce
    <2>2. nonce[r] >= height => nonce[r] \in Nonces
      BY <2>1
    <2>. QED BY <1>2, <2>2 DEF ForUs, Tx
  <1>6. CASE SettleRaises(r)
    BY <1>1, <1>4, <1>6 DEF SettleRaises, chain
  <1>7. CASE SendAccepted(r)
    <2>1. /\ pc[r] = "send" /\ pc' = [pc EXCEPT ![r] = "wait"]
          /\ UNCHANGED <<arrived, path, auth, height, nonce, resp, charges, mined>>
          /\ flight' = IF nonce[r] >= height THEN flight \cup {<<auth[r], nonce[r]>>}
                                            ELSE flight
      BY <1>7 DEF SendAccepted, Goto
    <2>2. ThreadStep(r) /\ pc'[r] = "wait" /\ resp'[r] = "none" /\ pc[r] \in Working
      BY <1>1, <1>2, <2>1 DEF ThreadStep, Working, Answers
    <2>3. flight' \subseteq Tx
      BY <1>1, <1>5, <2>1, <2>2
    <2>. QED BY <2>1, <2>2, <2>3, ShopThread
  <1>8. CASE SendUnanswered(r)
    <2>1. pc[r] = "send" /\ nonce[r] >= height /\ flight' = flight \cup {<<auth[r], nonce[r]>>}
      BY <1>8 DEF SendUnanswered
    <2>2. flight' \subseteq Tx
      BY <1>1, <1>5, <2>1 DEF Working
    <2>. QED BY <1>4, <1>8, <2>2 DEF SendUnanswered
  <1>9. CASE WaitReverted(r)
    BY <1>1, <1>4, <1>9 DEF WaitReverted, chain
  <1>10. CASE WaitEnds(r)
    BY <1>1, <1>4, <1>10 DEF WaitEnds, chain
  <1>11. CASE WaitConfirmed(r)
    <2>1. /\ pc[r] = "wait" /\ pc' = [pc EXCEPT ![r] = "produce"]
          /\ UNCHANGED <<arrived, path, auth, height, nonce, resp, flight, mined>>
          /\ Receipt(auth[r], nonce[r], TRUE)
          /\ \/ UNCHANGED charges
             \/ charges' = [charges EXCEPT ![auth[r]] = @ + 1]
      BY <1>11 DEF WaitConfirmed, Goto, chain
    <2>2. ThreadStep(r) /\ pc[r] \in Working
      BY <1>1, <1>2, <2>1 DEF ThreadStep, Working, Answers
    <2>. QED BY <1>1, <2>1, <2>2, ShopThread
  <1>12. CASE Produce(r)
    <2>1. PICK made \in Produced(path[r]) : Answer(r, made)
      BY <1>12 DEF Produce
    <2>2. made \in {"data", "error", "closed"}
      <3>1. path[r] \in Products
        BY <1>12 DEF Produce, ShopInv, Working
      <3>. QED BY <2>1, <3>1 DEF Produced, Products
    <2>3. pc[r] = "produce" /\ UNCHANGED <<arrived, path, auth, height, nonce, charges, flight, mined>>
      BY <1>12 DEF Produce, chain
    <2>4. ThreadStep(r) /\ pc'[r] = "end" /\ pc[r] \in Working
      BY <1>1, <2>1, <2>2, <2>3 DEF ThreadStep, Answer, Goto, Working, Answers
    <2>5. Receipt(auth[r], nonce[r], TRUE)
      BY <2>3 DEF ShopInv
    <2>. QED BY <1>1, <2>3, <2>4, <2>5, ShopThread
  <1>. QED BY <1>3, <1>6, <1>7, <1>8, <1>9, <1>10, <1>11, <1>12 DEF Thread

\* What only lets blocks, buyers and the clock move.
LEMMA ShopQuiet ==
    ASSUME ShopInv, UNCHANGED <<arrived, pc, path, auth, nonce, resp, charges>>,
           height' \in Nat, flight' \subseteq Tx,
           mined \subseteq mined', mined' \subseteq Auths \X Nonces \X BOOLEAN
    PROVE  ShopInv'
  <1>1. ShopType'
    BY DEF ShopInv, ShopType
  <1>2. Used \subseteq Used'
    BY DEF Used
  <1>3. ASSUME NEW r \in Requests
        PROVE  Receipt(auth[r], nonce[r], TRUE) => Receipt(auth[r], nonce[r], TRUE)'
    BY DEF Receipt
  <1>. QED BY <1>1, <1>2, <1>3 DEF ShopInv

LEMMA ShopCrash == ASSUME ShopInv, Crash PROVE ShopInv'
  <1>1. \A r \in Requests :
          /\ pc'[r] = IF Open(r) THEN "end" ELSE pc[r]
          /\ resp'[r] = IF Open(r) THEN "closed" ELSE resp[r]
    BY DEF Crash
  <1>2. UNCHANGED <<arrived, path, auth, nonce, charges, flight, mined, height>>
    BY DEF Crash, chain
  <1>3. ShopType'
    BY <1>2 DEF Crash, ShopInv, ShopType, Answers, Working
  <1>4. Used' = Used
    BY <1>2 DEF Used
  <1>5. ASSUME NEW r \in Requests
        PROVE  /\ r > arrived' => pc'[r] = "new"
               /\ pc'[r] # "end" => resp'[r] = "none"
               /\ pc'[r] \in Working => path'[r] \in Products
               /\ pc'[r] \in Working \/ resp'[r] \in {"data", "error"} => ForUs(auth'[r])
               /\ pc'[r] = "produce" \/ resp'[r] \in {"data", "error"}
                    => Receipt(auth[r], nonce[r], TRUE)'
    <2>1. Receipt(auth[r], nonce[r], TRUE)' = Receipt(auth[r], nonce[r], TRUE)
      BY <1>2 DEF Receipt
    <2>2. CASE Open(r)
      BY <1>1, <1>2, <2>2 DEF ShopInv, Open, Working
    <2>3. CASE ~Open(r)
      BY <1>1, <1>2, <2>1, <2>3 DEF ShopInv
    <2>. QED BY <2>2, <2>3
  <1>. QED BY <1>2, <1>3, <1>4, <1>5 DEF ShopInv

LEMMA ShopNext == ShopInv /\ [Next]_vars => ShopInv'
  <1>. SUFFICES ASSUME ShopInv, [Next]_vars PROVE ShopInv'
    OBVIOUS
  <1>1. height \in Nat /\ flight \subseteq Tx /\ mined \subseteq Auths \X Nonces \X BOOLEAN
    BY DEF ShopInv, ShopType
  <1>2. CASE UNCHANGED vars
    BY <1>1, <1>2, ShopQuiet DEF vars, threads, chain
  <1>3. CASE \E r \in Requests, p \in Wanted, a \in Auths :
               VerifyAccepts(r, p, a) \/ VerifyRefuses(r, p, a)
    BY <1>3, ShopArrival
  <1>4. CASE \E r \in Requests : Thread(r)
    BY <1>4, ShopThreadNext
  <1>5. CASE Crash
    BY <1>5, ShopCrash
  <1>6. CASE \E r \in Requests : Abandon(r)
    BY <1>1, <1>6, ShopQuiet DEF Abandon, chain
  <1>7. ASSUME NEW a \in Auths, NEW n \in Nonces, Mine(a, n)
        PROVE  ShopInv'
    <2>1. PICK ok \in BOOLEAN : mined' = mined \cup {<<a, n, ok>>}
      BY <1>7 DEF Mine
    <2>2. height' \in Nat
      BY <1>1, <1>7 DEF Mine
    <2>. QED BY <1>1, <1>7, <2>1, <2>2, ShopQuiet DEF Mine, threads
  <1>8. ASSUME NEW a \in Auths, NEW n \in Nonces, Evict(a, n)
        PROVE  ShopInv'
    BY <1>1, <1>8, ShopQuiet DEF Evict, threads
  <1>9. CASE Tick
    BY <1>1, <1>9, ShopQuiet DEF Tick, threads, chain
  <1>. QED BY <1>2, <1>3, <1>4, <1>5, <1>6, <1>7, <1>8, <1>9 DEF Next, World

LEMMA ShopAlways == Spec => []ShopInv
  BY ShopInit, ShopNext, PTL DEF Spec

\* No product leaves the shop without the receipt its own thread waited for,
\* out of an authorization for us that covers the price.
THEOREM SoldOnlyForPayment == Spec => []ProductOnlyForPayment
  <1>1. ShopInv => ProductOnlyForPayment
    BY DEF ShopInv, ForUs, ProductOnlyForPayment
  <1>. QED BY <1>1, ShopAlways, PTL

-----------------------------------------------------------------------------
(* No payment wasted, none booked twice *)

BlameType == blame \in [Auths -> SUBSET {"failed", "repeated"}]

\* A settlement in flight has a nonce the wallet has not spent, a mined one has a
\* spent one and went one way.
ChainTrue ==
    /\ \A a \in Auths, n \in Nonces : <<a, n>> \in flight => n >= height
    /\ \A a \in Auths, n \in Nonces, ok \in BOOLEAN : <<a, n, ok>> \in mined => n < height
    /\ \A a \in Auths, n \in Nonces : ~(Receipt(a, n, TRUE) /\ Receipt(a, n, FALSE))

Listeners == conn \subseteq Requests

\* A thread that works has a listener, or its buyer has left.
Listened == \A r \in Requests : Open(r) => r \in conn \/ "failed" \in blame[auth[r]]

\* Two threads work for one authorization only if it was presented twice.
Together ==
    \A r, q \in Requests :
        r # q /\ Open(r) /\ Open(q) /\ auth[r] = auth[q] => "repeated" \in blame[auth[r]]

\* Request r waits for the settlement of a with nonce n, or has come of it.
Expects(r, a, n) ==
    /\ auth[r] = a /\ nonce[r] = n
    /\ pc[r] \in {"wait", "produce"} \/ resp[r] = "data"

\* A settlement that nothing went wrong with, pending or made, has its request.
Expected ==
    \A a \in Auths, n \in Nonces :
        "failed" \notin blame[a] /\ (<<a, n>> \in flight \/ Receipt(a, n, TRUE)) =>
            \E r \in conn : Expects(r, a, n)

\* Request r was sold, or is being sold, its product for authorization a.
Sold(r, a) == auth[r] = a /\ (pc[r] = "produce" \/ resp[r] = "data")

Closed(a) == charges[a] = 1 \/ \E q \in Requests : Sold(q, a)
Pays(r, a) == auth[r] = a /\ pc[r] \in {"send", "wait"} /\ Receipt(a, nonce[r], TRUE)

\* An authorization that was booked or served has no request left that could be
\* booked or served again.
SoldLast ==
    \A a \in Auths : "repeated" \notin blame[a] =>
        /\ charges[a] <= 1
        /\ \A r, q \in Requests : Sold(r, a) /\ Sold(q, a) => r = q
        /\ Closed(a) => \A r \in Requests : ~Pays(r, a)

FateInv == /\ ShopInv /\ Listeners /\ BlameType
           /\ ChainTrue /\ Listened /\ Together /\ Expected /\ SoldLast

LEMMA FateInit == Init => FateInv
  <1>. SUFFICES ASSUME Init PROVE FateInv
    OBVIOUS
  <1>1. ShopInv /\ Listeners /\ BlameType
    BY ShopInit DEF Init, Listeners, BlameType
  <1>. QED BY <1>1 DEF Init, FateInv, ChainTrue, Listened, Together, Open, Expected, Receipt,
       SoldLast, Sold, Closed, Pays

\* Who works has an authorization; nobody's blame is taken back.
LEMMA OpenFor == ASSUME ShopInv, NEW r \in Requests, Open(r)
                 PROVE  pc[r] \in Working /\ auth[r] \in Auths /\ resp[r] = "none"
  BY DEF ShopInv, ShopType, Open, ForUs, Working

LEMMA ThreadOpen == ASSUME NEW r \in Requests, Thread(r) PROVE Open(r)
  BY DEF Thread, ReadNonce, SettleRaises, SendAccepted, SendUnanswered,
     WaitConfirmed, WaitReverted, WaitEnds, Produce, Open

LEMMA BlameNext ==
    ASSUME ShopInv, BlameType, [Next]_vars
    PROVE  BlameType' /\ \A a \in Auths : blame[a] \subseteq blame'[a]
  <1>. DEFINE Kept == BlameType' /\ \A a \in Auths : blame[a] \subseteq blame'[a]
  <1>1. ASSUME NEW a \in Auths, NEW w \in {"failed", "repeated"}, Blame(a, w)
        PROVE  Kept
    BY <1>1 DEF Blame, BlameType
  <1>2. CASE UNCHANGED blame
    BY <1>2 DEF BlameType
  <1>3. ASSUME NEW r \in Requests, Thread(r)
        PROVE  Kept
    <2>1. auth[r] \in Auths
      BY <1>3, OpenFor, ThreadOpen
    <2>2. UNCHANGED blame \/ \E w \in {"failed", "repeated"} : Blame(auth[r], w)
      BY <1>3 DEF Thread, ReadNonce, SettleRaises, SendAccepted, SendUnanswered,
         WaitConfirmed, WaitReverted, WaitEnds, Produce
    <2>. QED BY <1>1, <1>2, <2>1, <2>2
  <1>4. CASE Crash
    BY <1>4 DEF Crash, BlameType
  <1>5. ASSUME NEW r \in Requests, Abandon(r)
        PROVE  Kept
    BY <1>1, <1>5, OpenFor DEF Abandon
  <1>6. ASSUME NEW r \in Requests, NEW p \in Wanted, NEW a \in Auths,
               VerifyAccepts(r, p, a) \/ VerifyRefuses(r, p, a)
        PROVE  Kept
    <2>1. UNCHANGED blame \/ Blame(a, "repeated")
      BY <1>6 DEF VerifyAccepts, VerifyRefuses
    <2>. QED BY <1>1, <1>2, <2>1
  <1>7. CASE (\E a \in Auths, n \in Nonces : Mine(a, n) \/ Evict(a, n)) \/ Tick \/ UNCHANGED vars
    BY <1>2, <1>7 DEF Mine, Evict, Tick, vars
  <1>. QED BY <1>3, <1>4, <1>5, <1>6, <1>7 DEF Next, World

\* What a thread adds to the pending settlements is its own.
LEMMA ThreadFlight ==
    ASSUME ShopInv, NEW r \in Requests, Thread(r)
    PROVE  /\ UNCHANGED <<mined, height, auth, conn>>
           /\ \/ flight' = flight
              \/ /\ flight' = flight \cup {<<auth[r], nonce[r]>>}
                 /\ nonce[r] >= height
                 /\ SendAccepted(r) \/ SendUnanswered(r)
  BY DEF Thread, ReadNonce, SettleRaises, SendAccepted, SendUnanswered,
     WaitConfirmed, WaitReverted, WaitEnds, Produce, chain

LEMMA ChainNext ==
    ASSUME ShopInv, ChainTrue, [Next]_vars PROVE ChainTrue'
  <1>0. height \in Nat /\ Nonces \subseteq Int
    BY DEF ShopInv, ShopType, Nonces
  <1>1. CASE UNCHANGED <<mined, height>> /\ flight' \subseteq flight
    BY <1>1 DEF ChainTrue, Receipt
  <1>2. ASSUME NEW r \in Requests, Thread(r)
        PROVE  ChainTrue'
    <2>1. CASE flight' = flight
      BY <1>1, <1>2, <2>1, ThreadFlight
    <2>2. CASE flight' = flight \cup {<<auth[r], nonce[r]>>} /\ nonce[r] >= height
      <3>1. UNCHANGED <<mined, height>>
        BY <1>2, ThreadFlight
      <3>2. \A a \in Auths, n \in Nonces : <<a, n>> \in flight' => n >= height
        BY <2>2 DEF ChainTrue
      <3>. QED BY <3>1, <3>2 DEF ChainTrue, Receipt
    <2>. QED BY <1>2, <2>1, <2>2, ThreadFlight
  <1>3. ASSUME NEW a \in Auths, NEW n \in Nonces, Mine(a, n)
        PROVE  ChainTrue'
    <2>1. PICK ok \in BOOLEAN : mined' = mined \cup {<<a, n, ok>>}
      BY <1>3 DEF Mine
    <2>2. n = height /\ height' = n + 1 /\ flight' = {t \in flight : t[2] # n}
      BY <1>3 DEF Mine
    <2>3. \A b \in Auths, k \in Nonces : <<b, k>> \in flight' => k >= height'
      <3>. SUFFICES ASSUME NEW b \in Auths, NEW k \in Nonces, <<b, k>> \in flight'
                    PROVE  k >= height'
        OBVIOUS
      <3>1. <<b, k>> \in flight /\ k # n
        BY <2>2
      <3>2. k >= height
        BY <3>1 DEF ChainTrue
      <3>. QED BY <1>0, <2>2, <3>1, <3>2
    <2>4. \A b \in Auths, k \in Nonces, y \in BOOLEAN :
             <<b, k, y>> \in mined' => <<b, k, y>> \in mined \/ (b = a /\ k = n /\ y = ok)
      BY <2>1
    <2>5. \A b \in Auths, k \in Nonces, y \in BOOLEAN : <<b, k, y>> \in mined' => k < height'
      BY <1>0, <2>2, <2>4 DEF ChainTrue
    <2>6. \A b \in Auths, k \in Nonces : ~(<<b, k, TRUE>> \in mined' /\ <<b, k, FALSE>> \in mined')
      <3>. SUFFICES ASSUME NEW b \in Auths, NEW k \in Nonces,
                           <<b, k, TRUE>> \in mined', <<b, k, FALSE>> \in mined'
                    PROVE  FALSE
        OBVIOUS
      <3>1. \/ <<b, k, TRUE>> \in mined /\ <<b, k, FALSE>> \in mined
            \/ k = n /\ (<<b, k, TRUE>> \in mined \/ <<b, k, FALSE>> \in mined)
        BY <2>4
      <3>2. CASE <<b, k, TRUE>> \in mined /\ <<b, k, FALSE>> \in mined
        BY <3>2 DEF ChainTrue, Receipt
      <3>3. CASE k = n /\ (<<b, k, TRUE>> \in mined \/ <<b, k, FALSE>> \in mined)
        <4>1. k < height
          BY <3>3 DEF ChainTrue
        <4>. QED BY <1>0, <2>2, <3>3, <4>1
      <3>. QED BY <3>1, <3>2, <3>3
    <2>. QED BY <2>3, <2>5, <2>6 DEF ChainTrue, Receipt
  <1>4. ASSUME NEW a \in Auths, NEW n \in Nonces, Evict(a, n)
        PROVE  ChainTrue'
    BY <1>1, <1>4 DEF Evict
  <1>5. ASSUME NEW r \in Requests, NEW p \in Wanted, NEW a \in Auths,
               VerifyAccepts(r, p, a) \/ VerifyRefuses(r, p, a)
        PROVE  ChainTrue'
    BY <1>1, <1>5 DEF VerifyAccepts, VerifyRefuses, GetPaid, chain
  <1>6. CASE Crash \/ (\E r \in Requests : Abandon(r)) \/ Tick \/ UNCHANGED vars
    BY <1>1, <1>6 DEF Crash, Abandon, Tick, vars, chain
  <1>. QED BY <1>2, <1>3, <1>4, <1>5, <1>6 DEF Next, World

\* One thread moves, the others stand.
LEMMA ThreadAlone ==
    ASSUME ShopInv, NEW r \in Requests, Thread(r)
    PROVE  \A q \in Requests \ {r} :
              pc'[q] = pc[q] /\ resp'[q] = resp[q] /\ nonce'[q] = nonce[q]
  <1>1. /\ pc \in [Requests -> Working \cup {"new", "end"}]
        /\ resp \in [Requests -> Answers] /\ nonce \in [Requests -> Nonces \cup {NoNonce}]
    BY DEF ShopInv, ShopType
  <1>. QED BY <1>1 DEF Thread, ReadNonce, SettleRaises, SendAccepted, SendUnanswered,
       WaitConfirmed, WaitReverted, WaitEnds, Produce, Goto, Answer

\* A request that arrives is new, and the others stand.
LEMMA ArrivalAlone ==
    ASSUME ShopInv, NEW r \in Requests, NEW p \in Wanted, NEW a \in Auths,
           VerifyAccepts(r, p, a) \/ VerifyRefuses(r, p, a)
    PROVE  /\ pc[r] = "new" /\ resp[r] = "none" /\ pc'[r] \in {"settle", "end"} /\ auth'[r] = a
           /\ \A q \in Requests \ {r} : pc'[q] = pc[q] /\ resp'[q] = resp[q] /\ auth'[q] = auth[q]
           /\ conn' = conn \cup {r}
           /\ UNCHANGED <<nonce, charges, flight, mined, height>>
           /\ resp'[r] # "data"
           /\ Open(r)' /\ (\E q \in Requests : Open(q) /\ auth[q] = a) => Blame(a, "repeated")
  <1>1. /\ pc \in [Requests -> Working \cup {"new", "end"}]
        /\ resp \in [Requests -> Answers] /\ auth \in [Requests -> Auths \cup {NoAuth}]
        /\ arrived \in Nat
    BY DEF ShopInv, ShopType
  <1>2. r = arrived + 1
    BY DEF VerifyAccepts, VerifyRefuses, GetPaid
  <1>3. pc[r] = "new"
    <2>1. r > arrived
      BY <1>1, <1>2
    <2>. QED BY <2>1 DEF ShopInv
  <1>4. resp[r] = "none"
    BY <1>3 DEF ShopInv
  <1>5. /\ pc'[r] \in {"settle", "end"} /\ auth'[r] = a
        /\ \A q \in Requests \ {r} : pc'[q] = pc[q] /\ resp'[q] = resp[q] /\ auth'[q] = auth[q]
        /\ conn' = conn \cup {r}
        /\ UNCHANGED <<nonce, charges, flight, mined, height>>
    BY <1>1 DEF VerifyAccepts, VerifyRefuses, GetPaid, Goto, Answer, chain
  <1>6. resp'[r] # "data"
    BY <1>1, <1>4 DEF VerifyAccepts, VerifyRefuses, Answer
  <1>7. CASE VerifyAccepts(r, p, a)
    <2>1. (\E q \in Requests : Open(q) /\ auth[q] = a) => Blame(a, "repeated")
      BY <1>7 DEF VerifyAccepts
    <2>. QED BY <1>3, <1>4, <1>5, <1>6, <2>1
  <1>8. CASE VerifyRefuses(r, p, a)
    <2>1. pc'[r] = "end"
      BY <1>1, <1>8 DEF VerifyRefuses, Answer, Goto
    <2>. QED BY <1>3, <1>4, <1>5, <1>6, <2>1 DEF Open
  <1>. QED BY <1>7, <1>8

LEMMA ListenNext ==
    ASSUME ShopInv, BlameType, Listened, [Next]_vars PROVE Listened'
  <1>0. BlameType' /\ \A a \in Auths : blame[a] \subseteq blame'[a]
    BY BlameNext
  <1>1. ASSUME \A q \in Requests : Open(q)' => Open(q), UNCHANGED <<auth, conn>>
        PROVE  Listened'
    <2>. SUFFICES ASSUME NEW q \in Requests, Open(q)'
                  PROVE  q \in conn' \/ "failed" \in blame'[auth'[q]]
      BY DEF Listened
    <2>1. Open(q) /\ auth[q] \in Auths
      BY <1>1, OpenFor
    <2>. QED BY <1>0, <1>1, <2>1 DEF Listened
  <1>2. ASSUME NEW r \in Requests, Thread(r)
        PROVE  Listened'
    <2>1. \A q \in Requests : Open(q)' => Open(q)
      BY <1>2, ThreadAlone, ThreadOpen DEF Open
    <2>. QED BY <1>1, <1>2, <2>1, ThreadFlight
  <1>3. CASE Crash
    <2>1. \A q \in Requests : Open(q)' => Open(q)
      BY <1>3 DEF Crash, Open
    <2>. QED BY <1>1, <1>3, <2>1 DEF Crash
  <1>4. ASSUME NEW r \in Requests, Abandon(r)
        PROVE  Listened'
    <2>1. auth[r] \in Auths
      BY <1>4, OpenFor DEF Abandon
    <2>2. "failed" \in blame'[auth[r]]
      BY <1>4, <2>1 DEF Abandon, Blame, BlameType
    <2>. SUFFICES ASSUME NEW q \in Requests, Open(q)'
                  PROVE  q \in conn' \/ "failed" \in blame'[auth'[q]]
      BY DEF Listened
    <2>3. Open(q) /\ auth'[q] = auth[q] /\ conn' = conn \ {r}
      BY <1>4 DEF Abandon, Open
    <2>4. auth[q] \in Auths
      BY <2>3, OpenFor
    <2>. QED BY <1>0, <2>2, <2>3, <2>4 DEF Listened
  <1>5. ASSUME NEW r \in Requests, NEW p \in Wanted, NEW a \in Auths,
               VerifyAccepts(r, p, a) \/ VerifyRefuses(r, p, a)
        PROVE  Listened'
    <2>1. /\ conn' = conn \cup {r}
          /\ \A q \in Requests \ {r} : pc'[q] = pc[q] /\ auth'[q] = auth[q]
      BY <1>5, ArrivalAlone
    <2>. SUFFICES ASSUME NEW q \in Requests, Open(q)', q # r
                  PROVE  q \in conn' \/ "failed" \in blame'[auth'[q]]
      BY <2>1 DEF Listened
    <2>2. Open(q) /\ auth'[q] = auth[q]
      BY <2>1 DEF Open
    <2>3. auth[q] \in Auths
      BY <2>2, OpenFor
    <2>. QED BY <1>0, <2>1, <2>2, <2>3 DEF Listened
  <1>6. CASE (\E a \in Auths, n \in Nonces : Mine(a, n) \/ Evict(a, n)) \/ Tick \/ UNCHANGED vars
    <2>1. UNCHANGED <<pc, auth, conn>>
      BY <1>6 DEF Mine, Evict, Tick, vars, threads
    <2>. QED BY <1>1, <2>1 DEF Open
  <1>. QED BY <1>2, <1>3, <1>4, <1>5, <1>6 DEF Next, World

LEMMA TogetherNext ==
    ASSUME ShopInv, BlameType, Together, [Next]_vars PROVE Together'
  <1>0. BlameType' /\ \A a \in Auths : blame[a] \subseteq blame'[a]
    BY BlameNext
  <1>1. ASSUME \A q \in Requests : Open(q)' => Open(q), UNCHANGED auth
        PROVE  Together'
    <2>. SUFFICES ASSUME NEW q \in Requests, NEW s \in Requests, q # s, Open(q)', Open(s)',
                         auth'[q] = auth'[s]
                  PROVE  "repeated" \in blame'[auth'[q]]
      BY DEF Together
    <2>1. Open(q) /\ Open(s) /\ auth[q] \in Auths /\ auth[q] = auth[s] /\ auth'[q] = auth[q]
      BY <1>1, OpenFor
    <2>2. "repeated" \in blame[auth[q]]
      BY <2>1 DEF Together
    <2>. QED BY <1>0, <2>1, <2>2
  <1>2. ASSUME NEW r \in Requests, Thread(r)
        PROVE  Together'
    <2>1. \A q \in Requests : Open(q)' => Open(q)
      BY <1>2, ThreadAlone, ThreadOpen DEF Open
    <2>. QED BY <1>1, <1>2, <2>1, ThreadFlight
  <1>3. CASE Crash
    <2>1. \A q \in Requests : Open(q)' => Open(q)
      BY <1>3 DEF Crash, Open
    <2>. QED BY <1>1, <1>3, <2>1 DEF Crash
  <1>4. ASSUME NEW r \in Requests, NEW p \in Wanted, NEW a \in Auths,
               VerifyAccepts(r, p, a) \/ VerifyRefuses(r, p, a)
        PROVE  Together'
    <2>1. /\ auth'[r] = a
          /\ \A q \in Requests \ {r} : pc'[q] = pc[q] /\ auth'[q] = auth[q]
          /\ Open(r)' /\ (\E q \in Requests : Open(q) /\ auth[q] = a) => Blame(a, "repeated")
      BY <1>4, ArrivalAlone
    <2>2. ASSUME NEW q \in Requests, q # r, Open(r)', Open(q)', auth'[q] = a
          PROVE  "repeated" \in blame'[a]
      <3>1. Open(q) /\ auth[q] = a
        BY <2>1, <2>2 DEF Open
      <3>. QED BY <2>1, <2>2, <3>1 DEF Blame, BlameType
    <2>3. ASSUME NEW q \in Requests, NEW s \in Requests, q # s, q # r, s # r,
                 Open(q)', Open(s)', auth'[q] = auth'[s]
          PROVE  "repeated" \in blame'[auth'[q]]
      <3>1. Open(q) /\ Open(s) /\ auth[q] = auth[s] /\ auth'[q] = auth[q]
        BY <2>1, <2>3 DEF Open
      <3>2. auth[q] \in Auths /\ "repeated" \in blame[auth[q]]
        BY <2>3, <3>1, OpenFor DEF Together
      <3>. QED BY <1>0, <3>1, <3>2
    <2>. SUFFICES ASSUME NEW q \in Requests, NEW s \in Requests, q # s, Open(q)', Open(s)',
                         auth'[q] = auth'[s]
                  PROVE  "repeated" \in blame'[auth'[q]]
      BY DEF Together
    <2>4. CASE q = r
      BY <2>1, <2>2, <2>4
    <2>5. CASE s = r
      BY <2>1, <2>2, <2>5
    <2>. QED BY <2>3, <2>4, <2>5
  <1>5. CASE (\E r \in Requests : Abandon(r)) \/ (\E a \in Auths, n \in Nonces : Mine(a, n) \/ Evict(a, n))
             \/ Tick \/ UNCHANGED vars
    <2>1. UNCHANGED <<pc, auth>>
      BY <1>5 DEF Abandon, Mine, Evict, Tick, vars, threads
    <2>. QED BY <1>1, <2>1 DEF Open
  <1>. QED BY <1>2, <1>3, <1>4, <1>5 DEF Next, World

LEMMA ListenersNext ==
    ASSUME ShopInv, Listeners, [Next]_vars PROVE Listeners'
  <1>1. \A r \in Requests : Thread(r) => UNCHANGED conn
    BY ThreadFlight
  <1>2. \A r \in Requests, p \in Wanted, a \in Auths :
           VerifyAccepts(r, p, a) \/ VerifyRefuses(r, p, a) => conn' = conn \cup {r}
    BY ArrivalAlone
  <1>. QED BY <1>1, <1>2 DEF Next, World, Crash, Abandon, Mine, Evict, Tick, vars, threads, Listeners

\* A thread keeps every settlement expected: its own by itself, or it goes with a
\* settlement that can no longer come, or with its share of the blame.
LEMMA ExpectThread ==
    ASSUME FateInv, NEW r \in Requests, Thread(r) PROVE Expected'
  <1>0. /\ UNCHANGED <<mined, height, auth, conn>> /\ Open(r) /\ auth[r] \in Auths
        /\ resp[r] = "none"
        /\ \A q \in Requests \ {r} :
              pc'[q] = pc[q] /\ resp'[q] = resp[q] /\ nonce'[q] = nonce[q]
    BY ThreadFlight, ThreadOpen, ThreadAlone, OpenFor DEF FateInv
  <1>1. /\ pc \in [Requests -> Working \cup {"new", "end"}]
        /\ resp \in [Requests -> Answers] /\ nonce \in [Requests -> Nonces \cup {NoNonce}]
        /\ height \in Nat /\ Nonces \subseteq Int
    BY DEF FateInv, ShopInv, ShopType, Nonces
  <1>2. \A a \in Auths : blame[a] \subseteq blame'[a]
    <2>1. [Next]_vars
      BY DEF Next
    <2>. QED BY <2>1, BlameNext DEF FateInv
  <1>. SUFFICES ASSUME NEW a \in Auths, NEW n \in Nonces, "failed" \notin blame'[a],
                       <<a, n>> \in flight' \/ Receipt(a, n, TRUE)'
                PROVE  \E q \in conn : Expects(q, a, n)'
    BY <1>0 DEF Expected
  <1>3. "failed" \notin blame[a] /\ (Receipt(a, n, TRUE)' <=> Receipt(a, n, TRUE))
    BY <1>0, <1>2 DEF Receipt
  <1>4. ASSUME <<a, n>> \in flight \/ Receipt(a, n, TRUE), Expects(r, a, n) => Expects(r, a, n)'
        PROVE  \E q \in conn : Expects(q, a, n)'
    <2>1. PICK q \in conn : Expects(q, a, n)
      BY <1>3, <1>4 DEF FateInv, Expected
    <2>2. q \in Requests
      BY DEF FateInv, Listeners
    <2>3. q # r => Expects(q, a, n)'
      BY <1>0, <2>1, <2>2 DEF Expects
    <2>. QED BY <1>4, <2>1, <2>3
  <1>5. a = auth[r] => r \in conn
    BY <1>0, <1>3 DEF FateInv, Listened
  <1>6. CASE ReadNonce(r) \/ SettleRaises(r)
    <2>1. ~Expects(r, a, n) /\ flight' = flight
      BY <1>0, <1>6 DEF ReadNonce, SettleRaises, Expects, chain
    <2>. QED BY <1>3, <1>4, <2>1
  <1>7. CASE SendAccepted(r)
    <2>1. /\ pc'[r] = "wait" /\ nonce'[r] = nonce[r] /\ auth'[r] = auth[r]
          /\ ~Expects(r, a, n)
          /\ flight' \subseteq flight \cup {<<auth[r], nonce[r]>>}
      BY <1>0, <1>1, <1>7 DEF SendAccepted, Goto, Expects
    <2>2. CASE <<a, n>> \in flight \/ Receipt(a, n, TRUE)
      BY <1>4, <2>1, <2>2
    <2>3. CASE a = auth[r] /\ n = nonce[r]
      BY <1>5, <2>1, <2>3 DEF Expects
    <2>. QED BY <1>3, <2>1, <2>2, <2>3
  <1>8. CASE SendUnanswered(r)
    <2>1. /\ flight' = flight \cup {<<auth[r], nonce[r]>>} /\ ~Expects(r, a, n)
          /\ blame' = [blame EXCEPT ![auth[r]] = @ \cup {"failed"}]
      BY <1>0, <1>8 DEF SendUnanswered, Expects, Blame
    <2>2. a # auth[r]
      BY <1>0, <2>1 DEF FateInv, BlameType
    <2>. QED BY <1>3, <1>4, <2>1, <2>2
  <1>9. CASE WaitConfirmed(r)
    <2>1. /\ flight' = flight /\ pc'[r] = "produce"
          /\ nonce'[r] = nonce[r] /\ auth'[r] = auth[r]
      BY <1>1, <1>9 DEF WaitConfirmed, Goto, chain
    <2>. QED BY <1>3, <1>4, <2>1 DEF Expects
  <1>10. CASE WaitReverted(r)
    <2>1. flight' = flight /\ Receipt(auth[r], nonce[r], FALSE)
      BY <1>10 DEF WaitReverted, chain
    <2>2. ASSUME a = auth[r], n = nonce[r]
          PROVE  FALSE
      <3>1. ~Receipt(a, n, TRUE) /\ n < height
        BY <2>1, <2>2 DEF FateInv, ChainTrue, Receipt
      <3>2. <<a, n>> \notin flight
        BY <1>1, <3>1 DEF FateInv, ChainTrue
      <3>. QED BY <1>3, <2>1, <3>1, <3>2
    <2>3. ~Expects(r, a, n)
      BY <2>2 DEF Expects
    <2>. QED BY <1>3, <1>4, <2>1, <2>3
  <1>11. CASE WaitEnds(r)
    <2>1. flight' = flight
      BY <1>11 DEF WaitEnds, chain
    <2>2. CASE Settling(r)
      <3>1. blame' = [blame EXCEPT ![auth[r]] = @ \cup {"failed"}]
        BY <1>11, <2>2 DEF WaitEnds, Blame
      <3>2. a # auth[r]
        BY <1>0, <3>1 DEF FateInv, BlameType
      <3>. QED BY <1>3, <1>4, <2>1, <3>2 DEF Expects
    <2>3. CASE ~Settling(r)
      <3>1. ~Expects(r, a, n)
        BY <1>3, <2>1, <2>3 DEF Settling, Expects
      <3>. QED BY <1>3, <1>4, <2>1, <3>1
    <2>. QED BY <2>2, <2>3
  <1>12. CASE Produce(r)
    <2>1. /\ flight' = flight /\ nonce'[r] = nonce[r] /\ auth'[r] = auth[r]
          /\ \E made \in Produced(path[r]) :
                /\ resp' = [resp EXCEPT ![r] = made]
                /\ made # "data" => Blame(auth[r], "failed")
      BY <1>12 DEF Produce, Answer, chain
    <2>2. CASE resp'[r] = "data"
      BY <1>3, <1>4, <2>1, <2>2 DEF Expects
    <2>3. CASE resp'[r] # "data"
      <3>1. blame' = [blame EXCEPT ![auth[r]] = @ \cup {"failed"}]
        BY <1>1, <2>1, <2>3 DEF Blame
      <3>2. a # auth[r]
        BY <1>0, <3>1 DEF FateInv, BlameType
      <3>. QED BY <1>3, <1>4, <2>1, <3>2 DEF Expects
    <2>. QED BY <2>2, <2>3
  <1>. QED BY <1>6, <1>7, <1>8, <1>9, <1>10, <1>11, <1>12 DEF Thread

LEMMA ExpectNext == ASSUME FateInv, [Next]_vars PROVE Expected'
  <1>2. \A a \in Auths : blame[a] \subseteq blame'[a]
    BY BlameNext DEF FateInv
  <1>1. ASSUME \A a \in Auths, n \in Nonces :
                  <<a, n>> \in flight' \/ Receipt(a, n, TRUE)' =>
                     <<a, n>> \in flight \/ Receipt(a, n, TRUE),
               \A a \in Auths, n \in Nonces : \A q \in conn :
                  "failed" \notin blame'[a] /\ Expects(q, a, n) => q \in conn' /\ Expects(q, a, n)'
        PROVE  Expected'
    <2>. SUFFICES ASSUME NEW a \in Auths, NEW n \in Nonces, "failed" \notin blame'[a],
                         <<a, n>> \in flight' \/ Receipt(a, n, TRUE)'
                  PROVE  \E q \in conn' : Expects(q, a, n)'
      BY DEF Expected
    <2>1. PICK q \in conn : Expects(q, a, n)
      BY <1>1, <1>2 DEF FateInv, Expected
    <2>. QED BY <1>1, <2>1
  <1>3. \A q \in conn : q \in Requests
    BY DEF FateInv, Listeners
  <1>4. CASE Crash
    <2>1. UNCHANGED <<nonce, auth, conn, flight, mined>>
      BY <1>4 DEF Crash, chain
    <2>2. \A a \in Auths, n \in Nonces : \A q \in conn :
             "failed" \notin blame'[a] /\ Expects(q, a, n) => Expects(q, a, n)'
      <3>. SUFFICES ASSUME NEW a \in Auths, NEW n \in Nonces, NEW q \in conn,
                           "failed" \notin blame'[a], Expects(q, a, n)
                    PROVE  Expects(q, a, n)'
        OBVIOUS
      <3>1. ~Open(q)
        <4>1. Open(q) => "failed" \in blame'[a]
          BY <1>3, <1>4 DEF Crash, Expects
        <4>. QED BY <4>1
      <3>2. pc'[q] = pc[q] /\ resp'[q] = resp[q]
        BY <1>3, <1>4, <3>1 DEF Crash
      <3>. QED BY <2>1, <3>2 DEF Expects
    <2>. QED BY <1>1, <2>1, <2>2 DEF Receipt
  <1>5. ASSUME NEW r \in Requests, Abandon(r)
        PROVE  Expected'
    <2>1. UNCHANGED <<pc, resp, nonce, auth, flight, mined>> /\ conn' = conn \ {r}
          /\ Blame(auth[r], "failed")
      BY <1>5 DEF Abandon, chain
    <2>2. auth[r] \in Auths
      BY <1>5, OpenFor DEF Abandon, FateInv
    <2>3. "failed" \in blame'[auth[r]]
      BY <2>1, <2>2 DEF Blame, BlameType, FateInv
    <2>4. \A a \in Auths, n \in Nonces : \A q \in conn :
             "failed" \notin blame'[a] /\ Expects(q, a, n) => q \in conn' /\ Expects(q, a, n)'
      BY <2>1, <2>3 DEF Expects
    <2>. QED BY <1>1, <2>1, <2>4 DEF Receipt
  <1>6. ASSUME NEW a \in Auths, NEW n \in Nonces, Mine(a, n)
        PROVE  Expected'
    <2>1. PICK ok \in BOOLEAN : mined' = mined \cup {<<a, n, ok>>}
      BY <1>6 DEF Mine
    <2>2. /\ <<a, n>> \in flight /\ flight' \subseteq flight
          /\ UNCHANGED <<pc, resp, nonce, auth, conn>>
      BY <1>6 DEF Mine, threads
    <2>3. \A b \in Auths, k \in Nonces :
             Receipt(b, k, TRUE)' => Receipt(b, k, TRUE) \/ (b = a /\ k = n)
      BY <2>1 DEF Receipt
    <2>. QED BY <1>1, <2>2, <2>3 DEF Expects
  <1>7. ASSUME NEW r \in Requests, NEW p \in Wanted, NEW a \in Auths,
               VerifyAccepts(r, p, a) \/ VerifyRefuses(r, p, a)
        PROVE  Expected'
    <2>1. /\ pc[r] = "new" /\ resp[r] = "none" /\ conn' = conn \cup {r}
          /\ \A q \in Requests \ {r} : pc'[q] = pc[q] /\ resp'[q] = resp[q] /\ auth'[q] = auth[q]
          /\ UNCHANGED <<nonce, flight, mined>>
      BY <1>7, ArrivalAlone DEF FateInv
    <2>2. \A q \in conn, b \in Auths, k \in Nonces : Expects(q, b, k) => Expects(q, b, k)'
      BY <1>3, <2>1 DEF Expects
    <2>. QED BY <1>1, <2>1, <2>2 DEF Receipt
  <1>8. CASE (\E a \in Auths, n \in Nonces : Evict(a, n)) \/ Tick \/ UNCHANGED vars
    <2>1. UNCHANGED <<pc, resp, nonce, auth, conn, mined>> /\ flight' \subseteq flight
      BY <1>8 DEF Evict, Tick, vars, threads, chain
    <2>. QED BY <1>1, <2>1 DEF Expects, Receipt
  <1>. QED BY <1>4, <1>5, <1>6, <1>7, <1>8, ExpectThread DEF Next, World

\* As long as nobody asked twice, an authorization has one request at work.
LEMMA OneAtWork ==
    ASSUME FateInv, NEW r \in Requests, NEW q \in Requests, Open(r), Open(q),
           auth[r] = auth[q], "repeated" \notin blame[auth[r]]
    PROVE  r = q
  BY DEF FateInv, Together

\* A step that books nothing, sells nothing, and gives no thread a receipt.
LEMMA SoldQuiet ==
    ASSUME FateInv, \A a \in Auths : blame[a] \subseteq blame'[a], UNCHANGED charges,
           \A q \in Requests, a \in Auths :
               "repeated" \notin blame'[a] =>
                  (Sold(q, a)' => Sold(q, a)) /\ (Pays(q, a)' => Pays(q, a))
    PROVE  SoldLast'
  <1>. SUFFICES ASSUME NEW a \in Auths, "repeated" \notin blame'[a]
                PROVE  /\ charges'[a] <= 1
                       /\ \A r, q \in Requests : Sold(r, a)' /\ Sold(q, a)' => r = q
                       /\ Closed(a)' => \A r \in Requests : ~Pays(r, a)'
    BY DEF SoldLast
  <1>1. /\ charges[a] <= 1
        /\ \A r, q \in Requests : Sold(r, a) /\ Sold(q, a) => r = q
        /\ Closed(a) => \A r \in Requests : ~Pays(r, a)
    BY DEF FateInv, SoldLast
  <1>2. Closed(a)' => Closed(a)
    BY DEF Closed
  <1>. QED BY <1>1, <1>2

\* A thread whose product goes out or whose charge is booked had paid; it is the
\* only one of its authorization.
LEMMA SoldThread ==
    ASSUME FateInv, NEW r \in Requests, Thread(r) PROVE SoldLast'
  <1>0. /\ UNCHANGED <<mined, height, auth, conn>> /\ Open(r) /\ auth[r] \in Auths
        /\ resp[r] = "none"
        /\ \A q \in Requests \ {r} :
              pc'[q] = pc[q] /\ resp'[q] = resp[q] /\ nonce'[q] = nonce[q]
    BY ThreadFlight, ThreadOpen, ThreadAlone, OpenFor DEF FateInv
  <1>1. /\ pc \in [Requests -> Working \cup {"new", "end"}]
        /\ resp \in [Requests -> Answers]
        /\ nonce \in [Requests -> Nonces \cup {NoNonce}] /\ charges \in [Auths -> Nat]
        /\ height \in Nat /\ Nonces \subseteq Int
    BY DEF FateInv, ShopInv, ShopType, Nonces
  <1>2. BlameType' /\ \A a \in Auths : blame[a] \subseteq blame'[a]
    <2>1. [Next]_vars
      BY DEF Next
    <2>. QED BY <2>1, BlameNext DEF FateInv
  <1>r. \A a, n : Receipt(a, n, TRUE)' <=> Receipt(a, n, TRUE)
    BY <1>0 DEF Receipt
  <1>q. \A q \in Requests \ {r}, a \in Auths :
           (Sold(q, a)' <=> Sold(q, a)) /\ (Pays(q, a)' <=> Pays(q, a))
    BY <1>0, <1>r DEF Sold, Pays
  <1>3. ASSUME UNCHANGED charges,
               \A a \in Auths : "repeated" \notin blame'[a] =>
                  (Sold(r, a)' => Sold(r, a)) /\ (Pays(r, a)' => Pays(r, a))
        PROVE  SoldLast'
    <2>1. \A q \in Requests, a \in Auths : "repeated" \notin blame'[a] =>
             (Sold(q, a)' => Sold(q, a)) /\ (Pays(q, a)' => Pays(q, a))
      BY <1>3, <1>q
    <2>. QED BY <1>2, <1>3, <2>1, SoldQuiet
  <1>4. CASE ReadNonce(r)
    <2>1. PICK n \in Nonces : /\ nonce' = [nonce EXCEPT ![r] = n]
                              /\ n < height => Blame(auth[r], "repeated")
      BY <1>4 DEF ReadNonce
    <2>2. UNCHANGED <<charges, resp>> /\ nonce'[r] = n /\ pc'[r] = "send"
      BY <1>1, <1>4, <2>1 DEF ReadNonce, Goto
    <2>3. ASSUME NEW a \in Auths, "repeated" \notin blame'[a], Pays(r, a)'
          PROVE  FALSE
      <3>1. a = auth[r] /\ Receipt(a, n, TRUE)
        BY <1>0, <1>r, <2>2, <2>3 DEF Pays
      <3>2. n < height
        BY <3>1 DEF FateInv, ChainTrue, Receipt
      <3>3. blame' = [blame EXCEPT ![auth[r]] = @ \cup {"repeated"}]
        BY <2>1, <3>2 DEF Blame
      <3>. QED BY <2>3, <3>1, <3>3 DEF FateInv, BlameType
    <2>4. \A a \in Auths : ~Sold(r, a)'
      BY <1>0, <2>2 DEF Sold
    <2>. QED BY <1>3, <2>2, <2>3, <2>4
  <1>5. CASE WaitConfirmed(r)
    <2>1. /\ pc[r] = "wait" /\ Receipt(auth[r], nonce[r], TRUE) /\ pc'[r] = "produce"
          /\ nonce' = nonce /\ resp' = resp
          /\ charges' = charges \/ charges' = [charges EXCEPT ![auth[r]] = @ + 1]
      BY <1>1, <1>5 DEF WaitConfirmed, Goto
    <2>. SUFFICES ASSUME NEW a \in Auths, "repeated" \notin blame'[a]
                  PROVE  /\ charges'[a] <= 1
                         /\ \A q, s \in Requests : Sold(q, a)' /\ Sold(s, a)' => q = s
                         /\ Closed(a)' => \A q \in Requests : ~Pays(q, a)'
      BY DEF SoldLast
    <2>2. /\ "repeated" \notin blame[a] /\ charges[a] <= 1 /\ charges[a] \in Nat
          /\ \A q, s \in Requests : Sold(q, a) /\ Sold(s, a) => q = s
          /\ Closed(a) => \A q \in Requests : ~Pays(q, a)
      BY <1>1, <1>2 DEF FateInv, SoldLast
    <2>3. CASE a = auth[r]
      <3>1. Pays(r, a)
        BY <2>1, <2>3 DEF Pays
      <3>2. ~Closed(a)
        BY <2>2, <3>1
      <3>3. charges[a] # 1 /\ \A q \in Requests : ~Sold(q, a)
        BY <3>2 DEF Closed
      <3>4. charges[a] = 0
        BY <2>2, <3>3
      <3>5. charges'[a] = charges[a] \/ charges'[a] = charges[a] + 1
        BY <1>1, <2>1, <2>3
      <3>6. charges'[a] <= 1
        BY <3>4, <3>5
      <3>7. \A q \in Requests : Sold(q, a)' => q = r
        BY <1>q, <3>3
      <3>8. ASSUME NEW q \in Requests, Pays(q, a)'
            PROVE  FALSE
        <4>1. q # r
          BY <2>1, <3>8 DEF Pays
        <4>2. Pays(q, a)
          BY <1>q, <3>8, <4>1
        <4>3. Open(q) /\ auth[q] = auth[r]
          BY <2>3, <4>2 DEF Pays, Open
        <4>. QED BY <1>0, <2>2, <2>3, <4>1, <4>3, OneAtWork
      <3>. QED BY <3>6, <3>7, <3>8
    <2>4. CASE a # auth[r]
      <3>1. charges'[a] = charges[a]
        BY <1>1, <2>1, <2>4
      <3>2. (Sold(r, a)' <=> Sold(r, a)) /\ (Pays(r, a)' <=> Pays(r, a))
        BY <1>0, <2>4 DEF Sold, Pays
      <3>3. \A q \in Requests : (Sold(q, a)' <=> Sold(q, a)) /\ (Pays(q, a)' <=> Pays(q, a))
        BY <1>q, <3>2
      <3>4. Closed(a)' <=> Closed(a)
        BY <3>1, <3>3 DEF Closed
      <3>. QED BY <2>2, <3>1, <3>3, <3>4
    <2>. QED BY <2>3, <2>4
  <1>6. CASE Produce(r)
    <2>1. pc[r] = "produce" /\ pc'[r] = "end" /\ UNCHANGED charges
      BY <1>1, <1>6 DEF Produce, Answer, Goto
    <2>2. \A a \in Auths : (Sold(r, a)' => Sold(r, a)) /\ ~Pays(r, a)'
      BY <1>0, <2>1 DEF Sold, Pays
    <2>. QED BY <1>3, <2>1, <2>2
  <1>7. CASE ~ReadNonce(r) /\ ~WaitConfirmed(r) /\ ~Produce(r)
    <2>1. UNCHANGED <<charges, nonce>> /\ (resp' = resp \/ resp' = [resp EXCEPT ![r] = "502"])
      BY <1>7 DEF Thread, SettleRaises, SendAccepted, SendUnanswered, WaitReverted,
         WaitEnds, Answer
    <2>2. pc'[r] = "end" \/ (pc[r] = "send" /\ pc'[r] = "wait")
      BY <1>1, <1>7 DEF Thread, SettleRaises, SendAccepted, SendUnanswered, WaitReverted,
         WaitEnds, Goto, Answer
    <2>3. resp'[r] # "data"
      BY <1>0, <1>1, <2>1
    <2>4. \A a \in Auths : ~Sold(r, a)' /\ (Pays(r, a)' => Pays(r, a))
      BY <1>0, <1>r, <2>1, <2>2, <2>3 DEF Sold, Pays
    <2>. QED BY <1>3, <2>1, <2>4
  <1>. QED BY <1>4, <1>5, <1>6, <1>7

LEMMA SoldNext == ASSUME FateInv, [Next]_vars PROVE SoldLast'
  <1>2. \A a \in Auths : blame[a] \subseteq blame'[a]
    BY BlameNext DEF FateInv
  <1>3. CASE Crash
    <2>1. UNCHANGED <<charges, mined, nonce, auth>>
      BY <1>3 DEF Crash, chain
    <2>2. \A q \in Requests : /\ pc'[q] = pc[q] \/ pc'[q] = "end"
                              /\ resp'[q] = resp[q] \/ resp'[q] = "closed"
      BY <1>3 DEF Crash
    <2>3. \A q \in Requests, a \in Auths :
             (Sold(q, a)' => Sold(q, a)) /\ (Pays(q, a)' => Pays(q, a))
      BY <2>1, <2>2 DEF Sold, Pays, Receipt
    <2>. QED BY <1>2, <2>1, <2>3, SoldQuiet
  <1>4. ASSUME NEW b \in Auths, NEW n \in Nonces, Mine(b, n)
        PROVE  SoldLast'
    <2>. DEFINE Valid == b \notin Used /\ Offer[b].after < now /\ now < Offer[b].before
    <2>1. mined' = mined \cup {<<b, n, Valid>>} /\ UNCHANGED <<charges, pc, resp, auth, nonce, blame>>
      BY <1>4 DEF Mine, threads
    <2>2. Valid = TRUE => b \notin Used
      OBVIOUS
    <2>. HIDE DEF Valid
    <2>3. \A a \in Auths : \A k : a \in Used /\ Receipt(a, k, TRUE)' => Receipt(a, k, TRUE)
      <3>. SUFFICES ASSUME NEW a \in Auths, NEW k, a \in Used, <<a, k, TRUE>> \in mined'
                    PROVE  <<a, k, TRUE>> \in mined
        BY DEF Receipt
      <3>1. <<a, k, TRUE>> \in mined \/ (a = b /\ Valid = TRUE)
        BY <2>1
      <3>. QED BY <2>2, <3>1
    <2>. SUFFICES ASSUME NEW a \in Auths, "repeated" \notin blame[a]
                  PROVE  /\ charges[a] <= 1
                         /\ \A q, s \in Requests : Sold(q, a) /\ Sold(s, a) => q = s
                         /\ Closed(a) => \A q \in Requests : ~Pays(q, a)'
      BY <2>1 DEF SoldLast, Sold, Closed
    <2>4. Closed(a) => a \in Used
      <3>1. charges[a] = 1 => a \in Used
        BY DEF FateInv, ShopInv
      <3>2. \A q \in Requests : Sold(q, a) => Receipt(a, nonce[q], TRUE)
        BY DEF FateInv, ShopInv, Sold
      <3>. QED BY <3>1, <3>2, ReceiptUsed DEF Closed, FateInv, ShopInv
    <2>5. /\ charges[a] <= 1
          /\ \A q, s \in Requests : Sold(q, a) /\ Sold(s, a) => q = s
          /\ Closed(a) => \A q \in Requests : ~Pays(q, a)
      BY DEF FateInv, SoldLast
    <2>6. ASSUME Closed(a), NEW q \in Requests, Pays(q, a)'
          PROVE  Pays(q, a)
      <3>1. <<a, nonce[q], TRUE>> \in mined' /\ auth[q] = a /\ pc[q] \in {"send", "wait"}
        BY <2>1, <2>6 DEF Pays, Receipt
      <3>2. Receipt(a, nonce[q], TRUE)
        BY <2>3, <2>4, <2>6, <3>1 DEF Receipt
      <3>. QED BY <3>1, <3>2 DEF Pays
    <2>. QED BY <2>5, <2>6
  <1>5. ASSUME NEW r \in Requests, NEW p \in Wanted, NEW a \in Auths,
               VerifyAccepts(r, p, a) \/ VerifyRefuses(r, p, a)
        PROVE  SoldLast'
    <2>1. /\ pc'[r] \in {"settle", "end"} /\ resp'[r] # "data"
          /\ UNCHANGED <<nonce, charges, mined>>
          /\ \A q \in Requests \ {r} : pc'[q] = pc[q] /\ resp'[q] = resp[q] /\ auth'[q] = auth[q]
      BY <1>5, ArrivalAlone DEF FateInv
    <2>2. \A q \in Requests, b \in Auths :
             (Sold(q, b)' => Sold(q, b)) /\ (Pays(q, b)' => Pays(q, b))
      BY <2>1 DEF Sold, Pays, Receipt
    <2>. QED BY <1>2, <2>1, <2>2, SoldQuiet
  <1>6. CASE (\E r \in Requests : Abandon(r)) \/ (\E a \in Auths, n \in Nonces : Evict(a, n))
             \/ Tick \/ UNCHANGED vars
    <2>1. UNCHANGED <<charges, mined, nonce, auth, pc, resp>>
      BY <1>6 DEF Abandon, Evict, Tick, vars, threads, chain
    <2>2. \A q \in Requests, b \in Auths :
             (Sold(q, b)' => Sold(q, b)) /\ (Pays(q, b)' => Pays(q, b))
      BY <2>1 DEF Sold, Pays, Receipt
    <2>. QED BY <1>2, <2>1, <2>2, SoldQuiet
  <1>. QED BY <1>3, <1>4, <1>5, <1>6, SoldThread DEF Next, World

LEMMA FateNext == FateInv /\ [Next]_vars => FateInv'
  <1>. SUFFICES ASSUME FateInv, [Next]_vars PROVE FateInv'
    OBVIOUS
  <1>1. ShopInv' /\ Listeners' /\ BlameType'
    BY ShopNext, ListenersNext, BlameNext DEF FateInv
  <1>2. ChainTrue' /\ Listened' /\ Together'
    BY ChainNext, ListenNext, TogetherNext DEF FateInv
  <1>3. Expected' /\ SoldLast'
    BY ExpectNext, SoldNext
  <1>. QED BY <1>1, <1>2, <1>3 DEF FateInv

LEMMA FateAlways == Spec => []FateInv
  BY FateInit, FateNext, PTL DEF Spec

\* A settled payment none of whose requests failed half way was served or is
\* about to be, for any number of threads that race for the wallet's nonces and
\* of requests that repeat each other.
THEOREM PaymentsServed == Spec => []NoPaymentWasted
  <1>1. FateInv => NoPaymentWasted
    <2>. SUFFICES ASSUME FateInv, NEW a \in Used, "failed" \notin blame[a], ~HasData(a)
                  PROVE  \E r \in conn : auth[r] = a /\ pc[r] \in {"wait", "produce"}
      BY DEF NoPaymentWasted
    <2>1. a \in Auths /\ \E n \in Nonces : Receipt(a, n, TRUE)
      BY DEF Used, Receipt
    <2>2. PICK n \in Nonces : \E r \in conn : Expects(r, a, n)
      BY <2>1 DEF FateInv, Expected
    <2>3. \A r \in conn : auth[r] = a => resp[r] # "data"
      BY DEF HasData, FateInv, Listeners
    <2>. QED BY <2>2, <2>3 DEF Expects
  <1>. QED BY <1>1, FateAlways, PTL

\* A payment is booked at most once unless two requests with it were at work at a
\* time or a node took a spent nonce.
THEOREM BookedOnce == Spec => []RevenueBookedOnce
  <1>1. FateInv => RevenueBookedOnce
    BY DEF FateInv, SoldLast, RevenueBookedOnce
  <1>. QED BY <1>1, FateAlways, PTL

-----------------------------------------------------------------------------
(* The promise *)

Handed == {s \in Auths \X Requests : auth[s[2]] = s[1] /\ resp[s[2]] = "data"}
Twice == {a \in Auths : "repeated" \in blame[a]}

\* The products handed out change only where an answer does.
LEMMA SameHanded ==
    ASSUME \A r \in Requests : resp'[r] = "data" <=> resp[r] = "data",
           \A r \in Requests : resp[r] = "data" => auth'[r] = auth[r]
    PROVE  Handed' = Handed
  <1>1. \A s \in Auths \X Requests :
           (auth'[s[2]] = s[1] /\ resp'[s[2]] = "data") <=> (auth[s[2]] = s[1] /\ resp[s[2]] = "data")
    OBVIOUS
  <1>. QED BY <1>1 DEF Handed

\* A step that only brings an authorization to be presented twice.
LEMMA PromiseQuiet ==
    ASSUME BlameType, UNCHANGED <<mined, charges>>, Handed' = Handed,
           UNCHANGED blame \/ \E a \in Auths, w \in {"failed", "repeated"} : Blame(a, w)
    PROVE  [Promise!Next]_(Promise!vars)
  <1>1. Used' = Used
    BY DEF Used
  <1>2. CASE Twice' = Twice
    BY <1>1, <1>2 DEF Promise!vars, Handed, Twice
  <1>3. ASSUME NEW a \in Auths, blame' = [blame EXCEPT ![a] = @ \cup {"repeated"}]
        PROVE  Promise!Next
    <2>1. Twice' = Twice \cup {a}
      BY <1>3 DEF Twice, BlameType
    <2>2. Promise!Repeat(a)
      BY <1>1, <2>1 DEF Promise!Repeat, Handed, Twice
    <2>. QED BY <2>2 DEF Promise!Next
  <1>4. ASSUME NEW a \in Auths, blame' = [blame EXCEPT ![a] = @ \cup {"failed"}]
        PROVE  Twice' = Twice
    BY <1>4 DEF Twice, BlameType
  <1>5. UNCHANGED blame => Twice' = Twice
    BY DEF Twice
  <1>. QED BY <1>2, <1>3, <1>4, <1>5 DEF Blame

LEMMA PromiseThread ==
    ASSUME FateInv, NEW r \in Requests, Thread(r)
    PROVE  [Promise!Next]_(Promise!vars)
  <1>1. pc \in [Requests -> Working \cup {"new", "end"}] /\ resp \in [Requests -> Answers]
        /\ charges \in [Auths -> Nat] /\ BlameType
    BY DEF FateInv, ShopInv, ShopType
  <1>2. Open(r) /\ resp[r] = "none" /\ auth[r] \in Auths /\ UNCHANGED <<auth, conn, mined>>
    BY ThreadOpen, ThreadFlight, OpenFor DEF FateInv
  <1>3. Used' = Used
    BY <1>2 DEF Used
  <1>4. ASSUME resp' = resp \/ \E m \in Answers \ {"data"} : resp' = [resp EXCEPT ![r] = m]
        PROVE  Handed' = Handed
    <2>1. \A q \in Requests : resp'[q] = "data" <=> resp[q] = "data"
      BY <1>1, <1>2, <1>4
    <2>. QED BY <1>2, <2>1, SameHanded
  <1>5. CASE WaitConfirmed(r)
    <2>1. Handed' = Handed /\ Twice' = Twice
      BY <1>4, <1>5 DEF WaitConfirmed, Twice
    <2>2. pc[r] = "wait" /\ Receipt(auth[r], nonce[r], TRUE)
      BY <1>5 DEF WaitConfirmed
    <2>3. auth[r] \in Used
      BY <1>2, <2>2, ReceiptUsed DEF FateInv, ShopInv
    <2>4. CASE UNCHANGED charges
      BY <1>3, <2>1, <2>4 DEF Promise!vars, Handed, Twice
    <2>5. CASE charges' = [charges EXCEPT ![auth[r]] = @ + 1]
      <3>1. charges[auth[r]] = 0 \/ auth[r] \in Twice
        <4>1. CASE "repeated" \in blame[auth[r]]
          BY <1>2, <4>1 DEF Twice
        <4>2. CASE "repeated" \notin blame[auth[r]]
          <5>1. Pays(r, auth[r])
            BY <2>2 DEF Pays
          <5>2. charges[auth[r]] <= 1 /\ charges[auth[r]] # 1
            BY <1>2, <4>2, <5>1 DEF FateInv, SoldLast, Closed
          <5>3. charges[auth[r]] \in Nat
            BY <1>1, <1>2
          <5>. QED BY <5>2, <5>3
        <4>. QED BY <4>1, <4>2
      <3>2. Promise!Book(auth[r])
        BY <1>3, <2>1, <2>3, <2>5, <3>1 DEF Promise!Book, Handed, Twice
      <3>. QED BY <1>2, <3>2 DEF Promise!Next
    <2>. QED BY <1>5, <2>4, <2>5 DEF WaitConfirmed
  <1>6. ASSUME NEW m, resp' = [resp EXCEPT ![r] = m], m = "data", pc[r] = "produce",
               UNCHANGED <<charges, blame>>
        PROVE  Promise!Next
    <2>1. auth[r] \in Used
      <3>1. Receipt(auth[r], nonce[r], TRUE)
        BY <1>6 DEF FateInv, ShopInv
      <3>. QED BY <1>2, <3>1, ReceiptUsed DEF FateInv, ShopInv
    <2>2. (\A q \in Requests : <<auth[r], q>> \notin Handed) \/ auth[r] \in Twice
      <3>1. CASE "repeated" \in blame[auth[r]]
        BY <1>2, <3>1 DEF Twice
      <3>2. CASE "repeated" \notin blame[auth[r]]
        <4>1. Sold(r, auth[r])
          BY <1>6 DEF Sold
        <4>2. \A q \in Requests : Sold(q, auth[r]) => q = r
          BY <1>2, <3>2, <4>1 DEF FateInv, SoldLast
        <4>3. ASSUME NEW q \in Requests, <<auth[r], q>> \in Handed
              PROVE  FALSE
          <5>1. auth[q] = auth[r] /\ resp[q] = "data"
            BY <4>3 DEF Handed
          <5>2. q = r
            BY <4>2, <5>1 DEF Sold
          <5>. QED BY <1>2, <5>1, <5>2
        <4>. QED BY <4>3
      <3>. QED BY <3>1, <3>2
    <2>3. Handed' = Handed \cup {<<auth[r], r>>}
      <3>1. \A q \in Requests : resp'[q] = "data" <=> (resp[q] = "data" \/ q = r)
        BY <1>1, <1>6
      <3>2. \A s \in Auths \X Requests :
               (auth'[s[2]] = s[1] /\ resp'[s[2]] = "data")
                  <=> ((auth[s[2]] = s[1] /\ resp[s[2]] = "data") \/ s = <<auth[r], r>>)
        BY <1>2, <3>1
      <3>. QED BY <1>2, <3>2 DEF Handed
    <2>4. Twice' = Twice
      BY <1>6 DEF Twice
    <2>5. Promise!Serve(auth[r], r)
      BY <1>3, <1>6, <2>1, <2>2, <2>3, <2>4 DEF Promise!Serve, Handed, Twice
    <2>. QED BY <1>2, <2>5 DEF Promise!Next
  <1>7. ASSUME UNCHANGED charges,
               resp' = resp \/ \E m \in Answers \ {"data"} : resp' = [resp EXCEPT ![r] = m],
               UNCHANGED blame \/ \E w \in {"failed", "repeated"} : Blame(auth[r], w)
        PROVE  [Promise!Next]_(Promise!vars)
    <2>1. Handed' = Handed
      BY <1>4, <1>7
    <2>. QED BY <1>1, <1>2, <1>7, <2>1, PromiseQuiet
  <1>8. CASE Produce(r)
    <2>1. UNCHANGED charges /\ pc[r] = "produce" /\ path[r] \in Products
      BY <1>8 DEF Produce, FateInv, ShopInv, Working
    <2>2. PICK m \in {"data", "error", "closed"} :
             /\ resp' = [resp EXCEPT ![r] = m]
             /\ IF m = "data" THEN UNCHANGED blame ELSE Blame(auth[r], "failed")
      BY <1>8, <2>1 DEF Produce, Produced, Products, Answer
    <2>3. CASE m = "data"
      BY <1>6, <2>1, <2>2, <2>3
    <2>4. CASE m # "data"
      BY <1>7, <2>1, <2>2, <2>4 DEF Answers
    <2>. QED BY <2>3, <2>4
  <1>9. CASE ~WaitConfirmed(r) /\ ~Produce(r)
    <2>1. UNCHANGED charges /\ (resp' = resp \/ resp' = [resp EXCEPT ![r] = "502"])
          /\ (UNCHANGED blame \/ \E w \in {"failed", "repeated"} : Blame(auth[r], w))
      BY <1>9 DEF Thread, ReadNonce, SettleRaises, SendAccepted, SendUnanswered,
         WaitReverted, WaitEnds, Answer
    <2>. QED BY <1>7, <2>1 DEF Answers
  <1>. QED BY <1>5, <1>8, <1>9

\* The token takes an authorization once.
LEMMA PromiseMine ==
    ASSUME NEW a \in Auths, NEW n \in Nonces, Mine(a, n)
    PROVE  [Promise!Next]_(Promise!vars)
  <1>1. UNCHANGED <<auth, resp, charges, blame>>
    BY DEF Mine, threads
  <1>2. Handed' = Handed /\ Twice' = Twice
    BY <1>1 DEF Handed, Twice
  <1>3. PICK ok \in BOOLEAN : mined' = mined \cup {<<a, n, ok>>} /\ (ok = TRUE => a \notin Used)
    <2>. DEFINE Valid == a \notin Used /\ Offer[a].after < now /\ now < Offer[a].before
    <2>1. mined' = mined \cup {<<a, n, Valid>>} /\ Valid \in BOOLEAN
      BY DEF Mine
    <2>2. Valid = TRUE => a \notin Used
      OBVIOUS
    <2>. HIDE DEF Valid
    <2>. QED BY <2>1, <2>2
  <1>4. \A b \in Auths, k \in Nonces :
          Receipt(b, k, TRUE)' <=> (Receipt(b, k, TRUE) \/ (b = a /\ k = n /\ ok = TRUE))
    <2>1. \A x : x \in mined' <=> (x \in mined \/ x = <<a, n, ok>>)
      BY <1>3
    <2>2. \A b \in Auths, k \in Nonces : <<b, k, TRUE>> = <<a, n, ok>> <=> (b = a /\ k = n /\ TRUE = ok)
      BY Zenon
    <2>. QED BY <2>1, <2>2 DEF Receipt
  <1>5. CASE ok = FALSE
    <2>1. Used' = Used
      BY <1>4, <1>5 DEF Used, Receipt
    <2>. QED BY <1>1, <1>2, <2>1 DEF Promise!vars, Handed, Twice
  <1>6. CASE ok = TRUE
    <2>1. Used' = Used \cup {a}
      BY <1>4, <1>6 DEF Used, Receipt
    <2>2. Promise!Pay(a)
      BY <1>1, <1>2, <1>3, <1>6, <2>1 DEF Promise!Pay, Handed, Twice
    <2>. QED BY <2>2 DEF Promise!Next
  <1>. QED BY <1>5, <1>6

LEMMA PromiseNext == FateInv /\ [Next]_vars => [Promise!Next]_(Promise!vars)
  <1>. SUFFICES ASSUME FateInv, [Next]_vars
                PROVE  [Promise!Next]_(Promise!vars)
    OBVIOUS
  <1>0. BlameType
    BY DEF FateInv
  <1>1. ASSUME NEW r \in Requests, NEW p \in Wanted, NEW a \in Auths,
               VerifyAccepts(r, p, a) \/ VerifyRefuses(r, p, a)
        PROVE  [Promise!Next]_(Promise!vars)
    <2>1. /\ resp[r] = "none" /\ resp'[r] # "data" /\ UNCHANGED <<mined, charges>>
          /\ \A q \in Requests \ {r} : resp'[q] = resp[q] /\ auth'[q] = auth[q]
      BY <1>1, ArrivalAlone DEF FateInv
    <2>2. Handed' = Handed
      BY <2>1, SameHanded
    <2>3. UNCHANGED blame \/ Blame(a, "repeated")
      BY <1>1 DEF VerifyAccepts, VerifyRefuses
    <2>. QED BY <1>0, <2>1, <2>2, <2>3, PromiseQuiet
  <1>2. CASE Crash
    <2>1. \A r \in Requests : resp'[r] = "data" <=> resp[r] = "data"
      BY <1>2 DEF Crash, FateInv, ShopInv, Open
    <2>2. UNCHANGED <<auth, mined, charges>>
      BY <1>2 DEF Crash, chain
    <2>3. Handed' = Handed
      BY <2>1, <2>2, SameHanded
    <2>4. Used' = Used
      BY <2>2 DEF Used
    <2>5. Twice' = Twice
      BY <1>0, <1>2 DEF Crash, Twice, BlameType
    <2>. QED BY <2>2, <2>3, <2>4, <2>5 DEF Promise!vars, Handed, Twice
  <1>3. ASSUME NEW r \in Requests, Abandon(r)
        PROVE  [Promise!Next]_(Promise!vars)
    <2>1. auth[r] \in Auths
      BY <1>3, OpenFor DEF Abandon, FateInv
    <2>2. Handed' = Handed
      BY <1>3 DEF Abandon, Handed
    <2>. QED BY <1>0, <1>3, <2>1, <2>2, PromiseQuiet DEF Abandon, chain
  <1>4. CASE (\E a \in Auths, n \in Nonces : Evict(a, n)) \/ Tick \/ UNCHANGED vars
    <2>1. UNCHANGED <<auth, resp, mined, charges, blame>>
      BY <1>4 DEF Evict, Tick, vars, threads, chain
    <2>2. Handed' = Handed
      BY <2>1 DEF Handed
    <2>. QED BY <1>0, <2>1, <2>2, PromiseQuiet
  <1>. QED BY <1>1, <1>2, <1>3, <1>4, PromiseThread, PromiseMine DEF Next, World

\* The shop implements its promise: however threads share the wallet's nonce,
\* nodes lag, waits end early and headers are sent again, it books and serves only
\* what was paid, and it serves and books a payment a second time only if two
\* requests with it were at work at a time or a node took a spent nonce.
THEOREM ImplementsPromise == Spec => PromiseKept
  <1>1. Init => Promise!Init
    BY ShopAssumption DEF Init, Promise!Init, Used
  <1>. QED BY <1>1, FateInit, FateNext, PromiseNext, PTL
           DEF Spec, PromiseKept, Promise!Spec
===============================================================================
