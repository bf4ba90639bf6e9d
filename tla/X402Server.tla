------------------------------ MODULE X402Server ------------------------------
(***************************************************************************)
(* The shop of agent/x402/server.py: one thread per request (do_GET), which *)
(* verifies a signed EIP-3009 authorization, settles it on chain through    *)
(* the RPC pool of agent/chain.py, books the charge (agent/x402/ledger.py)  *)
(* and produces the artefact it sold.  Threads share the settlement wallet  *)
(* and its transaction nonce.  The chain and its nodes, the buyers and the  *)
(* writers of the artefacts are external.                                   *)
(***************************************************************************)
EXTENDS Integers, FiniteSets

CONSTANTS
    Auths,          \* authorizations the buyers sign
    Offer,          \* what each one says: [signed, toUs, value, after, before]
    Price,          \* price_atomic
    Wanted,         \* the products buyers ask for
    MaxRequests,    \* bound on requests
    MaxNonce,       \* bound on the wallet's transactions
    MaxTime,        \* bound on the clock
    Faults          \* which of "lost", "giveup", "crash", "impatient", "stale"
                    \* may happen

ASSUME ShopAssumption ==
    /\ {Price, MaxRequests, MaxNonce, MaxTime} \subseteq Nat
    /\ Offer \in [Auths -> [signed : BOOLEAN, toUs : BOOLEAN, value : Nat,
                            after : Nat, before : Nat]]

Products == {"/posture", "/report", "/leaderboard"}
Requests == 1 .. MaxRequests
Nonces == 0 .. MaxNonce
NoAuth == "none"
NoNonce == -1
Tx == Auths \X Nonces       \* a settlement: its authorization, the wallet's nonce

VARIABLES
    now,
    \* the threads
    arrived,    \* requests so far
    pc, path, auth, nonce,
    resp,       \* the answer of each request
    conn,       \* requests whose client still listens
    \* the ledger
    charges,    \* lines of payments.jsonl that name a settlement of this one
    \* the chain
    flight,     \* settlements some node holds
    mined,      \* <<authorization, nonce, succeeded>> of those mined
    height,     \* the wallet's transaction count
    \* history, read by no action
    blame       \* authorizations with a request that failed half way or that its
                \* client left ("failed"), and those presented again before the
                \* first request was dealt with ("repeated")

threads == <<arrived, pc, path, auth, nonce, resp, conn>>
chain == <<flight, mined, height>>
vars == <<now, threads, charges, chain, blame>>

Used == {a \in Auths : \E n \in Nonces : <<a, n, TRUE>> \in mined}
Receipt(a, n, ok) == <<a, n, ok>> \in mined
HasData(a) == \E r \in Requests : auth[r] = a /\ resp[r] = "data" /\ r \in conn
Open(r) == pc[r] \notin {"new", "end"}

TypeOK ==
    /\ now \in 0 .. MaxTime /\ arrived \in 0 .. MaxRequests
    /\ pc \in [Requests -> {"new", "settle", "send", "wait", "produce", "end"}]
    /\ path \in [Requests -> Wanted \cup {"none"}]
    /\ auth \in [Requests -> Auths \cup {NoAuth}]
    /\ nonce \in [Requests -> Nonces \cup {NoNonce}]
    /\ resp \in [Requests -> {"none", "402", "502", "data", "error", "closed"}]
    /\ conn \subseteq Requests
    /\ charges \in [Auths -> 0 .. MaxRequests]
    /\ flight \subseteq Tx /\ mined \subseteq Auths \X Nonces \X BOOLEAN
    /\ height \in 0 .. MaxNonce + 1
    /\ blame \in [Auths -> SUBSET {"failed", "repeated"}]

Init ==
    /\ now = 0 /\ arrived = 0
    /\ pc = [r \in Requests |-> "new"] /\ path = [r \in Requests |-> "none"]
    /\ auth = [r \in Requests |-> NoAuth] /\ nonce = [r \in Requests |-> NoNonce]
    /\ resp = [r \in Requests |-> "none"] /\ conn = {}
    /\ charges = [a \in Auths |-> 0]
    /\ flight = {} /\ mined = {} /\ height = 0
    /\ blame = [a \in Auths |-> {}]

-----------------------------------------------------------------------------
(* do_GET *)

Goto(r, l) == pc' = [pc EXCEPT ![r] = l]
Answer(r, code) == Goto(r, "end") /\ resp' = [resp EXCEPT ![r] = code]
Blame(a, what) == blame' = [blame EXCEPT ![a] = @ \cup {what}]

\* verify_payment: signature, recipient, value and window.
Acceptable(a) ==
    /\ Offer[a].signed /\ Offer[a].toUs
    /\ Offer[a].value >= Price
    /\ Offer[a].after <= now /\ now <= Offer[a].before

\* A request for product p with a payment header arrives, in a thread of its own.
\* (Index, catalogue, unknown paths and the 402 challenge to a request without a
\* header are answered at once and touch nothing.)  Nothing keeps a header from
\* being sent again, also while another thread still works on it.
GetPaid(r, p, a) ==
    /\ r = arrived + 1 /\ r \in Requests /\ p \in Products
    /\ arrived' = r /\ path' = [path EXCEPT ![r] = p] /\ auth' = [auth EXCEPT ![r] = a]
    /\ conn' = conn \cup {r}
    /\ UNCHANGED <<now, nonce, charges, chain>>

VerifyAccepts(r, p, a) ==
    /\ GetPaid(r, p, a) /\ Acceptable(a)
    /\ Goto(r, "settle") /\ UNCHANGED resp
    /\ IF \E q \in Requests : Open(q) /\ auth[q] = a
       THEN Blame(a, "repeated") ELSE UNCHANGED blame

\* 402, or, for a signature eth_account cannot read, an exception nobody catches.
VerifyRefuses(r, p, a) ==
    /\ GetPaid(r, p, a) /\ ~Acceptable(a) /\ UNCHANGED blame
    /\ \E code \in {"402", "closed"} :
          /\ code = "closed" => ~Offer[a].signed
          /\ Answer(r, code)

-----------------------------------------------------------------------------
(* settle: nonce, submission, receipt; no lock is held *)

\* The first nonce that no mined or pending transaction of the wallet has.
Pending ==
    CHOOSE n \in 0 .. MaxNonce + 1 :
        /\ n >= height /\ \A a \in Auths : <<a, n>> \notin flight
        /\ \A k \in height .. n - 1 : \E a \in Auths : <<a, k>> \in flight

\* eth_getTransactionCount(pending): a node need not have heard of every
\* pending transaction, one that lags not even of every mined one.
ReadNonce(r) ==
    /\ pc[r] = "settle"
    /\ \E n \in 0 .. Pending :
          /\ n \in Nonces /\ (n < height => "stale" \in Faults)
          /\ nonce' = [nonce EXCEPT ![r] = n]
          /\ IF n < height THEN Blame(auth[r], "repeated") ELSE UNCHANGED blame
    /\ Goto(r, "send")
    /\ UNCHANGED <<now, arrived, path, auth, resp, conn, charges, chain>>

\* No node answers, or none takes the transaction: settle raises.
SettleRaises(r) ==
    /\ pc[r] \in {"settle", "send"}
    /\ Answer(r, "502")
    /\ UNCHANGED <<now, arrived, path, auth, nonce, conn, charges, chain, blame>>

\* A node takes the transaction, again if another has it already; one that lags
\* also takes a nonce that is spent.
SendAccepted(r) ==
    /\ pc[r] = "send"
    /\ flight' = IF nonce[r] >= height THEN flight \cup {<<auth[r], nonce[r]>>} ELSE flight
    /\ Goto(r, "wait")
    /\ UNCHANGED <<now, arrived, path, auth, nonce, resp, conn, charges, mined, height, blame>>

\* It was taken but the answer is lost, and the other nodes know it already.
SendUnanswered(r) ==
    /\ pc[r] = "send" /\ "lost" \in Faults /\ nonce[r] >= height
    /\ flight' = flight \cup {<<auth[r], nonce[r]>>}
    /\ Answer(r, "502")
    /\ Blame(auth[r], "failed")
    /\ UNCHANGED <<now, arrived, path, auth, nonce, conn, charges, mined, height>>

\* Mutant: a missing receipt reads like one without status 1.
WaitUnconfirmed(r) ==
    /\ pc[r] = "wait" /\ ~Receipt(auth[r], nonce[r], TRUE)
    /\ Answer(r, "502")
    /\ UNCHANGED <<now, arrived, path, auth, nonce, conn, charges, chain, blame>>

\* Mutant: a settlement that reverts because the payment was made is let through.
WaitForgiven(r) ==
    /\ pc[r] = "wait" /\ Receipt(auth[r], nonce[r], FALSE)
    /\ auth[r] \in Used
    /\ charges' = [charges EXCEPT ![auth[r]] = @ + 1]
    /\ Goto(r, "produce")
    /\ UNCHANGED <<now, arrived, path, auth, nonce, resp, conn, chain, blame>>

WaitReverted(r) ==
    /\ pc[r] = "wait" /\ Receipt(auth[r], nonce[r], FALSE)
    /\ Answer(r, "502")
    /\ UNCHANGED <<now, arrived, path, auth, nonce, conn, charges, chain, blame>>

\* Thirty polls without a receipt.  The wait is longer than the chain needs,
\* unless a fault says otherwise.
Settling(r) == <<auth[r], nonce[r]>> \in flight \/ Receipt(auth[r], nonce[r], TRUE)
WaitEnds(r) ==
    /\ pc[r] = "wait"
    /\ IF Settling(r) THEN "giveup" \in Faults /\ Blame(auth[r], "failed")
                      ELSE UNCHANGED blame
    /\ Answer(r, "502")
    /\ UNCHANGED <<now, arrived, path, auth, nonce, conn, charges, chain>>

-----------------------------------------------------------------------------
(* The charge and the goods *)

\* Mutant: the status of the receipt is not looked at.
WaitMined(r) ==
    /\ pc[r] = "wait" /\ \E ok \in BOOLEAN : Receipt(auth[r], nonce[r], ok)
    /\ Goto(r, "produce")
    /\ charges' = [charges EXCEPT ![auth[r]] = @ + 1]
    /\ UNCHANGED <<now, arrived, path, auth, nonce, resp, conn, chain, blame>>

\* A receipt with status 1, then record_charge, whose failure is only logged.
WaitConfirmed(r) ==
    /\ pc[r] = "wait" /\ Receipt(auth[r], nonce[r], TRUE)
    /\ Goto(r, "produce")
    /\ \/ charges' = [charges EXCEPT ![auth[r]] = @ + 1]
       \/ UNCHANGED charges
    /\ UNCHANGED <<now, arrived, path, auth, nonce, resp, conn, chain, blame>>

\* What a producer may make of its file: data, a payload that says there is
\* none, or an exception that ends the thread.  The state file is replaced
\* atomically; leaderboard and reports are truncated and filled by others, and
\* only the reader of reports expects it.
Produced(p) ==
    CASE p = "/posture" -> {"data"}
      [] p = "/report" -> {"data", "error"}
      [] p = "/leaderboard" -> {"data", "error", "closed"}

Produce(r) ==
    /\ pc[r] = "produce"
    /\ \E made \in Produced(path[r]) :
          /\ Answer(r, made)
          /\ IF made = "data" THEN UNCHANGED blame ELSE Blame(auth[r], "failed")
    /\ UNCHANGED <<now, arrived, path, auth, nonce, conn, charges, chain>>

\* The server restarts: its threads are gone, the transactions are not.
Crash ==
    /\ "crash" \in Faults /\ \E r \in Requests : Open(r)
    /\ pc' = [r \in Requests |-> IF Open(r) THEN "end" ELSE pc[r]]
    /\ resp' = [r \in Requests |-> IF Open(r) THEN "closed" ELSE resp[r]]
    /\ blame' = [a \in Auths |-> IF \E r \in Requests : Open(r) /\ auth[r] = a
                                 THEN blame[a] \cup {"failed"} ELSE blame[a]]
    /\ UNCHANGED <<now, arrived, path, auth, nonce, conn, charges, chain>>

-----------------------------------------------------------------------------
(* The world *)

\* The buyer's client gives up; the thread goes on.
Abandon(r) ==
    /\ "impatient" \in Faults
    /\ r \in conn /\ Open(r)
    /\ conn' = conn \ {r}
    /\ Blame(auth[r], "failed")
    /\ UNCHANGED <<now, arrived, pc, path, auth, nonce, resp, charges, chain>>

\* The token moves the money once per authorization, strictly inside its window;
\* otherwise the transaction is mined and reverts.  (To the shop a buyer without
\* funds is one whose window never opens.)
Mine(a, n) ==
    /\ <<a, n>> \in flight /\ n = height
    /\ LET ok == a \notin Used /\ Offer[a].after < now /\ now < Offer[a].before
       IN  mined' = mined \cup {<<a, n, ok>>}
    /\ height' = n + 1
    /\ flight' = {t \in flight : t[2] # n}
    /\ UNCHANGED <<now, threads, charges, blame>>

Evict(a, n) ==
    /\ <<a, n>> \in flight
    /\ flight' = flight \ {<<a, n>>}
    /\ UNCHANGED <<now, threads, charges, mined, height, blame>>

Tick ==
    /\ now < MaxTime /\ now' = now + 1
    /\ UNCHANGED <<threads, charges, chain, blame>>

-----------------------------------------------------------------------------
Thread(r) ==
    \/ ReadNonce(r) \/ SettleRaises(r) \/ SendAccepted(r) \/ SendUnanswered(r)
    \/ WaitConfirmed(r) \/ WaitReverted(r) \/ WaitEnds(r)
    \/ Produce(r)

World ==
    \/ \E r \in Requests : Abandon(r)
    \/ \E a \in Auths, n \in Nonces : Mine(a, n) \/ Evict(a, n)
    \/ Tick

Next ==
    \/ \E r \in Requests, p \in Wanted, a \in Auths :
          VerifyAccepts(r, p, a) \/ VerifyRefuses(r, p, a)
    \/ \E r \in Requests : Thread(r)
    \/ Crash
    \/ World

Spec == Init /\ [][Next]_vars

-----------------------------------------------------------------------------
(* Properties *)

\* Whatever leaves the shop was paid for with the settlement its own thread
\* waited for, out of an authorization for us that covers the price (do_GET,
\* verify_payment, settle), however threads share nonces and nodes.
ProductOnlyForPayment ==
    \A r \in Requests : resp[r] \in {"data", "error"} =>
        /\ Receipt(auth[r], nonce[r], TRUE)
        /\ Offer[auth[r]].toUs /\ Offer[auth[r]].value >= Price

\* A settled payment of which no request failed half way is being served or was
\* served: neither threads that race for one nonce nor requests that repeat each
\* other cost a buyer a payment.
NoPaymentWasted ==
    \A a \in Used : "failed" \notin blame[a] =>
        \/ HasData(a)
        \/ \E r \in conn : auth[r] = a /\ pc[r] \in {"wait", "produce"}

\* A payment is booked at most once, over retries, evictions and crashes, unless
\* two requests with it were at work at a time, or a node took a spent nonce
\* (record_charge keeps no key).
RevenueBookedOnce ==
    \A a \in Auths : "repeated" \notin blame[a] => charges[a] <= 1

\* The shop implements its promise: it serves and books only what was paid, and
\* each payment once, unless it was presented again before its first request was
\* dealt with; do_GET looks for no other request with the same authorization.
Promise == INSTANCE PaidProduct WITH
    paid <- Used,
    repeated <- {a \in Auths : "repeated" \in blame[a]},
    served <- {s \in Auths \X Requests : auth[s[2]] = s[1] /\ resp[s[2]] = "data"},
    booked <- charges
PromiseKept == Promise!Spec
===============================================================================
