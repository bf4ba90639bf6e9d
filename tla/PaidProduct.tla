----------------------------- MODULE PaidProduct ------------------------------
(***************************************************************************)
(* What the shop of agent/x402 promises: a product is handed out only for  *)
(* a payment, and revenue is booked only for a payment; both once, unless  *)
(* the payment was presented a second time before the first was dealt with.*)
(***************************************************************************)
EXTENDS Naturals

CONSTANTS
    Auths,                  \* payment authorizations, each signed once
    Requests                \* requests for a product

VARIABLES
    paid,                   \* the buyer's money has moved
    repeated,               \* authorizations presented twice at a time
    served,                 \* <<authorization, request>> of the products handed out
    booked                  \* lines of revenue in the ledger

vars == <<paid, repeated, served, booked>>

Init ==
    /\ paid = {} /\ repeated = {} /\ served = {}
    /\ booked = [a \in Auths |-> 0]

Pay(a) ==
    /\ a \notin paid
    /\ paid' = paid \cup {a}
    /\ UNCHANGED <<repeated, served, booked>>

Repeat(a) ==
    /\ repeated' = repeated \cup {a}
    /\ UNCHANGED <<paid, served, booked>>

Book(a) ==
    /\ a \in paid
    /\ booked[a] = 0 \/ a \in repeated
    /\ booked' = [booked EXCEPT ![a] = @ + 1]
    /\ UNCHANGED <<paid, repeated, served>>

Serve(a, r) ==
    /\ a \in paid
    /\ (\A q \in Requests : <<a, q>> \notin served) \/ a \in repeated
    /\ served' = served \cup {<<a, r>>}
    /\ UNCHANGED <<paid, repeated, booked>>

Next ==
    \E a \in Auths :
        \/ Pay(a) \/ Repeat(a) \/ Book(a)
        \/ \E r \in Requests : Serve(a, r)

Spec == Init /\ [][Next]_vars
===============================================================================
