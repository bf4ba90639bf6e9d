------------------------- MODULE PositionLifecycle --------------------------
(***************************************************************************)
(* What the trading cycle promises about the wallet, whatever the store,   *)
(* the snapshot and the executor do in between: each token is either out   *)
(* of the wallet or held as one position; a position is opened only when   *)
(* the token is out and its last sale lies at least Cooldown back.         *)
(***************************************************************************)
EXTENDS Integers

CONSTANTS Token, Cooldown

VARIABLES
    clock,      \* the UTC clock
    position,   \* positions held of each token
    closedAt    \* when the token was last sold

vars == <<clock, position, closedAt>>

Init ==
    /\ clock = 0
    /\ position = [t \in Token |-> 0]
    /\ closedAt = [t \in Token |-> 0 - Cooldown]

Advance ==
    /\ clock' = clock + 1
    /\ UNCHANGED <<position, closedAt>>

Open(t) ==
    /\ position[t] = 0
    /\ clock - closedAt[t] >= Cooldown
    /\ position' = [position EXCEPT ![t] = 1]
    /\ UNCHANGED <<clock, closedAt>>

Close(t) ==
    /\ position[t] = 1
    /\ position' = [position EXCEPT ![t] = 0]
    /\ closedAt' = [closedAt EXCEPT ![t] = clock]
    /\ UNCHANGED clock

Next == Advance \/ \E t \in Token : Open(t) \/ Close(t)

Spec == Init /\ [][Next]_vars
=============================================================================
