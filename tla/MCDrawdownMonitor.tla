-------------------------- MODULE MCDrawdownMonitor -------------------------
(* A small instance of DrawdownMonitor for TLC. *)
EXTENDS DrawdownMonitor

\* A stable just below its dollar or at it, and a coin of 2 or 4 dollars.
Halving == [a \in Asset |-> CASE a = "CASH" -> {99, 100} [] a = "COIN" -> {200, 400}
                              [] a = "BNB" -> {300}]
=============================================================================
