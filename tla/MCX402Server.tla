----------------------------- MODULE MCX402Server -----------------------------
(* Small instances of X402Server for TLC. *)
EXTENDS X402Server, TLC

CONSTANTS a1, a2, cheap     \* model values

\* Two good authorizations, one that pays too little.
Buyers == {a1, a2, cheap}
Good == [signed |-> TRUE, toUs |-> TRUE, value |-> 1, after |-> 0, before |-> 2]
Terms == [a \in Buyers |-> IF a = cheap THEN [Good EXCEPT !.value = 0] ELSE Good]
Menu == {"/leaderboard"}

\* The two good ones differ in nothing.
Alike == Permutations({a1, a2})
===============================================================================
