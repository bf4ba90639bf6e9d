---------------------------- MODULE MCLeaderboard ----------------------------
(* Small instances of Leaderboard for TLC. *)
EXTENDS Leaderboard

Registrants == {"rival"}
Registrations == [w \in Registrants |-> IF w = "us" THEN 1 ELSE 2]
==============================================================================
