------------------------------ MODULE MCFriction ------------------------------
(***************************************************************************)
(* An instance of Friction for TLC: a liquid token, one that only the waiver *)
(* brings under the ceiling, and one that never gets there but weighs on the *)
(* mean, so that a mean without it looks like a waiver.  Tenths of a per cent. *)
(***************************************************************************)
EXTENDS Friction

Three == <<"eth", "aave", "floki">>
AtStandard == [t \in {"eth", "aave", "floki"} |->
                  IF t = "eth" THEN 13 ELSE IF t = "aave" THEN 18 ELSE 60]
AtWaiver == [t \in {"eth", "aave", "floki"} |-> AtStandard[t] - 12]
===============================================================================
