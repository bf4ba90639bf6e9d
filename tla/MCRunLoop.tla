----------------------------- MODULE MCRunLoop ------------------------------
(* Small instances of RunLoop for TLC. *)
EXTENDS RunLoop

\* Mean round-trip costs before and during a fee waiver, and a little noise.
Fees == {5, 8, 9}
=============================================================================
