-------------------------- MODULE MCRotaryAttention --------------------------
(***************************************************************************)
(* Model-checking instances of RotaryAttention.                            *)
(***************************************************************************)
EXTENDS RotaryAttention

\* Two pairs that turn at different speeds.
MCInvFreq == [j \in 0 .. 1 |-> IF j = 0 THEN 3 ELSE 1]
=============================================================================
