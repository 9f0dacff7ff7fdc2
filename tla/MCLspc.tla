------------------------------- MODULE MCLspc -------------------------------
(* Constants of Lspc for TLC.                                              *)
EXTENDS Lspc, TLC

CONSTANTS w1, w2

\* One chunk of several pieces among the pieces of a short one.
LongAndShort == w1 :> 2 @@ w2 :> 1
\* What happens to a file once it is damaged is not explored.
Undamaged == ~damaged
=============================================================================
