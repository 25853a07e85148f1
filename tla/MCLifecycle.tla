---------------------------- MODULE MCLifecycle ----------------------------
(* Instances of BeliefHistory for TLC. *)
EXTENDS BeliefHistory

Line3 == 0 .. 2
DefaultRemoval == -600
MinusTwo == -2
DoubtfulOrPlain == {-3, 1}
=============================================================================
