---------------------------- MODULE MCOrderSaga ----------------------------
(* The checkout saga on small instances.                                   *)
EXTENDS OrderSaga, TLC

CONSTANTS r1, r2, s1

TwoRequests == {r1, r2}
OneSweeper == {s1}
Calls == Permutations({r1, r2})
=============================================================================
