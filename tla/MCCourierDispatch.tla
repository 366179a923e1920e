------------------------- MODULE MCCourierDispatch -------------------------
(* One paid order and a small pool of couriers.                            *)
EXTENDS CourierDispatch, TLC

CONSTANTS c1, c2, d1, d2, t1, t2

TwoCouriers == {c1, c2}
TwoDispatchers == {d1, d2}
TwoTickers == {t1, t2}
OneDispatcher == {d1}
OneTicker == {t1}
Symmetric == Permutations({c1, c2}) \cup Permutations({d1, d2}) \cup Permutations({t1, t2})
=============================================================================
