---------------------------- MODULE MCCartReserve -----------------------------
(* A cart, its repetition under the same key, and a cart of another market in *)
(* a second tab.                                                              *)
EXTENDS CartReserve, TLC

CONSTANTS first, repeated, tab, k1, k2

ThreeRequests == {first, repeated, tab}
TwoKeys == {k1, k2}

\* The tab has a key of its own, or that of the first request by mistake.
OwnOrSame == {[r \in ThreeRequests |-> IF r = tab THEN k ELSE k1] : k \in TwoKeys}
Carts(r) == IF r = tab THEN "b" ELSE "a"
=============================================================================
