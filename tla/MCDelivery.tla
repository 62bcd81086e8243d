----------------------------- MODULE MCDelivery -----------------------------
(* Instances of Delivery for TLC: two vehicles and one or two vehicle lists. *)
EXTENDS Delivery, TLC

CONSTANTS v1, v2

OneCar   == {<<v1>>}
Both     == {<<v1, v2>>}
BothOrV1 == {<<v1, v2>>, <<v1>>}
BothOrV2 == {<<v1, v2>>, <<v2>>}
=============================================================================
