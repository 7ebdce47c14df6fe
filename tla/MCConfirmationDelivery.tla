----------------------- MODULE MCConfirmationDelivery -----------------------
(* A small instance of ConfirmationDelivery.                                *)
EXTENDS ConfirmationDelivery

CONSTANTS c1, alice, bob, h1, h2

OneCall   == {c1}
NoLegacy  == {}
UserSet   == {alice, bob}
AliceAsks == [c \in Calls |-> alice]
PolicySet == {{alice}, {alice, bob}, {bob}}
=============================================================================
