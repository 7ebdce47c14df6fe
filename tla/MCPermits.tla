------------------------------ MODULE MCPermits ------------------------------
(* Small instances of what waits for a permit of the model, under fair      *)
(* scheduling. Questions in two conversations, one with an image, compete   *)
(* for one permit; a third message is denied.                               *)
EXTENDS ModelPermits

CONSTANTS d1, d2, d3, e1, e2, e3, m1, m2, m3, k1, k2

EventEach == [d \in Deliveries |-> IF d = d1 THEN e1 ELSE IF d = d2 THEN e2 ELSE e3]
MessageEach == [d \in Deliveries |-> IF d = d1 THEN m1 ELSE IF d = d2 THEN m2 ELSE m3]
LastApart == [m \in Messages |-> IF m = m3 THEN k2 ELSE k1]
=============================================================================
