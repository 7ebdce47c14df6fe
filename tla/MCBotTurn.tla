----------------------------- MODULE MCBotTurn -----------------------------
(* Small instances of BotTurn.                                              *)
EXTENDS BotTurn

CONSTANTS d1, d2, d3, e1, e2, e3, m1, m2, k1, k2

EventEach == [d \in Deliveries |-> IF d = d1 THEN e1 ELSE IF d = d2 THEN e2 ELSE e3]

\* m1 arrives twice, under two events; m2 is another message.
FirstTwice  == [d \in Deliveries |-> IF d = d3 THEN m2 ELSE m1]
MessageEach == [d \in Deliveries |-> IF d = d1 THEN m1 ELSE m2]

Together  == [m \in Messages |-> k1]
=============================================================================
