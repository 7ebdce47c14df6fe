------------------------ MODULE MCAssistantExchange ------------------------
(* Small instances of AssistantExchange.                                    *)
EXTENDS AssistantExchange

CONSTANTS t1, t2, k1, k2, s1, s2

Two         == {t1, t2}
Apart       == [t \in Turns |-> IF t = t1 THEN k1 ELSE k2]
Together    == [t \in Turns |-> k1]
FirstLonger == [t \in Turns |-> IF t = t1 THEN 2 ELSE 1]
OneEach     == [t \in Turns |-> 1]
OnlyFirst   == {t1}
=============================================================================
