----------------------------- MODULE MCSessions -----------------------------
(* Small instances of what lasts beyond a turn.                              *)
EXTENDS LastingState, TLC

CONSTANTS c1, c2, alice

------------------------------------------------------------------------------
(* Sessions: an event changes the state of the session and its user, or     *)
(* that of the application                                                  *)

BothFamilies == {"openai_compatible", "agent_cli"}

Key(scope, name) == [scope |-> scope, name |-> name]
Delta(keys) == [k \in keys |-> "x"]

TwoDeltas == {Delta({Key("session", "k"), Key("temp", "t"), Key("user", "k")}),
              Delta({Key("app", "k"), Key("app", "y")})}

------------------------------------------------------------------------------
(* Messages: of every way to address the bot, one that is right and one for *)
(* every thing that can be otherwise                                        *)

Mention == [id |-> "C", type |-> "channel", ts |-> 2, thread |-> 0, author |-> "user",
            changed |-> FALSE, subtype |-> "none", mention |-> TRUE, text |-> TRUE,
            files |-> "none"]
Direct == [Mention EXCEPT !.id = "D", !.type = "im", !.mention = FALSE]
Reply == [Mention EXCEPT !.thread = 1, !.mention = FALSE]
Kinds == {Mention, Direct, Reply, [Direct EXCEPT !.mention = TRUE], [Reply EXCEPT !.mention = TRUE]}

EveryKind ==
    UNION {{m, [m EXCEPT !.thread = 1], [m EXCEPT !.ts = 1], [m EXCEPT !.text = FALSE],
            [m EXCEPT !.files = "whole"], [m EXCEPT !.text = FALSE, !.files = "whole"],
            [m EXCEPT !.files = "nameless"], [m EXCEPT !.subtype = "other"],
            [m EXCEPT !.changed = TRUE], [m EXCEPT !.author = "bot"]} : m \in Kinds}
    \cup {[m EXCEPT !.id = "G", !.type = t] :
            m \in {k \in Kinds : k.type # "im"}, t \in {"group", "mpim"}}

------------------------------------------------------------------------------
(* Confirmations: two calls, one of which an older release left behind, and *)
(* two permits, so that two decisions may run at once                       *)

TwoCalls == {c1, c2}
OldCall == {c2}
OneUser == {alice}
AliceAsks == [c \in {c1, c2} |-> alice]
AliceDecides == {{alice}}

------------------------------------------------------------------------------

\* What does not move starts in one way.
InitAll ==
    /\ LastingInit
    /\ part # "session" => /\ providerFamily = "agent_cli" /\ stored = {}
                           /\ \A t, u \in SessionTurns : sessionID[t] = sessionID[u]
    /\ part # "listener" => ~threadedDM /\ conversations = {}
    /\ part # "coordinator" => binary = CHOOSE v \in Versions : TRUE
    /\ part # "confirmation" => status[c2] = "published"

SpecAll == InitAll /\ [][LastingNext]_lastingVars

Symmetry ==
    Permutations(Sessions) \cup Permutations(SessionTurns) \cup Permutations(Turns)
        \cup Permutations(Deciders)
=============================================================================
