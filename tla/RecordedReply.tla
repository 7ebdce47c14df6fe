--------------------------- MODULE RecordedReply ---------------------------
(***************************************************************************)
(* What recording a reply promises, whatever intents, workers and crashes  *)
(* lie underneath: a reply enters the conversation at most once, and only  *)
(* when Slack has all of it; its memory work is queued in the same step.   *)
(***************************************************************************)
CONSTANTS Turns, Eligible

VARIABLES reply, queued

Init ==
    /\ reply = [t \in Turns |-> "unsent"]
    /\ queued = {}

\* Slack has accepted the last part of the reply.
Accept(t) ==
    /\ reply[t] = "unsent"
    /\ reply' = [reply EXCEPT ![t] = "sent"]
    /\ UNCHANGED queued

Record(t) ==
    /\ reply[t] = "sent"
    /\ reply' = [reply EXCEPT ![t] = "recorded"]
    /\ queued' = queued \cup ({t} \cap Eligible)

Next == \E t \in Turns : Accept(t) \/ Record(t)

Spec == Init /\ [][Next]_<<reply, queued>>
=============================================================================
