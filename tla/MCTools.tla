------------------------------- MODULE MCTools -------------------------------
(* Small instances of what a turn shows and does beside its answer: for     *)
(* every rule of a tool, two documents that are accepted and one that the   *)
(* rule refuses.                                                            *)
EXTENDS TurnTools

Text == [title |-> 1, content |-> 2, bytes |-> 3]

Page == [title |-> 1, content |-> 2, bytes |-> 3, utf8 |-> TRUE, sanitized |-> Text,
         links |-> {"mention", "https host"}, tables |-> {<<1, 2>>}]

Pages == {
    Page, [Page EXCEPT !.content = 1],
    [Page EXCEPT !.title = 0], [Page EXCEPT !.title = 2],
    [Page EXCEPT !.content = 0], [Page EXCEPT !.content = 3],
    [Page EXCEPT !.bytes = 4], [Page EXCEPT !.utf8 = FALSE],
    [Page EXCEPT !.sanitized.title = 2], [Page EXCEPT !.sanitized.content = 3],
    [Page EXCEPT !.sanitized.bytes = 4],
    [Page EXCEPT !.links = {"http"}], [Page EXCEPT !.links = {"ftp host"}],
    [Page EXCEPT !.tables = {<<1, 2>>, <<2, 2>>}]}

Sheet == [format |-> "csv", filename |-> 1, extension |-> ".csv", utf8 |-> TRUE,
          bytes |-> 2, extra |-> 0, values |-> 0, headers |-> 2, rows |-> <<2, 2>>]
Data == [Sheet EXCEPT !.format = "json", !.extension = ".json", !.values = 1]

Sheets == {
    Sheet, Data,
    [Sheet EXCEPT !.filename = 0], [Sheet EXCEPT !.filename = 2],
    [Sheet EXCEPT !.extension = ".txt"], [Sheet EXCEPT !.utf8 = FALSE],
    [Sheet EXCEPT !.bytes = 0], [Sheet EXCEPT !.bytes = 3], [Sheet EXCEPT !.extra = 1],
    [Sheet EXCEPT !.rows = <<2, 1>>], [Sheet EXCEPT !.headers = 0],
    [Data EXCEPT !.values = 0], [Data EXCEPT !.values = 2]}

\* A conversation in a channel, and one in a thread of a direct message, which
\* has no destination.
Threads == {[kind |-> "channel", thread |-> "ts"], [kind |-> "dm", thread |-> "ts"]}
=============================================================================
