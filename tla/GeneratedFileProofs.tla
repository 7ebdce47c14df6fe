------------------------ MODULE GeneratedFileProofs ------------------------
(***************************************************************************)
(* Proofs about GeneratedFile for any calls, actors, documents and limits: *)
(* types, the file that answers a call, and that exports implement         *)
(* ConfirmedEffect. A row says how far its export has gone only together   *)
(* with the place of the call that inserted it, which is one at most.      *)
(***************************************************************************)
EXTENDS GeneratedFile, FiniteSetTheorems, TLAPS

RowOf(a) == [actor |-> a.actor, doc |-> a.doc]

\* The calls that hold the export they have inserted: one for each.
Uploading ==
    {"url", "mark url", "upload", "mark bytes", "complete", "mark completed", "settle"}
ExportPlaces == {"insert", "exists"} \cup Uploading \cup Ended

ExportTyped ==
    /\ status \in [Ops -> Statuses]
    /\ owner \in [Ops -> {{}} \cup [actor : Actors, doc : Documents]]
    /\ fileID \in [Ops -> Nat]
    /\ files \in Seq([of : Asks, stage : {"empty", "bytes", "shared"}])
    /\ consents \subseteq Asks
    /\ pc \in [Calls -> ExportPlaces]
    /\ DOMAIN ask = Calls
    /\ target \in [Calls -> Nat]
    /\ verdict \in [Calls -> {"none", "failed", "unknown"}]

\* What an export asks for is known from when it is held, and approved from
\* when it runs.
Exporting(c) == pc[c] \in {"insert", "exists", "answered"} \cup Uploading

ExportAsked(c) ==
    /\ pc[c] = "held" \/ Exporting(c) => ask[c] \in Asks
    /\ Exporting(c) => ask[c] \in consents

\* How far the row of a call has gone.
ExportRowFits(c) ==
    /\ pc[c] \in Uploading => owner[ask[c].op] = RowOf(ask[c])
    /\ pc[c] \in {"url", "mark url"} => status[ask[c].op] = "pending_confirmation"
    /\ pc[c] \in {"upload", "mark bytes"} => status[ask[c].op] = "url_requested"
    /\ pc[c] \in {"complete", "mark completed"} => status[ask[c].op] = "bytes_uploaded"
    /\ pc[c] = "settle" =>
           status[ask[c].op] \in {"pending_confirmation", "url_requested", "bytes_uploaded"}
    /\ pc[c] = "exists" => status[ask[c].op] # "none"

\* The files of an operation: at most one, of what its row asks for.
Begun(o) == {n \in DOMAIN files : files[n].of.op = o}

Has(c) == target[c] \in DOMAIN files /\ files[target[c]].of = ask[c]

\* What a call holds, and how far it has come.
TargetFits(c) ==
    /\ pc[c] = "url" => Begun(ask[c].op) = {}
    /\ pc[c] \in {"mark url", "upload", "mark bytes", "complete"} =>
           Has(c) /\ files[target[c]].stage # "shared"
    /\ pc[c] \in {"mark completed", "answered"} => Has(c) /\ files[target[c]].stage = "shared"
    /\ pc[c] = "settle" => verdict[c] # "none" /\ (target[c] # 0 => Has(c))

CallFits(c) == ExportAsked(c) /\ ExportRowFits(c) /\ TargetFits(c)

\* One call at most uploads for an operation.
OneUploads ==
    \A c, d \in Calls :
        pc[c] \in Uploading /\ pc[d] \in Uploading /\ ask[c].op = ask[d].op => c = d

BegunOnce ==
    /\ \A m, n \in DOMAIN files : files[m].of.op = files[n].of.op => m = n
    /\ \A n \in DOMAIN files :
           files[n].of \in consents /\ owner[files[n].of.op] = RowOf(files[n].of)

\* What the row of an export says is so.
ExportIsTrue(o) ==
    /\ status[o] = "none" => Begun(o) = {}
    /\ fileID[o] # 0 => fileID[o] \in Begun(o)
    /\ status[o] = "completed" => fileID[o] # 0 /\ files[fileID[o]].stage = "shared"

ExportInv ==
    /\ ExportTyped
    /\ \A c \in Calls : CallFits(c)
    /\ OneUploads
    /\ BegunOnce
    /\ \A o \in Ops : ExportIsTrue(o)

-----------------------------------------------------------------------------

\* What the files are, as a sequence.
LEMMA SequenceFacts ==
    ASSUME NEW S, NEW q \in Seq(S)
    PROVE  /\ DOMAIN q = 1..Len(q) /\ Len(q) \in Nat /\ 0 \notin DOMAIN q
           /\ \A n \in DOMAIN q : q[n] \in S
<1>1. DOMAIN q = 1..Len(q) /\ Len(q) \in Nat
  OBVIOUS
<1>2. \A n \in 1..Len(q) : q[n] \in S
  OBVIOUS
<1> QED BY <1>1, <1>2

LEMMA FilesFacts ==
    ASSUME ExportTyped
    PROVE  /\ DOMAIN files = 1..Len(files) /\ Len(files) \in Nat /\ 0 \notin DOMAIN files
           /\ \A n \in DOMAIN files : /\ files[n] \in [of : Asks, stage : {"empty", "bytes", "shared"}]
                                      /\ files[n].of \in Asks /\ files[n].of.op \in Ops
<1> DEFINE S == [of : Asks, stage : {"empty", "bytes", "shared"}]
<1>1. files \in Seq(S)
  BY DEF ExportTyped
<1> HIDE DEF S
<1>2. /\ DOMAIN files = 1..Len(files) /\ Len(files) \in Nat /\ 0 \notin DOMAIN files
      /\ \A n \in DOMAIN files : files[n] \in S
  BY <1>1, SequenceFacts
<1> QED BY <1>2 DEF S, Asks

\* Only call c moves.
OnlyMoves(c) ==
    \A d \in Calls \ {c} : /\ pc'[d] = pc[d] /\ ask'[d] = ask[d]
                           /\ target'[d] = target[d] /\ verdict'[d] = verdict[d]

\* A call that stops, is held, or looks at a row it has not made leaves the
\* rows and the files, and with them every other call, as they were.
LEMMA ExportQuietStep ==
    ASSUME ExportInv, NEW c \in Calls, UNCHANGED <<rows, files>>,
           consents \subseteq consents', OnlyMoves(c), ExportTyped',
           pc'[c] \notin Uploading, CallFits(c)'
    PROVE  ExportInv'
<1>1. status' = status /\ owner' = owner /\ fileID' = fileID /\ files' = files
  BY DEF rows
<1>2. \A o : Begun(o)' = Begun(o)
  BY <1>1 DEF Begun
<1>3. ASSUME NEW d \in Calls \ {c} PROVE CallFits(d)'
  <2>1. CallFits(d) /\ pc'[d] = pc[d] /\ ask'[d] = ask[d] /\ target'[d] = target[d]
        /\ verdict'[d] = verdict[d]
    BY DEF ExportInv, OnlyMoves
  <2>2. ExportAsked(d)'
    BY <2>1 DEF CallFits, ExportAsked, Exporting
  <2>3. ExportRowFits(d)'
    BY <1>1, <2>1 DEF CallFits, ExportRowFits
  <2>4. TargetFits(d)'
    BY <1>1, <1>2, <2>1 DEF CallFits, TargetFits, Has
  <2> QED BY <2>2, <2>3, <2>4 DEF CallFits
<1>4. OneUploads'
  BY DEF ExportInv, OneUploads, OnlyMoves
<1>5. BegunOnce'
  BY <1>1 DEF ExportInv, BegunOnce, RowOf
<1>6. ASSUME NEW o \in Ops PROVE ExportIsTrue(o)'
  BY <1>1, <1>2 DEF ExportInv, ExportIsTrue
<1> QED BY <1>3, <1>4, <1>5, <1>6 DEF ExportInv

\* Files stay, those of other operations as they are, and what is shared stays
\* shared; a new one is of what the call asks for.
FilesGrow(o, a) ==
    /\ DOMAIN files \subseteq DOMAIN files'
    /\ \A n \in DOMAIN files :
           /\ files'[n].of = files[n].of
           /\ files[n].of.op # o => files'[n] = files[n]
           /\ files[n].stage = "shared" => files'[n].stage = "shared"
    /\ \A n \in DOMAIN files' \ DOMAIN files : files'[n].of = a

\* A call that owns its operation, or takes it, changes its row and its files
\* alone, and so leaves the other calls what they rely on.
LEMMA ExportOwnStep ==
    ASSUME ExportInv, NEW c \in Calls, NEW o \in Ops, ask[c] \in Asks, ask[c].op = o,
           ask' = ask, ask[c] \in consents, consents' = consents,
           OnlyMoves(c), ExportTyped', CallFits(c)', ExportIsTrue(o)',
           \A d \in Calls \ {c} : pc[d] \in Uploading => ask[d].op # o,
           status'[o] # "none",
           \A q \in Ops \ {o} :
               status'[q] = status[q] /\ owner'[q] = owner[q] /\ fileID'[q] = fileID[q],
           owner'[o] = RowOf(ask[c]), owner'[o] = owner[o] \/ Begun(o) = {},
           FilesGrow(o, ask[c]),
           \A m, n \in DOMAIN files' : files'[m].of.op = o /\ files'[n].of.op = o => m = n
    PROVE  ExportInv'
<1>1. ASSUME NEW n \in DOMAIN files PROVE files[n].of \in Asks /\ files[n].of.op \in Ops
  BY FilesFacts DEF ExportInv
<1>2. ASSUME NEW n \in DOMAIN files' PROVE n \in DOMAIN files \/ files'[n].of = ask[c]
  BY DEF FilesGrow
<1>3. \A q : q # o => Begun(q)' = Begun(q)
  BY <1>2 DEF Begun, FilesGrow
<1>4. ASSUME NEW d \in Calls \ {c} PROVE CallFits(d)'
  <2>1. CallFits(d) /\ pc'[d] = pc[d] /\ ask'[d] = ask[d] /\ target'[d] = target[d]
        /\ verdict'[d] = verdict[d]
    BY DEF ExportInv, OnlyMoves
  <2>2. ExportAsked(d)'
    BY <2>1 DEF CallFits, ExportAsked, Exporting
  <2>3. pc[d] \in Uploading => ask[d].op \in Ops \ {o}
    BY <2>1 DEF CallFits, ExportAsked, Exporting, Asks
  <2>4. pc[d] \in Uploading =>
            /\ status'[ask[d].op] = status[ask[d].op] /\ owner'[ask[d].op] = owner[ask[d].op]
            /\ Begun(ask[d].op)' = Begun(ask[d].op)
    BY <1>3, <2>3
  <2>5. pc[d] = "exists" => status'[ask[d].op] # "none"
    <3>1. pc[d] = "exists" => ask[d].op \in Ops /\ status[ask[d].op] # "none"
      BY <2>1 DEF CallFits, ExportAsked, Exporting, Asks, ExportRowFits
    <3> QED BY <3>1
  <2>6. ExportRowFits(d)'
    BY <2>1, <2>4, <2>5 DEF CallFits, ExportRowFits, Uploading
  <2>7. Has(d) => Has(d)' /\ (files[target[d]].stage = "shared" => files'[target[d]].stage = "shared")
    BY <2>1 DEF Has, FilesGrow
  <2>8. Has(d) /\ pc[d] \in Uploading => files'[target[d]] = files[target[d]]
    BY <2>3 DEF Has, FilesGrow
  <2>9. TargetFits(d)'
    BY <2>1, <2>4, <2>7, <2>8 DEF CallFits, TargetFits, Uploading
  <2> QED BY <2>2, <2>6, <2>9 DEF CallFits
<1>5. OneUploads'
  BY DEF ExportInv, OneUploads, OnlyMoves
<1>6. BegunOnce'
  <2>1. ASSUME NEW m \in DOMAIN files', NEW n \in DOMAIN files',
               files'[m].of.op = files'[n].of.op
        PROVE  m = n
    <3>1. CASE files'[m].of.op = o
      BY <2>1, <3>1
    <3>2. CASE files'[m].of.op # o
      <4>1. m \in DOMAIN files /\ n \in DOMAIN files
        BY <1>2, <2>1, <3>2
      <4>2. files[m].of.op = files[n].of.op
        BY <2>1, <4>1 DEF FilesGrow
      <4> QED BY <4>1, <4>2 DEF ExportInv, BegunOnce
    <3> QED BY <3>1, <3>2
  <2>2. ASSUME NEW n \in DOMAIN files'
        PROVE  files'[n].of \in consents' /\ owner'[files'[n].of.op] = RowOf(files'[n].of)
    <3>1. CASE n \in DOMAIN files
      <4>1. /\ files'[n].of = files[n].of /\ files[n].of \in consents
            /\ owner[files[n].of.op] = RowOf(files[n].of)
        BY <3>1 DEF ExportInv, BegunOnce, FilesGrow
      <4>2. owner'[files[n].of.op] = owner[files[n].of.op]
        BY <1>1, <3>1 DEF Begun
      <4> QED BY <4>1, <4>2
    <3>2. CASE n \notin DOMAIN files
      BY <1>2, <3>2
    <3> QED BY <3>1, <3>2
  <2> QED BY <2>1, <2>2 DEF BegunOnce, RowOf
<1>7. ASSUME NEW q \in Ops \ {o} PROVE ExportIsTrue(q)'
  <2>1. ExportIsTrue(q) /\ status'[q] = status[q] /\ fileID'[q] = fileID[q] /\ Begun(q)' = Begun(q)
    BY <1>3 DEF ExportInv
  <2>2. fileID[q] \in Begun(q) => files'[fileID[q]] = files[fileID[q]]
    BY DEF Begun, FilesGrow
  <2> QED BY <2>1, <2>2 DEF ExportIsTrue
<1> QED BY <1>4, <1>5, <1>6, <1>7 DEF ExportInv

-----------------------------------------------------------------------------
(* The steps of an export                                                    *)

LEMMA ExportFails ==
    ASSUME ExportInv, NEW c \in Calls, Fails(c)
    PROVE  ExportInv'
<1>1. /\ pc' = [pc EXCEPT ![c] = "error"]
      /\ UNCHANGED <<rows, files, consents, ask, target, verdict>>
  BY DEF Fails, Goto
<1>2. /\ pc'[c] = "error" /\ pc' \in [Calls -> ExportPlaces]
      /\ \A d \in Calls \ {c} : pc'[d] = pc[d]
  BY <1>1 DEF ExportInv, ExportTyped, ExportPlaces, Ended
<1>3. ExportTyped'
  BY <1>1, <1>2 DEF ExportInv, ExportTyped, rows
<1>4. CallFits(c)'
  BY <1>2 DEF CallFits, ExportAsked, ExportRowFits, TargetFits, Exporting, Uploading
<1> QED BY <1>1, <1>2, <1>3, <1>4, ExportQuietStep DEF OnlyMoves, Uploading

\* What holds of a call that uploads.
LEMMA UploadingFacts ==
    ASSUME ExportInv, NEW c \in Calls, pc[c] \in Uploading
    PROVE  /\ ask[c] \in Asks /\ ask[c] \in consents /\ ask[c].op \in Ops
           /\ owner[ask[c].op] = RowOf(ask[c]) /\ status[ask[c].op] # "none"
           /\ \A d \in Calls \ {c} : pc[d] \in Uploading => ask[d].op # ask[c].op
<1>1. CallFits(c) /\ OneUploads
  BY DEF ExportInv
<1>2. ask[c] \in Asks /\ ask[c] \in consents /\ ask[c].op \in Ops
  BY <1>1 DEF CallFits, ExportAsked, Exporting, Asks
<1>3. owner[ask[c].op] = RowOf(ask[c]) /\ status[ask[c].op] # "none"
  BY <1>1 DEF CallFits, ExportRowFits, Uploading
<1> QED BY <1>1, <1>2, <1>3 DEF OneUploads

\* A call records how far it has come: after its target and its bytes, when the
\* file is shown, or when it gives up.
LEMMA PersistStep ==
    ASSUME ExportInv, NEW c \in Calls, NEW s, NEW next, PersistStatus(c, s, next),
           \/ pc[c] = "mark url" /\ s = "url_requested" /\ next = "upload"
           \/ pc[c] = "mark bytes" /\ s = "bytes_uploaded" /\ next = "complete"
           \/ pc[c] = "mark completed" /\ s = "completed" /\ next = "answered"
           \/ pc[c] = "settle" /\ s = verdict[c] /\ next = "error"
    PROVE  ExportInv'
<1> DEFINE o == ask[c].op
<1>1. CASE Fails(c)
  BY <1>1, ExportFails
<1>2. CASE /\ status' = [status EXCEPT ![o] = s] /\ fileID' = [fileID EXCEPT ![o] = target[c]]
           /\ Goto(c, next) /\ UNCHANGED <<owner, files, consents>>
  <2>1. /\ ask[c] \in Asks /\ ask[c] \in consents /\ o \in Ops /\ owner[o] = RowOf(ask[c])
        /\ \A d \in Calls \ {c} : pc[d] \in Uploading => ask[d].op # o
    BY UploadingFacts DEF Uploading
  <2>2. ExportTyped /\ CallFits(c) /\ ExportIsTrue(o)
    BY <2>1 DEF ExportInv
  <2>3. s \in Statuses \ {"none"} /\ next \in ExportPlaces
    <3>1. pc[c] = "settle" => verdict[c] \in {"failed", "unknown"}
      BY <2>2 DEF CallFits, TargetFits, ExportTyped
    <3> QED BY <3>1 DEF Statuses, ExportPlaces, Uploading, Ended
  <2>4. /\ pc' = [pc EXCEPT ![c] = next]
        /\ UNCHANGED <<owner, files, consents, ask, target, verdict>>
    BY <1>2 DEF Goto
  <2>5. ExportTyped'
    BY <1>2, <2>1, <2>2, <2>3, <2>4 DEF ExportTyped
  <2>6. /\ pc'[c] = next /\ status'[o] = s /\ fileID'[o] = target[c]
        /\ \A d \in Calls \ {c} : pc'[d] = pc[d]
        /\ \A q \in Ops \ {o} : status'[q] = status[q] /\ fileID'[q] = fileID[q]
    BY <1>2, <2>1, <2>2, <2>4 DEF ExportTyped
  <2>7. target[c] # 0 => Has(c)
    BY <2>2 DEF CallFits, TargetFits
  <2>8. CallFits(c)'
    <3>1. ExportAsked(c)'
      BY <2>1, <2>4 DEF ExportAsked
    <3>2. ExportRowFits(c)'
      BY <2>1, <2>4, <2>6 DEF ExportRowFits
    <3>3. TargetFits(c)'
      BY <2>2, <2>4, <2>6 DEF CallFits, TargetFits, Has
    <3> QED BY <3>1, <3>2, <3>3 DEF CallFits
  <2>9. ExportIsTrue(o)'
    <3>1. Begun(o)' = Begun(o) /\ (Has(c) => target[c] \in Begun(o))
      BY <2>4 DEF Begun, Has
    <3>2. s = "completed" => Has(c) /\ target[c] # 0 /\ files[target[c]].stage = "shared"
      <4>1. s = "completed" => pc[c] = "mark completed"
        BY <2>2 DEF CallFits, TargetFits, ExportTyped
      <4>2. s = "completed" => Has(c) /\ files[target[c]].stage = "shared"
        BY <2>2, <4>1 DEF CallFits, TargetFits
      <4>3. 0 \notin DOMAIN files
        BY <2>2, FilesFacts
      <4> QED BY <4>2, <4>3 DEF Has
    <3> QED BY <2>3, <2>4, <2>6, <2>7, <3>1, <3>2 DEF ExportIsTrue
  <2>10. FilesGrow(o, ask[c]) /\ OnlyMoves(c)
    BY <2>4, <2>6 DEF FilesGrow, OnlyMoves
  <2>11. \A m, n \in DOMAIN files' : files'[m].of.op = o /\ files'[n].of.op = o => m = n
    BY <2>4 DEF ExportInv, BegunOnce
  <2>12. owner' = owner /\ ask' = ask /\ consents' = consents /\ status'[o] # "none"
    BY <2>3, <2>4, <2>6
  <2> QED BY <2>1, <2>5, <2>6, <2>8, <2>9, <2>10, <2>11, <2>12, ExportOwnStep
<1> QED BY <1>1, <1>2 DEF PersistStatus
\* A call takes the operation for which there is no row.
LEMMA ExportInsertStep ==
    ASSUME ExportInv, NEW c \in Calls, pc[c] = "insert", status[ask[c].op] = "none",
           status' = [status EXCEPT ![ask[c].op] = "pending_confirmation"],
           owner' = [owner EXCEPT ![ask[c].op] = RowOf(ask[c])],
           Goto(c, "url"), UNCHANGED <<fileID, files, consents>>
    PROVE  ExportInv'
<1> DEFINE o == ask[c].op
<1>1. /\ ask[c] \in Asks /\ ask[c] \in consents /\ o \in Ops
      /\ RowOf(ask[c]) \in [actor : Actors, doc : Documents]
  BY DEF ExportInv, CallFits, ExportAsked, Exporting, Asks, RowOf
<1>2. ExportTyped /\ ExportIsTrue(o)
  BY <1>1 DEF ExportInv
<1>3. Begun(o) = {} /\ fileID[o] = 0
  BY <1>2 DEF ExportIsTrue
<1>4. pc' = [pc EXCEPT ![c] = "url"] /\ UNCHANGED <<ask, target, verdict>>
  BY DEF Goto
<1>5. ExportTyped'
  BY <1>1, <1>2, <1>4 DEF ExportTyped, Statuses, ExportPlaces, Uploading
<1>6. /\ pc'[c] = "url" /\ status'[o] = "pending_confirmation" /\ owner'[o] = RowOf(ask[c])
      /\ \A d \in Calls \ {c} : pc'[d] = pc[d]
      /\ \A q \in Ops \ {o} : status'[q] = status[q] /\ owner'[q] = owner[q]
  BY <1>1, <1>2, <1>4 DEF ExportTyped
<1>7. Begun(o)' = {}
  BY <1>3, <1>4 DEF Begun
<1>8. CallFits(c)'
  <2>1. ExportAsked(c)'
    BY <1>1, <1>4 DEF ExportAsked
  <2>2. ExportRowFits(c)'
    BY <1>4, <1>6 DEF ExportRowFits, RowOf
  <2>3. TargetFits(c)'
    BY <1>4, <1>6, <1>7 DEF TargetFits
  <2> QED BY <2>1, <2>2, <2>3 DEF CallFits
<1>9. ExportIsTrue(o)'
  BY <1>3, <1>4, <1>6, <1>7 DEF ExportIsTrue
<1>10. \A d \in Calls \ {c} : pc[d] \in Uploading => ask[d].op # o
  BY UploadingFacts
<1>11. FilesGrow(o, ask[c]) /\ OnlyMoves(c)
  BY <1>4, <1>6 DEF FilesGrow, OnlyMoves
<1>12. \A m, n \in DOMAIN files' : files'[m].of.op = o /\ files'[n].of.op = o => m = n
  BY <1>3 DEF Begun
<1> QED
  BY <1>1, <1>3, <1>4, <1>5, <1>6, <1>8, <1>9, <1>10, <1>11, <1>12, ExportOwnStep

\* A call that uploads moves on, and its files with it, before it writes its
\* row; or it gives up, with something to write.
LEMMA UploadStep ==
    ASSUME ExportInv, NEW c \in Calls, pc[c] \in Uploading, UNCHANGED <<rows, consents>>,
           NEW place, pc' = [pc EXCEPT ![c] = place], ask' = ask, OnlyMoves(c),
           place \in {"mark url", "mark bytes", "mark completed", "settle"},
           place = "mark url" => pc[c] = "url",
           place = "mark bytes" => pc[c] = "upload",
           place = "mark completed" => pc[c] = "complete",
           place = "settle" => verdict'[c] # "none" /\ pc[c] \in {"url", "upload", "complete"},
           place = "settle" => (target'[c] # 0 => Has(c)'),
           place # "settle" => Has(c)' /\ (files'[target'[c]].stage = "shared" <=> place = "mark completed"),
           FilesGrow(ask[c].op, ask[c]), files' \in Seq([of : Asks, stage : {"empty", "bytes", "shared"}]),
           target' \in [Calls -> Nat], verdict' \in [Calls -> {"none", "failed", "unknown"}],
           \A m, n \in DOMAIN files' :
               files'[m].of.op = ask[c].op /\ files'[n].of.op = ask[c].op => m = n
    PROVE  ExportInv'
<1> DEFINE o == ask[c].op
<1>1. /\ ask[c] \in Asks /\ ask[c] \in consents /\ o \in Ops
      /\ owner[o] = RowOf(ask[c]) /\ status[o] # "none"
      /\ \A d \in Calls \ {c} : pc[d] \in Uploading => ask[d].op # o
  BY UploadingFacts
<1>2. ExportTyped /\ CallFits(c) /\ ExportIsTrue(o)
  BY <1>1 DEF ExportInv
<1>3. UNCHANGED <<status, owner, fileID, consents>>
  BY DEF rows
<1>4. pc'[c] = place
  BY <1>2 DEF ExportTyped
<1>5. ExportTyped'
  <2>1. pc' \in [Calls -> ExportPlaces]
    BY <1>2 DEF ExportTyped, ExportPlaces, Uploading
  <2> QED BY <1>2, <1>3, <2>1 DEF ExportTyped
<1>6. CallFits(c)'
  <2>1. ExportAsked(c)'
    BY <1>1, <1>3 DEF ExportAsked
  <2>2. ExportRowFits(c)'
    BY <1>1, <1>2, <1>3, <1>4 DEF CallFits, ExportRowFits, RowOf
  <2>3. TargetFits(c)'
    BY <1>4 DEF TargetFits
  <2> QED BY <2>1, <2>2, <2>3 DEF CallFits
<1>7. ExportIsTrue(o)'
  <2>1. \A n \in Begun(o) : n \in Begun(o)' /\ (files[n].stage = "shared" => files'[n].stage = "shared")
    BY DEF Begun, FilesGrow
  <2> QED BY <1>1, <1>2, <1>3, <2>1 DEF ExportIsTrue
<1> QED BY <1>1, <1>3, <1>5, <1>6, <1>7, ExportOwnStep

\* A new target is a file of the operation, and its only one.
LEMMA TargetStep ==
    ASSUME ExportInv, NEW c \in Calls, pc[c] = "url", NEW f,
           f = [of |-> ask[c], stage |-> "empty"], files' = Append(files, f)
    PROVE  /\ FilesGrow(ask[c].op, ask[c])
           /\ files' \in Seq([of : Asks, stage : {"empty", "bytes", "shared"}])
           /\ Len(files') = Len(files) + 1 /\ Len(files') \in Nat \ {0}
           /\ Len(files') \in DOMAIN files' /\ files'[Len(files')] = f
           /\ \A m, n \in DOMAIN files' :
                  files'[m].of.op = ask[c].op /\ files'[n].of.op = ask[c].op => m = n
<1> DEFINE S == [of : Asks, stage : {"empty", "bytes", "shared"}]
<1>1. ask[c] \in Asks /\ ExportTyped /\ Begun(ask[c].op) = {}
  BY DEF ExportInv, CallFits, ExportAsked, Exporting, TargetFits, Uploading
<1>2. files \in Seq(S) /\ f \in S
  BY <1>1 DEF ExportTyped
<1> HIDE DEF S
<1>3. /\ files' \in Seq(S) /\ Len(files') = Len(files) + 1 /\ Len(files) \in Nat
      /\ DOMAIN files' = 1..(Len(files) + 1) /\ DOMAIN files = 1..Len(files)
  BY <1>2
<1>4. files'[Len(files) + 1] = f /\ \A n \in 1..Len(files) : files'[n] = files[n]
  BY <1>2
<1>5. \A n \in DOMAIN files' : n \in DOMAIN files \/ n = Len(files) + 1
  BY <1>3
<1>6. \A n \in DOMAIN files : files[n].of.op # ask[c].op
  BY <1>1 DEF Begun
<1>7. FilesGrow(ask[c].op, ask[c])
  BY <1>3, <1>4, <1>5 DEF FilesGrow
<1>8. \A n \in DOMAIN files' : files'[n].of.op = ask[c].op => n = Len(files) + 1
  BY <1>3, <1>4, <1>5, <1>6
<1> QED BY <1>3, <1>4, <1>7, <1>8 DEF S

\* A file comes further.
LEMMA StageStep ==
    ASSUME ExportInv, NEW c \in Calls, pc[c] \in {"upload", "complete"},
           NEW x \in {"bytes", "shared"},
           files' = files \/ files' = [files EXCEPT ![target[c]].stage = x]
    PROVE  /\ FilesGrow(ask[c].op, ask[c])
           /\ files' \in Seq([of : Asks, stage : {"empty", "bytes", "shared"}])
           /\ DOMAIN files' = DOMAIN files /\ \A n \in DOMAIN files : files'[n].of = files[n].of
           /\ target[c] \in DOMAIN files /\ files[target[c]].of = ask[c]
           /\ files' = [files EXCEPT ![target[c]].stage = x] => files'[target[c]].stage = x
           /\ \A m, n \in DOMAIN files' :
                  files'[m].of.op = ask[c].op /\ files'[n].of.op = ask[c].op => m = n
<1> DEFINE S == [of : Asks, stage : {"empty", "bytes", "shared"}]
           t == target[c]
<1>1. /\ ExportTyped /\ t \in DOMAIN files /\ files[t].of = ask[c]
      /\ files[t].stage # "shared" /\ BegunOnce
  BY DEF ExportInv, CallFits, TargetFits, Has
<1>2. files \in Seq(S) /\ files[t] \in S
  BY <1>1, FilesFacts DEF ExportTyped
<1>3. [files[t] EXCEPT !.stage = x] \in S /\ [files[t] EXCEPT !.stage = x].of = files[t].of
      /\ [files[t] EXCEPT !.stage = x].stage = x
  BY <1>2
<1>4. ASSUME files' = [files EXCEPT ![t].stage = x]
      PROVE  /\ files' \in Seq(S) /\ DOMAIN files' = DOMAIN files
             /\ files'[t].of = files[t].of /\ files'[t].stage = x
             /\ \A n \in DOMAIN files \ {t} : files'[n] = files[n]
  <2> HIDE DEF S
  <2>1. files' = [files EXCEPT ![t] = [files[t] EXCEPT !.stage = x]]
    BY <1>1, <1>4
  <2>2. files' \in Seq(S) /\ DOMAIN files' = DOMAIN files
    <3>1. DOMAIN files = 1..Len(files)
      BY <1>2
    <3>2. files \in [1..Len(files) -> S] /\ Len(files) \in Nat
      BY <1>2
    <3>3. files' \in [1..Len(files) -> S]
      BY <1>3, <2>1, <3>2
    <3> QED BY <3>1, <3>2, <3>3
  <2>3. files'[t] = [files[t] EXCEPT !.stage = x] /\ \A n \in DOMAIN files \ {t} : files'[n] = files[n]
    BY <1>1, <2>1
  <2> QED BY <1>3, <2>2, <2>3
<1>5. CASE files' = files
  BY <1>1, <1>2, <1>5 DEF FilesGrow, BegunOnce
<1>6. CASE files' = [files EXCEPT ![t].stage = x]
  <2>1. \A n \in DOMAIN files : files'[n].of = files[n].of
    BY <1>4, <1>6
  <2>2. FilesGrow(ask[c].op, ask[c])
    BY <1>1, <1>4, <1>6, <2>1 DEF FilesGrow
  <2> QED BY <1>1, <1>4, <1>6, <2>1, <2>2 DEF BegunOnce
<1> QED BY <1>5, <1>6
LEMMA ExportInit == Init => ExportInv
<1> SUFFICES ASSUME Init PROVE ExportInv
  OBVIOUS
<1>1. ExportTyped
  BY DEF Init, ExportTyped, Statuses, ExportPlaces, Ended
<1>2. \A c \in Calls : CallFits(c)
  BY DEF Init, CallFits, ExportAsked, ExportRowFits, TargetFits, Exporting, Uploading
<1>3. DOMAIN files = {} /\ \A o : Begun(o) = {}
  BY DEF Init, Begun
<1>4. OneUploads /\ BegunOnce
  BY <1>3 DEF Init, OneUploads, BegunOnce, Uploading
<1>5. \A o \in Ops : ExportIsTrue(o)
  BY <1>3 DEF Init, ExportIsTrue
<1> QED BY <1>1, <1>2, <1>4, <1>5 DEF ExportInv

LEMMA ExportNext == ExportInv /\ [Next]_vars => ExportInv'
<1> SUFFICES ASSUME ExportInv, [Next]_vars PROVE ExportInv'
  OBVIOUS
<1>0. ExportTyped /\ \A c \in Calls : CallFits(c)
  BY DEF ExportInv
<1>1. ASSUME NEW c \in Calls, NEW a \in Asks, Request(c, a) PROVE ExportInv'
  <2>1. PICK place \in {"held", "insert", "error"} : pc' = [pc EXCEPT ![c] = place]
    BY <1>1 DEF Request
  <2>2. NeedsConfirmation(a.doc) \/ ~Accepts(a)
    BY DEF NeedsConfirmation, Accepts
  <2>3. pc'[c] \in {"held", "error"} /\ (pc'[c] = "held" => ask'[c] = a)
    <3>1. CASE NeedsConfirmation(a.doc)
      <4>1. ask' = [ask EXCEPT ![c] = a] /\ pc' = [pc EXCEPT ![c] = "held"]
        <5>1. pc' = [pc EXCEPT ![c] = "held"]
          BY <1>1, <3>1 DEF Request
        <5>2. ask' = [ask EXCEPT ![c] = a]
          BY <1>1, <3>1 DEF Request
        <5> QED BY <5>1, <5>2
      <4> QED BY <1>0, <4>1 DEF ExportTyped
    <3>2. CASE ~NeedsConfirmation(a.doc)
      <4>1. pc' = [pc EXCEPT ![c] = "error"]
        BY <1>1, <2>2, <3>2 DEF Request
      <4> QED BY <1>0, <4>1 DEF ExportTyped
    <3> QED BY <3>1, <3>2
  <2>4. OnlyMoves(c) /\ pc' \in [Calls -> ExportPlaces] /\ DOMAIN ask' = Calls
        /\ UNCHANGED <<rows, files, consents, target, verdict>>
    <3>1. UNCHANGED <<rows, files, consents, target, verdict>>
      BY <1>1 DEF Request
    <3>2. DOMAIN ask' = Calls /\ \A d \in Calls \ {c} : ask'[d] = ask[d]
      BY <1>0, <1>1 DEF Request, ExportTyped
    <3>3. pc' \in [Calls -> ExportPlaces] /\ \A d \in Calls \ {c} : pc'[d] = pc[d]
      BY <1>0, <2>1 DEF ExportTyped, ExportPlaces, Ended
    <3> QED BY <3>1, <3>2, <3>3 DEF OnlyMoves
  <2>5. ExportTyped'
    BY <1>0, <2>4 DEF ExportTyped, rows
  <2>6. CallFits(c)'
    BY <2>3 DEF CallFits, ExportAsked, ExportRowFits, TargetFits, Exporting, Uploading
  <2>7. pc'[c] \notin Uploading
    BY <2>3 DEF Uploading
  <2> QED BY <2>4, <2>5, <2>6, <2>7, ExportQuietStep
<1>2. ASSUME NEW c \in Calls, Approve(c) PROVE ExportInv'
  <2>1. ask[c] \in Asks /\ consents' = consents \cup {ask[c]}
    BY <1>0, <1>2 DEF Approve, CallFits, ExportAsked
  <2>2. PICK place \in {"insert", "error"} : pc' = [pc EXCEPT ![c] = place]
    BY <1>2 DEF Approve, Goto
  <2>3. UNCHANGED <<rows, files, ask, target, verdict>>
    BY <1>2 DEF Approve, Goto
  <2>4. pc'[c] = place /\ pc' \in [Calls -> ExportPlaces] /\ \A d \in Calls \ {c} : pc'[d] = pc[d]
    BY <1>0, <2>2 DEF ExportTyped, ExportPlaces, Ended
  <2>5. ExportTyped' /\ OnlyMoves(c)
    BY <1>0, <2>1, <2>3, <2>4 DEF ExportTyped, OnlyMoves, rows
  <2>6. CallFits(c)'
    <3>1. ExportAsked(c)'
      BY <2>1, <2>3 DEF ExportAsked
    <3> QED BY <2>4, <3>1 DEF CallFits, ExportRowFits, TargetFits, Uploading
  <2>7. pc'[c] \notin Uploading
    BY <2>4 DEF Uploading
  <2> QED BY <2>1, <2>3, <2>5, <2>6, <2>7, ExportQuietStep
<1>3. ASSUME NEW c \in Calls, CreateGeneratedFileOperation(c) PROVE ExportInv'
  <2>1. CASE status[ask[c].op] # "none" /\ Goto(c, "exists") /\ UNCHANGED <<rows, files, consents>>
    <3>1. pc' = [pc EXCEPT ![c] = "exists"] /\ UNCHANGED <<ask, target, verdict>>
      BY <2>1 DEF Goto
    <3>2. pc'[c] = "exists" /\ pc' \in [Calls -> ExportPlaces]
          /\ \A d \in Calls \ {c} : pc'[d] = pc[d]
      BY <1>0, <3>1 DEF ExportTyped, ExportPlaces
    <3>3. ask[c] \in Asks /\ ask[c] \in consents
      BY <1>0, <1>3 DEF CreateGeneratedFileOperation, CallFits, ExportAsked, Exporting
    <3>4. ExportTyped' /\ OnlyMoves(c)
      BY <1>0, <2>1, <3>1, <3>2 DEF ExportTyped, OnlyMoves, rows
    <3>5. CallFits(c)'
      BY <2>1, <3>1, <3>2, <3>3 DEF CallFits, ExportAsked, ExportRowFits, TargetFits, Uploading, rows
    <3> QED BY <2>1, <3>2, <3>4, <3>5, ExportQuietStep DEF Uploading
  <2> QED
    BY <1>3, <2>1, ExportFails, ExportInsertStep DEF CreateGeneratedFileOperation, RowOf
<1>4. ASSUME NEW c \in Calls, ExistingOperation(c) PROVE ExportInv'
  <2> DEFINE o == ask[c].op
             n == fileID[o]
  <2>1. CASE Matches(c) /\ status[o] = "completed" /\ n # 0
             /\ Holds(c, n, "answered") /\ UNCHANGED <<rows, files, consents>>
    <3>1. ask[c] \in Asks /\ ask[c] \in consents /\ o \in Ops
      BY <1>0, <1>4 DEF ExistingOperation, CallFits, ExportAsked, Exporting, Asks
    <3>2. n \in DOMAIN files /\ files[n].of.op = o /\ files[n].stage = "shared"
      BY <2>1, <3>1 DEF ExportInv, ExportIsTrue, Begun
    <3>3. files[n].of \in Asks /\ RowOf(files[n].of) = RowOf(ask[c])
      BY <1>0, <2>1, <3>2, FilesFacts DEF Matches, ExportInv, BegunOnce, RowOf
    <3>4. files[n].of = ask[c]
      BY <3>1, <3>2, <3>3 DEF Asks, RowOf
    <3>5. /\ target' = [target EXCEPT ![c] = n] /\ pc' = [pc EXCEPT ![c] = "answered"]
          /\ UNCHANGED <<ask, verdict>>
      BY <2>1 DEF Holds
    <3>6. pc'[c] = "answered" /\ pc' \in [Calls -> ExportPlaces]
          /\ \A d \in Calls \ {c} : pc'[d] = pc[d]
      BY <1>0, <3>5 DEF ExportTyped, ExportPlaces, Ended
    <3>7. target'[c] = n /\ target' \in [Calls -> Nat]
          /\ \A d \in Calls \ {c} : target'[d] = target[d]
      BY <1>0, <3>1, <3>5 DEF ExportTyped
    <3>8. ExportTyped' /\ OnlyMoves(c)
      BY <1>0, <2>1, <3>5, <3>6, <3>7 DEF ExportTyped, OnlyMoves, rows
    <3>9. CallFits(c)'
      <4>1. ExportAsked(c)'
        BY <2>1, <3>1, <3>5 DEF ExportAsked
      <4>2. ExportRowFits(c)'
        BY <3>6 DEF ExportRowFits, Uploading
      <4>3. TargetFits(c)'
        BY <2>1, <3>2, <3>4, <3>5, <3>6, <3>7 DEF TargetFits, Has
      <4> QED BY <4>1, <4>2, <4>3 DEF CallFits
    <3> QED BY <2>1, <3>6, <3>8, <3>9, ExportQuietStep DEF Uploading
  <2> QED BY <1>4, <2>1, ExportFails DEF ExistingOperation, Fails
<1>5. ASSUME NEW c \in Calls, RequestUploadURL(c) PROVE ExportInv'
  <2> DEFINE f == [of |-> ask[c], stage |-> "empty"]
  <2>1. pc[c] = "url" /\ pc[c] \in Uploading /\ UNCHANGED <<rows, consents>>
    BY <1>5 DEF RequestUploadURL, Uploading
  <2> DEFINE Ends(place, t, v) ==
        /\ pc' = [pc EXCEPT ![c] = place] /\ ask' = ask
        /\ target' = [target EXCEPT ![c] = t] /\ verdict' = [verdict EXCEPT ![c] = v]
        /\ \/ /\ files' = Append(files, f) /\ t = Len(Append(files, f))
              /\ place = "mark url" /\ v = verdict[c]
           \/ /\ files' = Append(files, f) /\ t \in {0, Len(Append(files, f))}
              /\ place = "settle" /\ v = "unknown"
           \/ files' = files /\ t = 0 /\ place = "settle" /\ v \in {"failed", "unknown"}
  <2>0. PICK place \in {"mark url", "settle"} : \E t, v : Ends(place, t, v)
    <3>1. CASE files' = Append(files, f) /\ Holds(c, Len(Append(files, f)), "mark url")
      <4>1. verdict' = [verdict EXCEPT ![c] = verdict[c]]
        BY <1>0, <3>1 DEF Holds, ExportTyped
      <4> QED BY <3>1, <4>1 DEF Holds
    <3>2. CASE files' = Append(files, f)
               /\ \E file \in {0, Len(Append(files, f))} : Decide(c, "unknown", file)
      BY <3>2 DEF Decide
    <3>3. CASE \E error \in Errors(c) : files' = files /\ Decide(c, FailedStatus(error), 0)
      BY <3>3 DEF Decide, FailedStatus
    <3> QED BY <1>5, <3>1, <3>2, <3>3 DEF RequestUploadURL
  <2>2. PICK t, v : Ends(place, t, v)
    BY <2>0
  <2>3. CASE files' = Append(files, f)
    <3>0. PICK l : l = Len(files')
      OBVIOUS
    <3>1. /\ FilesGrow(ask[c].op, ask[c])
          /\ files' \in Seq([of : Asks, stage : {"empty", "bytes", "shared"}])
          /\ \A m, n \in DOMAIN files' :
                 files'[m].of.op = ask[c].op /\ files'[n].of.op = ask[c].op => m = n
      BY <2>1, <2>3, TargetStep
    <3>2. l \in Nat \ {0} /\ l \in DOMAIN files' /\ files'[l] = f
      BY <2>1, <2>3, <3>0, TargetStep
    <3>3. files'[l].of = ask[c] /\ files'[l].stage = "empty"
      <4>1. f.of = ask[c] /\ f.stage = "empty"
        OBVIOUS
      <4> HIDE DEF f
      <4> QED BY <3>2, <4>1
    <3>4. (t = 0 \/ t = l) /\ (place = "mark url" => t = l)
      BY <2>0, <2>2, <2>3, <3>0
    <3>5. v \in {"none", "failed", "unknown"} /\ (place = "settle" => v # "none")
      <4>1. verdict[c] \in {"none", "failed", "unknown"}
        BY <1>0 DEF ExportTyped
      <4> QED BY <2>0, <2>2, <4>1
    <3> HIDE DEF f
    <3>6. t \in Nat
      <4>1. CASE t = 0
        BY <4>1
      <4>2. CASE t = l
        BY <3>2, <4>2
      <4> QED BY <3>4, <4>1, <4>2
    <3>7. /\ target'[c] = t /\ target' \in [Calls -> Nat]
          /\ verdict'[c] = v /\ verdict' \in [Calls -> {"none", "failed", "unknown"}]
          /\ OnlyMoves(c)
      BY <1>0, <2>2, <3>5, <3>6 DEF ExportTyped, OnlyMoves
    <3>8. target'[c] # 0 => Has(c)' /\ files'[target'[c]].stage = "empty"
      BY <2>2, <3>2, <3>3, <3>4, <3>7 DEF Has
    <3>9. place = "mark url" => target'[c] # 0
      BY <3>2, <3>4, <3>7
    <3> QED BY <2>0, <2>1, <2>2, <3>1, <3>5, <3>7, <3>8, <3>9, UploadStep
  <2>4. CASE files' = files /\ t = 0 /\ place = "settle" /\ v \in {"failed", "unknown"}
    <3>2. /\ target'[c] = 0 /\ target' \in [Calls -> Nat]
          /\ verdict'[c] = v /\ verdict' \in [Calls -> {"none", "failed", "unknown"}]
          /\ OnlyMoves(c)
      BY <1>0, <2>2, <2>4 DEF ExportTyped, OnlyMoves
    <3>3. FilesGrow(ask[c].op, ask[c])
      BY <2>4 DEF FilesGrow
    <3>4. \A m, n \in DOMAIN files' :
              files'[m].of.op = ask[c].op /\ files'[n].of.op = ask[c].op => m = n
      BY <2>4 DEF ExportInv, BegunOnce
    <3>5. files' \in Seq([of : Asks, stage : {"empty", "bytes", "shared"}])
      BY <1>0, <2>4 DEF ExportTyped
    <3> QED BY <2>0, <2>1, <2>2, <2>4, <3>2, <3>3, <3>4, <3>5, UploadStep
  <2> QED BY <2>0, <2>2, <2>3, <2>4
<1>6. ASSUME NEW c \in Calls, MarkURLRequested(c) PROVE ExportInv'
  BY <1>6, PersistStep DEF MarkURLRequested
<1>7. ASSUME NEW c \in Calls, NEW from, NEW x \in {"bytes", "shared"}, NEW after,
             \/ from = "upload" /\ x = "bytes" /\ after = "mark bytes"
             \/ from = "complete" /\ x = "shared" /\ after = "mark completed",
             pc[c] = from, UNCHANGED <<rows, consents>>,
             LET moved == [files EXCEPT ![target[c]].stage = x] IN
             \/ files' = moved /\ Goto(c, after)
             \/ \E error \in Errors(c) :
                    /\ files' = files \/ files' = moved
                    /\ Decide(c, FailedStatus(error), target[c])
      PROVE  ExportInv'
  <2> DEFINE moved == [files EXCEPT ![target[c]].stage = x]
  <2>1. pc[c] \in {"upload", "complete"} /\ pc[c] \in Uploading
    BY <1>7 DEF Uploading
  <2> DEFINE Ends(place, v) ==
        /\ pc' = [pc EXCEPT ![c] = place] /\ ask' = ask
        /\ target' = [target EXCEPT ![c] = target[c]] /\ verdict' = [verdict EXCEPT ![c] = v]
        /\ \/ files' = moved /\ place = after /\ v = verdict[c]
           \/ files' \in {files, moved} /\ place = "settle" /\ v \in {"failed", "unknown"}
  <2>0. PICK place \in {after, "settle"} : \E v : Ends(place, v)
    <3>1. CASE files' = moved /\ Goto(c, after)
      <4>1. verdict' = [verdict EXCEPT ![c] = verdict[c]] /\ target' = [target EXCEPT ![c] = target[c]]
        BY <1>0, <3>1 DEF Goto, ExportTyped
      <4> QED BY <3>1, <4>1 DEF Goto
    <3>2. CASE \E error \in Errors(c) :
                   files' \in {files, moved} /\ Decide(c, FailedStatus(error), target[c])
      BY <3>2 DEF Decide, FailedStatus
    <3> QED BY <1>7, <3>1, <3>2
  <2>2. PICK v : Ends(place, v)
    BY <2>0
  <2>3. /\ FilesGrow(ask[c].op, ask[c])
        /\ files' \in Seq([of : Asks, stage : {"empty", "bytes", "shared"}])
        /\ DOMAIN files' = DOMAIN files /\ \A n \in DOMAIN files : files'[n].of = files[n].of
        /\ target[c] \in DOMAIN files /\ files[target[c]].of = ask[c]
        /\ files' = moved => files'[target[c]].stage = x
        /\ \A m, n \in DOMAIN files' :
               files'[m].of.op = ask[c].op /\ files'[n].of.op = ask[c].op => m = n
    <3>1. files' \in {files, moved}
      BY <2>2
    <3> HIDE DEF Ends
    <3> QED BY <2>1, <3>1, StageStep
  <2>4. v \in {"none", "failed", "unknown"} /\ (place = "settle" => v # "none")
    BY <1>0, <1>7, <2>2 DEF ExportTyped
  <2>5. /\ target'[c] = target[c] /\ target' \in [Calls -> Nat]
        /\ verdict'[c] = v /\ verdict' \in [Calls -> {"none", "failed", "unknown"}]
        /\ OnlyMoves(c)
    BY <1>0, <2>2, <2>4 DEF ExportTyped, OnlyMoves
  <2>6. Has(c)'
    BY <2>2, <2>3, <2>5 DEF Has
  <2>7. place # "settle" => place = after /\ files'[target'[c]].stage = x
    BY <2>2, <2>3, <2>5
  <2> QED BY <1>7, <2>1, <2>2, <2>3, <2>4, <2>5, <2>6, <2>7, UploadStep
<1>8. ASSUME NEW c \in Calls, UploadBytes(c) PROVE ExportInv'
  BY <1>7, <1>8 DEF UploadBytes
<1>9. ASSUME NEW c \in Calls, MarkBytesUploaded(c) PROVE ExportInv'
  BY <1>9, PersistStep DEF MarkBytesUploaded
<1>10. ASSUME NEW c \in Calls, CompleteUpload(c) PROVE ExportInv'
  BY <1>7, <1>10 DEF CompleteUpload
<1>11. ASSUME NEW c \in Calls, MarkCompleted(c) PROVE ExportInv'
  BY <1>11, PersistStep DEF MarkCompleted
<1>12. ASSUME NEW c \in Calls, RecordFailure(c) PROVE ExportInv'
  BY <1>12, PersistStep DEF RecordFailure
<1>13. ASSUME (\E c \in Calls : Cancel(c)) \/ UNCHANGED vars PROVE ExportInv'
  <2>1. UNCHANGED <<status, owner, fileID, files, consents, pc, ask, target, verdict>>
    BY <1>13 DEF Cancel, vars, rows, process
  <2>2. ExportTyped' /\ OneUploads' /\ BegunOnce'
    BY <2>1 DEF ExportInv, ExportTyped, OneUploads, BegunOnce, RowOf
  <2>3. ASSUME NEW d \in Calls PROVE CallFits(d)'
    BY <1>0, <2>1 DEF CallFits, ExportAsked, Exporting, ExportRowFits, RowOf, TargetFits, Begun, Has
  <2>4. \A o \in Ops : ExportIsTrue(o)'
    BY <2>1 DEF ExportInv, ExportIsTrue, Begun
  <2> QED BY <2>2, <2>3, <2>4 DEF ExportInv
<1>14. CASE Crash
  <2>1. UNCHANGED <<status, owner, fileID, files, consents, ask, target, verdict>>
    BY <1>14 DEF Crash, rows
  <2>2. \A c \in Calls : pc'[c] = pc[c] \/ pc'[c] = "gone"
    BY <1>14 DEF Crash
  <2>3. pc' \in [Calls -> ExportPlaces]
    BY <1>0, <1>14 DEF Crash, ExportTyped, ExportPlaces, Ended
  <2>4. ExportTyped' /\ OneUploads' /\ BegunOnce'
    BY <2>1, <2>2, <2>3 DEF ExportInv, ExportTyped, OneUploads, Uploading, BegunOnce, RowOf
  <2>5. ASSUME NEW d \in Calls PROVE CallFits(d)'
    <3>1. CASE pc'[d] = "gone"
      BY <3>1 DEF CallFits, ExportAsked, Exporting, ExportRowFits, TargetFits, Uploading
    <3>2. CASE pc'[d] = pc[d]
      BY <1>0, <2>1, <3>2 DEF CallFits, ExportAsked, Exporting, ExportRowFits, RowOf, TargetFits,
                              Begun, Has
    <3> QED BY <2>2, <3>1, <3>2
  <2>6. \A o \in Ops : ExportIsTrue(o)'
    BY <2>1 DEF ExportInv, ExportIsTrue, Begun
  <2> QED BY <2>4, <2>5, <2>6 DEF ExportInv
<1> QED
  BY <1>1, <1>2, <1>3, <1>4, <1>5, <1>6, <1>8, <1>9, <1>10, <1>11, <1>12, <1>13, <1>14
     DEF Next, Call
-----------------------------------------------------------------------------
(* An export implements ConfirmedEffect                                      *)

ExportConsented == {a.op : a \in consents}
SharedCount == [o \in Ops |-> Cardinality(Shared(o))]
ExportVerdicts == [o \in Ops |-> Says(o)]

\* An operation has one shared file at most.
LEMMA SharedAtMostOnce ==
    ASSUME ExportInv, NEW o \in Ops
    PROVE  /\ Shared(o) = {} => SharedCount[o] = 0
           /\ Shared(o) # {} => SharedCount[o] = 1
<1>1. CASE Shared(o) = {}
  BY <1>1, FS_EmptySet DEF SharedCount
<1>2. CASE Shared(o) # {}
  <2>1. PICK n : n \in Shared(o)
    BY <1>2
  <2>2. Shared(o) = {n}
    BY <2>1 DEF Shared, ExportInv, BegunOnce
  <2>3. Cardinality({n}) = 1
    BY FS_Singleton
  <2> QED BY <1>2, <2>2, <2>3 DEF SharedCount
<1> QED BY <1>1, <1>2

\* What a step does to one operation is all it does.
LEMMA OneExportMoves ==
    ASSUME NEW o \in Ops,
           \A q \in Ops \ {o} : status'[q] = status[q] /\ Shared(q)' = Shared(q)
    PROVE  /\ SharedCount' = [SharedCount EXCEPT ![o] = SharedCount'[o]]
           /\ ExportVerdicts' = [ExportVerdicts EXCEPT ![o] = ExportVerdicts'[o]]
<1>1. \A q \in Ops \ {o} : SharedCount'[q] = SharedCount[q]
  BY DEF SharedCount
<1>2. \A q \in Ops \ {o} : ExportVerdicts'[q] = ExportVerdicts[q]
  BY DEF ExportVerdicts, Says
<1>3. DOMAIN SharedCount = Ops /\ DOMAIN SharedCount' = Ops
      /\ DOMAIN ExportVerdicts = Ops /\ DOMAIN ExportVerdicts' = Ops
  BY DEF SharedCount, ExportVerdicts
<1>4. SharedCount' = [SharedCount EXCEPT ![o] = SharedCount'[o]]
  BY <1>1, <1>3 DEF SharedCount
<1>5. ExportVerdicts' = [ExportVerdicts EXCEPT ![o] = ExportVerdicts'[o]]
  BY <1>2, <1>3 DEF ExportVerdicts
<1> QED BY <1>4, <1>5

ExportMaps == Effect!Next \/ UNCHANGED <<ExportConsented, SharedCount, ExportVerdicts>>

\* A step that writes no status, shares nothing and brings no consent.
LEMMA ExportStutters ==
    ASSUME ExportConsented' = ExportConsented, \A q \in Ops : Says(q)' = Says(q) /\ Shared(q)' = Shared(q)
    PROVE  ExportMaps
BY DEF ExportMaps, SharedCount, ExportVerdicts

\* A verdict is written, once.
LEMMA ExportSettles ==
    ASSUME NEW o \in Ops, ExportConsented' = ExportConsented,
           \A q \in Ops : Shared(q)' = Shared(q), \A q \in Ops \ {o} : status'[q] = status[q],
           ExportVerdicts[o] = "open", ExportVerdicts'[o] \in {"done", "undone", "unclear"},
           ExportVerdicts'[o] = "done" => SharedCount[o] = 1,
           ExportVerdicts'[o] = "undone" => SharedCount[o] = 0
    PROVE  ExportMaps
<1>1. SharedCount' = SharedCount /\ ExportVerdicts' = [ExportVerdicts EXCEPT ![o] = ExportVerdicts'[o]]
  BY OneExportMoves DEF SharedCount
<1>2. \E v \in {"done", "undone", "unclear"} :
        /\ v = "done" => SharedCount[o] = 1
        /\ v = "undone" => SharedCount[o] = 0
        /\ ExportVerdicts' = [ExportVerdicts EXCEPT ![o] = v]
  BY <1>1
<1>3. Effect!Settle(o)
  BY <1>1, <1>2 DEF Effect!Settle, ExportVerdicts, SharedCount, ExportConsented
<1> QED BY <1>3 DEF Effect!Next, ExportMaps

\* Every step of an export is a step of ConfirmedEffect, or none.
LEMMA ExportStepMaps ==
    ASSUME ExportInv, ExportInv', [Next]_vars
    PROVE  ExportMaps
<1>0. ExportTyped /\ \A c \in Calls : CallFits(c)
  BY DEF ExportInv
<1>1. ASSUME UNCHANGED <<status, files, consents>> PROVE ExportMaps
  BY <1>1, ExportStutters DEF ExportConsented, Says, Shared
<1>2. ASSUME NEW c \in Calls, Approve(c) PROVE ExportMaps
  <2>0. PICK o \in Ops : o = ask[c].op
    BY <1>0, <1>2 DEF Approve, CallFits, ExportAsked, Asks
  <2>1. consents' = consents \cup {ask[c]} /\ UNCHANGED <<status, files>>
    BY <1>2 DEF Approve, rows
  <2>2. ExportConsented' = ExportConsented \cup {o} /\ SharedCount' = SharedCount /\ ExportVerdicts' = ExportVerdicts
    BY <2>0, <2>1 DEF ExportConsented, SharedCount, Shared, ExportVerdicts, Says
  <2>3. Effect!Consent(o)
    BY <2>2 DEF Effect!Consent, ExportConsented, SharedCount, ExportVerdicts
  <2> QED BY <2>3 DEF Effect!Next, ExportMaps
<1>3. ASSUME NEW c \in Calls, CreateGeneratedFileOperation(c), ~UNCHANGED status PROVE ExportMaps
  <2>1. PICK o \in Ops : /\ o \in ExportConsented /\ status[o] = "none"
                        /\ status' = [status EXCEPT ![o] = "pending_confirmation"]
                        /\ UNCHANGED <<files, consents>>
    <3>1. ask[c].op \in Ops /\ ask[c].op \in ExportConsented
      BY <1>0, <1>3 DEF CreateGeneratedFileOperation, CallFits, ExportAsked, Exporting, Asks, ExportConsented
    <3> QED BY <1>3, <3>1 DEF CreateGeneratedFileOperation, Fails, rows
  <2>2. /\ ExportConsented' = ExportConsented /\ \A q : Shared(q)' = Shared(q)
        /\ status'[o] = "pending_confirmation" /\ \A q \in Ops \ {o} : status'[q] = status[q]
    BY <1>0, <2>1 DEF ExportConsented, Shared, ExportTyped
  <2>3. ExportVerdicts[o] = "none" /\ ExportVerdicts'[o] = "open"
    BY <2>1, <2>2 DEF ExportVerdicts, Says
  <2>4. SharedCount' = SharedCount /\ ExportVerdicts' = [ExportVerdicts EXCEPT ![o] = "open"]
    BY <2>2, <2>3, OneExportMoves DEF SharedCount
  <2>5. Effect!Claim(o)
    BY <2>1, <2>2, <2>3, <2>4 DEF Effect!Claim, ExportConsented, SharedCount, ExportVerdicts
  <2> QED BY <2>5 DEF Effect!Next, ExportMaps
<1>4. ASSUME NEW c \in Calls, RequestUploadURL(c) PROVE ExportMaps
  <2>1. UNCHANGED <<status, consents>> /\ pc[c] = "url"
        /\ (files' = files \/ files' = Append(files, [of |-> ask[c], stage |-> "empty"]))
    BY <1>4 DEF RequestUploadURL, rows
  <2>2. CASE files' = Append(files, [of |-> ask[c], stage |-> "empty"])
    <3>1. DOMAIN files \subseteq DOMAIN files' /\ \A n \in DOMAIN files : files'[n] = files[n]
      <4>1. /\ FilesGrow(ask[c].op, ask[c]) /\ Begun(ask[c].op) = {}
        BY <1>0, <2>1, <2>2, TargetStep DEF CallFits, TargetFits
      <4> QED BY <4>1 DEF FilesGrow, Begun
    <3>2. \A n \in DOMAIN files' \ DOMAIN files : files'[n].stage = "empty"
      <4> DEFINE S == [of : Asks, stage : {"empty", "bytes", "shared"}]
      <4>1. files \in Seq(S) /\ [of |-> ask[c], stage |-> "empty"] \in S
        BY <1>0, <2>1 DEF ExportTyped, CallFits, ExportAsked, Exporting, Uploading
      <4> HIDE DEF S
      <4>2. \A f \in S : f = [of |-> ask[c], stage |-> "empty"] /\ files' = Append(files, f) =>
                \A n \in DOMAIN files' \ DOMAIN files : files'[n] = f
        BY <4>1
      <4> QED BY <2>2, <4>1, <4>2
    <3>3. \A q : Shared(q)' = Shared(q)
      BY <3>1, <3>2 DEF Shared
    <3> QED BY <2>1, <3>3, ExportStutters DEF ExportConsented, Says
  <2> QED BY <1>1, <2>1, <2>2
<1>5. ASSUME NEW c \in Calls, NEW s, NEW next, PersistStatus(c, s, next), pc[c] \in Uploading,
             \/ pc[c] = "mark url" /\ s = "url_requested"
             \/ pc[c] = "mark bytes" /\ s = "bytes_uploaded"
             \/ pc[c] = "mark completed" /\ s = "completed"
             \/ pc[c] = "settle" /\ s = verdict[c]
      PROVE  ExportMaps
  <2>1. CASE Fails(c)
    BY <1>1, <2>1 DEF Fails, rows
  <2>2. CASE status' = [status EXCEPT ![ask[c].op] = s] /\ UNCHANGED <<files, consents>>
    <3>1. PICK o \in Ops : o = ask[c].op
      BY <1>5, UploadingFacts
    <3>2. /\ ExportConsented' = ExportConsented /\ \A q : Shared(q)' = Shared(q)
          /\ status'[o] = s /\ \A q \in Ops \ {o} : status'[q] = status[q]
      BY <1>0, <2>2, <3>1 DEF ExportConsented, Shared, ExportTyped
    <3>3. status[o] \in {"pending_confirmation", "url_requested", "bytes_uploaded"}
      BY <1>0, <1>5, <3>1 DEF CallFits, ExportRowFits
    <3>4. Says(o) = "open" /\ ExportVerdicts[o] = "open"
      BY <3>3 DEF ExportVerdicts, Says
    <3>5. CASE s \in {"url_requested", "bytes_uploaded"}
      <4>1. Says(o)' = "open"
        BY <3>2, <3>5 DEF Says
      <4>2. \A q \in Ops \ {o} : Says(q)' = Says(q)
        BY <3>2 DEF Says
      <4> QED BY <3>2, <3>4, <4>1, <4>2, ExportStutters
    <3>6. CASE s = "completed"
      <4>1. pc[c] = "mark completed"
        BY <1>0, <1>5, <3>6 DEF CallFits, TargetFits, ExportTyped
      <4>2. target[c] \in Shared(o)
        BY <1>0, <3>1, <4>1 DEF CallFits, TargetFits, Has, Shared
      <4>3. SharedCount[o] = 1
        BY <4>2, SharedAtMostOnce
      <4>4. ExportVerdicts'[o] = "done"
        BY <3>2, <3>6 DEF ExportVerdicts, Says
      <4> QED BY <3>2, <3>4, <4>3, <4>4, ExportSettles
    <3>7. CASE s \in {"failed", "unknown"}
      <4>1. (ExportVerdicts'[o] = "undone" /\ Shared(o) = {}) \/ ExportVerdicts'[o] = "unclear"
        BY <3>2, <3>7 DEF ExportVerdicts, Says
      <4> QED BY <3>2, <3>4, <4>1, SharedAtMostOnce, ExportSettles
    <3>8. pc[c] = "settle" => verdict[c] \in {"failed", "unknown"}
      BY <1>0 DEF CallFits, TargetFits, ExportTyped
    <3> QED BY <1>5, <3>5, <3>6, <3>7, <3>8
  <2> QED BY <1>5, <2>1, <2>2 DEF PersistStatus
<1>6. ASSUME NEW c \in Calls, UploadBytes(c) PROVE ExportMaps
  <2>1. /\ UNCHANGED <<status, consents>> /\ pc[c] = "upload"
        /\ files' = files \/ files' = [files EXCEPT ![target[c]].stage = "bytes"]
    BY <1>6 DEF UploadBytes, rows
  <2>2. CASE files' = [files EXCEPT ![target[c]].stage = "bytes"]
    <3>1. /\ FilesGrow(ask[c].op, ask[c]) /\ DOMAIN files' = DOMAIN files
          /\ \A n \in DOMAIN files : files'[n].of = files[n].of
          /\ files'[target[c]].stage = "bytes"
      BY <2>1, <2>2, StageStep
    <3>2. \A n \in DOMAIN files \ {target[c]} : files'[n] = files[n]
      BY <2>2
    <3>3. files[target[c]].stage # "shared"
      BY <1>0, <2>1 DEF CallFits, TargetFits
    <3>4. \A q : Shared(q)' = Shared(q)
      BY <3>1, <3>2, <3>3 DEF Shared
    <3> QED BY <2>1, <3>4, ExportStutters DEF ExportConsented, Says
  <2> QED BY <1>1, <2>1, <2>2
<1>7. ASSUME NEW c \in Calls, CompleteUpload(c) PROVE ExportMaps
  <2>1. /\ UNCHANGED <<status, consents>> /\ pc[c] = "complete" /\ pc[c] \in Uploading
        /\ files' = files \/ files' = [files EXCEPT ![target[c]].stage = "shared"]
    BY <1>7 DEF CompleteUpload, rows, Uploading
  <2>2. CASE files' = [files EXCEPT ![target[c]].stage = "shared"]
    <3>1. PICK o \in Ops : o = ask[c].op
      BY <2>1, UploadingFacts
    <3>2. /\ DOMAIN files' = DOMAIN files /\ \A n \in DOMAIN files : files'[n].of = files[n].of
          /\ files'[target[c]].stage = "shared"
          /\ target[c] \in DOMAIN files /\ files[target[c]].of.op = o
      BY <2>1, <2>2, <3>1, StageStep
    <3>3. \A n \in DOMAIN files \ {target[c]} : files'[n] = files[n]
      BY <2>2
    <3>4. files[target[c]].stage # "shared" /\ status[o] = "bytes_uploaded"
      BY <1>0, <2>1, <3>1 DEF CallFits, TargetFits, ExportRowFits
    <3>5. \A q \in Ops \ {o} : Shared(q)' = Shared(q)
      BY <3>2, <3>3 DEF Shared
    <3>6. Shared(o) = {} /\ target[c] \in Shared(o)'
      BY <3>2, <3>4 DEF Shared, ExportInv, BegunOnce
    <3>7. SharedCount[o] = 0 /\ SharedCount'[o] = 1
      <4>1. SharedCount[o] = 0
        BY <3>6, SharedAtMostOnce
      <4>2. \A n \in Shared(o)' : n = target[c]
        BY <3>2 DEF Shared, ExportInv, BegunOnce
      <4>3. Shared(o)' = {target[c]}
        BY <3>6, <4>2
      <4>4. Cardinality({target[c]}) = 1
        BY FS_Singleton
      <4> QED BY <4>1, <4>3, <4>4 DEF SharedCount
    <3>8. ExportVerdicts[o] = "open" /\ ExportVerdicts'[o] = "open"
      BY <2>1, <3>4 DEF ExportVerdicts, Says
    <3>9. /\ ExportConsented' = ExportConsented
          /\ SharedCount' = [SharedCount EXCEPT ![o] = 1]
          /\ ExportVerdicts' = [ExportVerdicts EXCEPT ![o] = "open"]
      BY <2>1, <3>5, <3>7, <3>8, OneExportMoves DEF ExportConsented
    <3>10. ExportVerdicts' = ExportVerdicts
      BY <3>8, <3>9 DEF ExportVerdicts
    <3>11. Effect!Act(o)
      BY <3>7, <3>8, <3>9, <3>10 DEF Effect!Act, ExportConsented, SharedCount, ExportVerdicts
    <3> QED BY <3>11 DEF Effect!Next, ExportMaps
  <2> QED BY <1>1, <2>1, <2>2
<1>8. ASSUME NEW c \in Calls, Call(c) PROVE ExportMaps
  <2>1. CASE CreateGeneratedFileOperation(c)
    BY <1>1, <1>3, <2>1 DEF CreateGeneratedFileOperation, Fails, rows
  <2>2. CASE ExistingOperation(c) \/ Cancel(c)
    BY <1>1, <2>2 DEF ExistingOperation, Fails, Cancel, rows
  <2>3. CASE MarkURLRequested(c) \/ MarkBytesUploaded(c) \/ MarkCompleted(c) \/ RecordFailure(c)
    BY <1>5, <2>3 DEF MarkURLRequested, MarkBytesUploaded, MarkCompleted, RecordFailure, Uploading
  <2> QED BY <1>4, <1>6, <1>7, <1>8, <2>1, <2>2, <2>3 DEF Call
<1>9. CASE (\E c \in Calls, a \in Asks : Request(c, a)) \/ Crash \/ UNCHANGED vars
  BY <1>1, <1>9 DEF Request, Crash, vars, rows
<1> QED BY <1>2, <1>8, <1>9 DEF Next

\* However a confirmed export is repeated, interrupted or cut off, it is what
\* ConfirmedEffect promises: shown once at most, with consent, and what its row
\* says in the end is so.
THEOREM ExportsAreConfirmedEffects == Spec => ImplementsEffect
<1>1. Init => Effect!Init
  <2> SUFFICES ASSUME Init PROVE Effect!Init
    OBVIOUS
  <2>1. ExportConsented = {} /\ \A o \in Ops : Shared(o) = {} /\ Says(o) = "none"
    BY DEF Init, ExportConsented, Shared, Says
  <2>2. SharedCount = [o \in Ops |-> 0] /\ ExportVerdicts = [o \in Ops |-> "none"]
    BY <2>1, FS_EmptySet DEF SharedCount, ExportVerdicts
  <2> QED BY <2>1, <2>2 DEF Effect!Init, ExportConsented, SharedCount, ExportVerdicts
<1>2. ExportInv /\ ExportInv' /\ [Next]_vars =>
          [Effect!Next]_<<ExportConsented, SharedCount, ExportVerdicts>>
  BY ExportStepMaps DEF ExportMaps
<1> QED
  BY <1>1, <1>2, ExportInit, ExportNext, PTL
     DEF Spec, ImplementsEffect, Effect!Spec, ExportConsented, SharedCount, ExportVerdicts

THEOREM ExportAnswersAreOwn == Spec => []AnswerIsOwn
<1>1. ExportInv => AnswerIsOwn
  <2> SUFFICES ASSUME ExportInv, NEW c \in Calls, pc[c] = "answered"
               PROVE  /\ target[c] # 0 /\ ask[c] \in consents
                      /\ files[target[c]] = [of |-> ask[c], stage |-> "shared"]
    BY DEF AnswerIsOwn
  <2>1. CallFits(c) /\ ExportTyped
    BY DEF ExportInv
  <2>2. target[c] \in DOMAIN files /\ files[target[c]].of = ask[c]
        /\ files[target[c]].stage = "shared" /\ ask[c] \in consents
    BY <2>1 DEF CallFits, TargetFits, Has, ExportAsked, Exporting
  <2>3. target[c] # 0 /\ files[target[c]] \in [of : Asks, stage : {"empty", "bytes", "shared"}]
    BY <2>1, <2>2, FilesFacts
  <2> QED BY <2>2, <2>3
<1> QED BY <1>1, ExportInit, ExportNext, PTL DEF Spec


-----------------------------------------------------------------------------
(* The types                                                                 *)

Targets == \A c \in Calls : target[c] \in 0..Len(files)

\* A call to Slack makes a file or changes one, and takes none away.
LEMMA FilesStay ==
    ASSUME ExportInv, [Next]_vars
    PROVE  Len(files') \in Nat /\ Len(files) \in Nat /\ Len(files) =< Len(files')
<1> DEFINE S == [of : Asks, stage : {"empty", "bytes", "shared"}]
<1>1. files \in Seq(S) /\ files' \in Seq(S)
  BY ExportNext DEF ExportInv, ExportTyped
<1> HIDE DEF S
<1>2. Len(files) \in Nat /\ Len(files') \in Nat
  BY <1>1
<1>3. ASSUME NEW x, files' = Append(files, x) PROVE Len(files') = Len(files) + 1
  BY <1>1, <1>3
<1>4. ASSUME NEW n, NEW s, files' = [files EXCEPT ![n].stage = s] PROVE Len(files') = Len(files)
  <2>1. DOMAIN files' = DOMAIN files
    BY <1>4
  <2>2. DOMAIN files = 1..Len(files) /\ DOMAIN files' = 1..Len(files')
    BY <1>1
  <2> QED BY <1>2, <2>1, <2>2
<1>5. ASSUME files' = files PROVE Len(files') = Len(files)
  BY <1>5
<1>6. ASSUME NEW c \in Calls, Call(c) PROVE Len(files) =< Len(files')
  <2>1. \/ files' = files
        \/ \E x : files' = Append(files, x)
        \/ \E n, s : files' = [files EXCEPT ![n].stage = s]
    <3>1. CASE RequestUploadURL(c)
      BY <3>1 DEF RequestUploadURL
    <3>2. CASE UploadBytes(c)
      BY <3>2 DEF UploadBytes
    <3>3. CASE CompleteUpload(c)
      BY <3>3 DEF CompleteUpload
    <3>4. CASE CreateGeneratedFileOperation(c) \/ ExistingOperation(c)
      BY <3>4 DEF CreateGeneratedFileOperation, ExistingOperation, Fails
    <3>5. CASE MarkURLRequested(c) \/ MarkBytesUploaded(c) \/ MarkCompleted(c) \/ RecordFailure(c)
      BY <3>5 DEF MarkURLRequested, MarkBytesUploaded, MarkCompleted, RecordFailure, PersistStatus,
                  Fails
    <3>6. CASE Cancel(c)
      BY <3>6 DEF Cancel
    <3> QED BY <1>6, <3>1, <3>2, <3>3, <3>4, <3>5, <3>6 DEF Call
  <2> QED BY <1>2, <1>3, <1>4, <1>5, <2>1
<1>7. ASSUME ~ \E c \in Calls : Call(c) PROVE files' = files
  BY <1>7 DEF Next, Request, Approve, Crash, vars
<1> QED BY <1>2, <1>5, <1>6, <1>7

LEMMA TargetsStay == ExportInv /\ Targets /\ [Next]_vars => Targets'
<1> SUFFICES ASSUME ExportInv, Targets, [Next]_vars PROVE Targets'
  OBVIOUS
<1>1. Len(files') \in Nat /\ Len(files) \in Nat /\ Len(files) =< Len(files')
  BY FilesStay
<1>2. DOMAIN target = Calls /\ DOMAIN files = 1..Len(files)
  BY FilesFacts DEF ExportInv, ExportTyped
<1>3. ASSUME NEW c \in Calls, NEW n \in 0..Len(files'), target' = [target EXCEPT ![c] = n]
      PROVE  Targets'
  BY <1>1, <1>2, <1>3 DEF Targets
<1>4. ASSUME target' = target PROVE Targets'
  BY <1>1, <1>4 DEF Targets
<1>5. ASSUME NEW c \in Calls, Call(c) PROVE Targets'
  <2>1. CASE RequestUploadURL(c)
    <3> DEFINE made == Append(files, [of |-> ask[c], stage |-> "empty"])
    <3>2. files' = made => Len(made) \in 0..Len(files')
      BY <1>1
    <3>3. 0 \in 0..Len(files')
      BY <1>1
    <3> HIDE DEF made
    <3>4. \E n \in 0..Len(files') : target' = [target EXCEPT ![c] = n]
      BY <2>1, <3>2, <3>3 DEF RequestUploadURL, Holds, Decide, made
    <3> QED BY <1>3, <3>4
  <2>2. CASE UploadBytes(c) \/ CompleteUpload(c)
    <3>1. target' = target \/ target' = [target EXCEPT ![c] = target[c]]
      BY <2>2 DEF UploadBytes, CompleteUpload, Goto, Decide
    <3> QED BY <1>1, <1>3, <1>4, <3>1 DEF Targets
  <2>3. CASE ExistingOperation(c)
    <3>1. PICK o \in Ops : o = ask[c].op
      BY <2>3 DEF ExistingOperation, ExportInv, CallFits, ExportAsked, Exporting, Asks
    <3>2. \/ target' = target
          \/ fileID[o] # 0 /\ target' = [target EXCEPT ![c] = fileID[o]]
      BY <2>3, <3>1 DEF ExistingOperation, Fails, Goto, Holds
    <3>3. fileID[o] # 0 => fileID[o] \in DOMAIN files
      BY DEF ExportInv, ExportIsTrue, Begun
    <3>4. fileID[o] # 0 => fileID[o] \in 0..Len(files')
      BY <1>1, <1>2, <3>3
    <3> QED BY <1>3, <1>4, <3>2, <3>4
  <2>4. CASE CreateGeneratedFileOperation(c)
    BY <1>4, <2>4 DEF CreateGeneratedFileOperation, Fails, Goto
  <2>5. CASE MarkURLRequested(c) \/ MarkBytesUploaded(c) \/ MarkCompleted(c) \/ RecordFailure(c)
    BY <1>4, <2>5 DEF MarkURLRequested, MarkBytesUploaded, MarkCompleted, RecordFailure,
                      PersistStatus, Fails, Goto
  <2>6. CASE Cancel(c)
    BY <1>4, <2>6 DEF Cancel
  <2> QED BY <1>5, <2>1, <2>2, <2>3, <2>4, <2>5, <2>6 DEF Call
<1>6. ASSUME ~ \E c \in Calls : Call(c) PROVE target' = target
  BY <1>6 DEF Next, Request, Approve, Goto, Crash, vars, process
<1> QED BY <1>4, <1>5, <1>6

\* Rows and calls name files that exist.
THEOREM ExportsTyped == Spec => []TypeOK
<1>1. Init => Targets
  BY DEF Init, Targets
<1>2. ExportInv /\ Targets => TypeOK
  <2> SUFFICES ASSUME ExportInv, Targets PROVE TypeOK
    OBVIOUS
  <2>1. /\ ExportTyped /\ DOMAIN files = 1..Len(files) /\ Len(files) \in Nat
        /\ \A n \in DOMAIN files : files[n] \in [of : Asks, stage : {"empty", "bytes", "shared"}]
    BY FilesFacts DEF ExportInv
  <2>2. ASSUME NEW o \in Ops PROVE fileID[o] \in 0..Len(files)
    <3>1. fileID[o] # 0 => fileID[o] \in DOMAIN files
      BY DEF ExportInv, ExportIsTrue, Begun
    <3> QED BY <2>1, <3>1
  <2> QED BY <2>1, <2>2 DEF ExportTyped, Targets, TypeOK
<1> QED BY <1>1, <1>2, ExportInit, ExportNext, TargetsStay, PTL DEF Spec
=============================================================================
