------------------------------ MODULE TurnTools ------------------------------
(* What a turn shows and does beside its answer: the confirmed tools that   *)
(* make a canvas or a file, the capabilities of the sandbox, and the        *)
(* progress message. The components meet only in the turn that uses them    *)
(* and share no state, so a behaviour is one of a single component, which   *)
(* "part" names, while the others stay in their initial states. The         *)
(* definitions without a prefix are those of the progress message.          *)
EXTENDS TurnProgress

CONSTANTS
    Calls, Users,
    CanvasOps, Documents,                   \* of the canvases, see CanvasCreation
    MaxTitleChars, MaxContentChars, MaxCanvasBytes, MaxTableCells,
    Keys, CallIDs, Exports,                 \* of the exports, see GeneratedFile
    MaxFilenameChars, MaxContentBytes,
    Capabilities, AllowedCapabilities       \* of the sandbox, see SandboxAudit

VARIABLES
    part,
    status, owner, canvasID, canvases, consents, pc, ask, found, verdict, cancelled,
    fileStatus, fileOwner, fileID, files, fileConsents, filePc, fileAsk, target,
    fileVerdict, fileCancelled,
    record, ran, auditPc, auditAsk, auditCancelled

canvasVars == <<status, owner, canvasID, canvases, consents, pc, ask, found, verdict, cancelled>>
fileVars == <<fileStatus, fileOwner, fileID, files, fileConsents, filePc, fileAsk, target,
              fileVerdict, fileCancelled>>
auditVars == <<record, ran, auditPc, auditAsk, auditCancelled>>

Canvas == INSTANCE CanvasCreation WITH Actors <- Users, Ops <- CanvasOps

File == INSTANCE GeneratedFile WITH
    Actors <- Users, Documents <- Exports,
    status <- fileStatus, owner <- fileOwner, consents <- fileConsents,
    pc <- filePc, ask <- fileAsk, verdict <- fileVerdict, cancelled <- fileCancelled

Audit == INSTANCE SandboxAudit WITH
    pc <- auditPc, ask <- auditAsk, cancelled <- auditCancelled

------------------------------------------------------------------------------

ToolsInit ==
    /\ part \in {"canvas", "file", "audit", "progress"}
    /\ Canvas!Init /\ File!Init /\ Audit!Init /\ Init

CanvasStep ==
    part = "canvas" /\ Canvas!Next /\ UNCHANGED <<part, fileVars, auditVars, vars>>
FileStep ==
    part = "file" /\ File!Next /\ UNCHANGED <<part, canvasVars, auditVars, vars>>
AuditStep ==
    part = "audit" /\ Audit!Next /\ UNCHANGED <<part, canvasVars, fileVars, vars>>
ProgressStep ==
    part = "progress" /\ Next /\ UNCHANGED <<part, canvasVars, fileVars, auditVars>>

ToolsNext == CanvasStep \/ FileStep \/ AuditStep \/ ProgressStep

toolsVars == <<part, canvasVars, fileVars, auditVars, vars>>

ToolsSpec == ToolsInit /\ [][ToolsNext]_toolsVars

------------------------------------------------------------------------------
(* Properties                                                               *)

\* The variables of every component keep their types.
ToolsTypeOK ==
    /\ part = "canvas" => Canvas!TypeOK
    /\ part = "file" => File!TypeOK
    /\ part = "audit" => Audit!TypeOK
    /\ part = "progress" => TypeOK

\* A call is answered with the canvas or the file of its own operation, actor
\* and document (see CanvasCreation and GeneratedFile).
AnswersAreOwn ==
    /\ part = "canvas" => Canvas!AnswerIsOwn
    /\ part = "file" => File!AnswerIsOwn

\* A progress message that is stale is listed at the next start, and what is
\* listed is settled then (see TurnProgress).
NoStaleProgress == part = "progress" => StaleIsListed /\ NoStaleWork

\* A call has its effect once at most, with the consent of its user, and its row
\* says what is so (see CanvasCreation, GeneratedFile and SandboxAudit).
EffectsOnce == Canvas!ImplementsEffect /\ File!ImplementsEffect /\ Audit!ImplementsEffect
=============================================================================
