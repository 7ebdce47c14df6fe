----------------------------- MODULE FileSandbox -----------------------------
(* Which files of a registered project the read-only tools reach: the       *)
(* validation of arguments in usecase/sandbox/service.go and the path rules *)
(* of adapter/fssandbox/sandbox.go. A path is a sequence of segments; of a  *)
(* file system it is known which absolute paths are directories and files,  *)
(* and where those that are links point to. The rules exist twice, for      *)
(* reading and for listing, and once more for the arguments: here is what   *)
(* they must agree on.                                                      *)
EXTENDS Naturals, Sequences, SequencesExt, FiniteSets

CONSTANTS
    Root,           \* the resolved path of the project
    FileSystems,    \* the file systems to look at: [dirs, files, target]
    Paths,          \* the paths a model asks for
    Backup,         \* names that contain "~"
    MaxLinks        \* links a path may lead through, 255 in Go

VARIABLE probe      \* the file system and the path that are looked at, in a set

RestrictedNames == {".env", ".local-agent", ".git"}

\* In place of a path: no name is empty.
Unavailable == <<"">>

\* No entry of a directory has the name of the directory itself or of its parent,
\* or none, and what is a link is nothing else.
IsFileSystem(fs) ==
    /\ fs.dirs \cup fs.files \cup DOMAIN fs.target \subseteq Seq(STRING)
    /\ fs.target \in [DOMAIN fs.target -> Seq(STRING)]
    /\ fs.dirs \cap DOMAIN fs.target = {} /\ fs.files \cap DOMAIN fs.target = {}
    /\ \A path \in fs.dirs \cup fs.files \cup DOMAIN fs.target :
            path # <<>> => Last(path) \notin {"", ".", ".."}

\* Where the first link on a path is, if there are only directories above it.
Links(fs, path) ==
    {n \in DOMAIN path :
        /\ SubSeq(path, 1, n) \in DOMAIN fs.target
        /\ \A m \in 1..(n - 1) : SubSeq(path, 1, m) \in fs.dirs}

FollowLink(fs, path) ==
    LET n == CHOOSE i \in Links(fs, path) : TRUE
    IN  IF Links(fs, path) = {} THEN path
        ELSE fs.target[SubSeq(path, 1, n)] \o SubSeq(path, n + 1, Len(path))

\* A path once some of its links are followed.
Followed(fs, path) ==
    LET after[n \in 0..MaxLinks] == IF n = 0 THEN path ELSE FollowLink(fs, after[n - 1])
    IN  after

Exists(fs, path) ==
    /\ path \in fs.dirs \cup fs.files
    /\ \A m \in 1..(Len(path) - 1) : SubSeq(path, 1, m) \in fs.dirs

\* filepath.EvalSymlinks
EvalSymlinks(fs, path) ==
    LET end == Followed(fs, path)[MaxLinks] IN IF Exists(fs, end) THEN end ELSE Unavailable

\* filepath.Clean of root and path joined; "." is the root itself.
Clean(path) ==
    LET upTo[n \in 0..Len(path)] ==
            IF n = 0 THEN Root
            ELSE IF path[n] = "." THEN upTo[n - 1] ELSE Append(upTo[n - 1], path[n])
    IN  upTo[Len(path)]

withinRoot(path) == IsPrefix(Root, path)

Relative(path) == SubSeq(path, Len(Root) + 1, Len(path))

anyRestrictedSegment(path) == \E n \in DOMAIN path : path[n] \in RestrictedNames

\* validateRelativePath
ValidPath(path) ==
    \A n \in DOMAIN path :
        path[n] # ".." /\ path[n] \notin Backup /\ path[n] \notin RestrictedNames

\* The checks readFile and listDirectory begin with: the path, and what it
\* points to, are inside the project and not restricted.
Reached(fs, path) ==
    LET target == EvalSymlinks(fs, Clean(path)) IN
    IF /\ withinRoot(Clean(path))
       /\ withinRoot(target)
       /\ ~anyRestrictedSegment(Relative(target))
    THEN target ELSE Unavailable

readFile(fs, path) ==
    LET target == Reached(fs, path) IN
    IF target \in fs.files THEN target ELSE Unavailable

Entries(fs, dir) ==
    {Last(p) : p \in {q \in fs.dirs \cup fs.files \cup DOMAIN fs.target : q # <<>> /\ Front(q) = dir}}

\* Mutant: an entry is judged by its own name only.
ListedByName(fs, dir, name) == name \notin RestrictedNames

\* The checks of listDirectory for one entry.
Listed(fs, dir, name) ==
    LET target == EvalSymlinks(fs, Append(dir, name)) IN
    /\ name \notin RestrictedNames
    /\ target # Unavailable
    /\ withinRoot(target)
    /\ ~anyRestrictedSegment(Relative(target))

listDirectory(fs, path) ==
    LET dir == Reached(fs, path) IN
    IF dir \in fs.dirs THEN {name \in Entries(fs, dir) : Listed(fs, dir, name)} ELSE {}

------------------------------------------------------------------------------

Init == probe = {}

Look == \E fs \in FileSystems, path \in Paths : probe' = {[fs |-> fs, path |-> path]}

Next == probe = {} /\ Look

------------------------------------------------------------------------------
(* Properties                                                               *)

Reads(fs, path) == ValidPath(path) /\ readFile(fs, path) # Unavailable

Opens(fs, path) == ValidPath(path) /\ Reached(fs, path) \in fs.dirs

\* More links lie on the way from the project than Go follows. Those of an entry
\* count from the directory when it is listed, and from the project when it is read.
TooManyLinks(fs, path) == Links(fs, Followed(fs, Clean(path))[MaxLinks]) # {}

\* Whatever links a project holds, a directory lists exactly the entries that
\* the tools then read or list, except names with a "~", which it lists and the
\* arguments refuse, and those behind too many links; and what is read is neither
\* outside the project nor in a restricted directory of it (sandbox.go:97-260,
\* service.go:257-279).
ListedIsReadable ==
    \A look \in probe :
        LET fs == look.fs
            path == look.path
        IN  /\ Opens(fs, path) =>
                   \A name \in Entries(fs, Reached(fs, path)) \ Backup :
                       LET entry == Append(path, name) IN
                       /\ Reads(fs, entry) \/ Opens(fs, entry) => name \in listDirectory(fs, path)
                       /\ name \in listDirectory(fs, path) =>
                              Reads(fs, entry) \/ Opens(fs, entry) \/ TooManyLinks(fs, entry)
            /\ Reads(fs, path) =>
                   LET target == readFile(fs, path) IN
                   /\ IsPrefix(Root, target)
                   /\ \A n \in Len(Root) + 1..Len(target) :
                          target[n] \notin RestrictedNames
=============================================================================
