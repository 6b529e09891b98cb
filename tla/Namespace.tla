----------------------------- MODULE Namespace -----------------------------
(***************************************************************************)
(* The promise of the metadata node about the file tree, free of RAM       *)
(* caches, temporary files and crashes: a durable tree of files and        *)
(* directories in which each change is one atomic step, no step overwrites *)
(* or orphans an entry, and nothing else ever changes.  MetadataStore is   *)
(* shown to implement it.                                                  *)
(***************************************************************************)
EXTENDS Paths

CONSTANTS Meta            \* what a metadata file can say about a file

VARIABLES files,          \* [set of paths -> Meta], the regular files
          dirs            \* the directories, the root not counted

Entries == DOMAIN files \cup dirs

Init == files = << >> /\ dirs = {}

\* A file appears, or the metadata of an existing one is replaced.
PutFile(p, m) ==
    /\ p \notin dirs
    /\ ParentIn(p, dirs)
    /\ files' = [q \in DOMAIN files \cup {p} |-> IF q = p THEN m ELSE files[q]]
    /\ UNCHANGED dirs

DropFile(p) ==
    /\ p \in DOMAIN files
    /\ files' = [q \in DOMAIN files \ {p} |-> files[q]]
    /\ UNCHANGED dirs

AddDir(p) ==
    /\ p \notin Entries
    /\ ParentIn(p, dirs)
    /\ dirs' = dirs \cup {p}
    /\ UNCHANGED files

\* Only an empty directory goes away.
DropDir(p) ==
    /\ p \in dirs
    /\ \A q \in Entries \ {p} : ~Inside(q, p)
    /\ dirs' = dirs \ {p}
    /\ UNCHANGED files

\* An entry moves, with everything below it, to a name nobody has.
Move(old, new) ==
    /\ old \in Entries
    /\ new \notin Entries
    /\ ParentIn(new, dirs)
    /\ ~Inside(new, old)
    /\ files' = MoveKeys(files, {q \in DOMAIN files : Inside(q, old)}, old, new)
    /\ dirs' = MoveAll(dirs, {q \in dirs : Inside(q, old)}, old, new)

\* A call that is refused, or still at work, changes nothing.
Unseen == UNCHANGED <<files, dirs>>

Next ==
    \/ Unseen
    \/ \E p \in Path : AddDir(p) \/ \E m \in Meta : PutFile(p, m)
    \/ \E p \in Entries :
        \/ DropFile(p)
        \/ DropDir(p)
        \/ \E q \in Path : Move(p, q)

Spec == Init /\ [][Next]_<<files, dirs>>
=============================================================================
