------------------------------- MODULE Paths -------------------------------
(***************************************************************************)
(* Relative paths as the metadata node handles them: std::filesystem paths *)
(* are sequences of components.  A component is an opaque name and an      *)
(* extension, of which only ".tmp" is told apart: <<n, ".tmp">> stands for *)
(* "n.tmp".  The empty sequence is the store's root directory.             *)
(***************************************************************************)
EXTENDS Integers, Sequences

CONSTANTS Name,           \* the names of path components
          MaxDepth        \* bound on the number of components of a path

ASSUME MaxDepthAssumption == MaxDepth \in Nat \ {0}

Component == Name \X {"", ".tmp"}

Path == UNION {[1..n -> Component] : n \in 1..MaxDepth}

\* The last component of p has the extension ".tmp".
EndsInTmp(p) == p[Len(p)][2] = ".tmp"

\* temporary_path += ".tmp"
TemporaryPath(p) == [p EXCEPT ![Len(p)] = <<@[1], ".tmp">>]

\* The directories a path goes through, the root not counted.
Ancestors(p) == {SubSeq(p, 1, k) : k \in 1..(Len(p) - 1)}

\* path_is_inside: directory is a (not necessarily proper) prefix of candidate.
Inside(candidate, directory) ==
    /\ Len(directory) <= Len(candidate)
    /\ SubSeq(candidate, 1, Len(directory)) = directory

\* The directory part of p exists, the root always does.
ParentIn(p, dirs) == Len(p) > 1 => SubSeq(p, 1, Len(p) - 1) \in dirs

\* new_path / path.lexically_relative(old_path)
Rebase(p, old, new) == new \o SubSeq(p, Len(old) + 1, Len(p))

\* The set S after the members of moved went from below old to below new.
MoveAll(S, moved, old, new) ==
    (S \ moved) \cup {Rebase(p, old, new) : p \in moved}

\* The same for a function: an entry that moves keeps its value.
MoveKeys(f, moved, old, new) ==
    [q \in MoveAll(DOMAIN f, moved, old, new) |->
        IF \E p \in moved : Rebase(p, old, new) = q
        THEN f[CHOOSE p \in moved : Rebase(p, old, new) = q]
        ELSE f[q]]
=============================================================================
