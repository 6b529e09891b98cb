--------------------------- MODULE MetadataStore ---------------------------
(***************************************************************************)
(* The metadata node's store: the RAM map data_ and the directory of       *)
(* metadata files behind it.  One call runs at a time (the store belongs   *)
(* to the worker thread), but a call that changes both disk and RAM takes  *)
(* several steps, and the process can die between any two of them; on the  *)
(* next start load_from_storage rebuilds RAM from what is on disk.         *)
(*                                                                         *)
(* A metadata file is the pair of its place in the tree and an opaque      *)
(* value of Meta (size, object id, replicas, timestamps); its path is not  *)
(* in the file, the code takes it from the place.  File system calls that  *)
(* change something may fail; queries (exists, is_directory) do not.  A    *)
(* crash is a crash of the process: what was written stays written.        *)
(***************************************************************************)
EXTENDS Paths, FiniteSets

CONSTANTS Meta,           \* what a metadata file can say about a file
          Torn,           \* the content of a file not completely written
          MaxFaults,      \* bound on crashes and failed writes
          MaxEntries      \* bound on the files and directories of the tree

ASSUME TornAssumption == Torn \notin Meta
ASSUME BoundsAssumption == MaxFaults \in Nat /\ MaxEntries \in Nat

VARIABLES data,           \* data_: [set of paths -> Entry]
          files,          \* metadata files on disk, [set of paths -> content]
          dirs,           \* directories on disk, the root not counted
          tmps,           \* files at TemporaryPath(path), by path
          pc,             \* where the running call is
          op,             \* the running call and its arguments
          reply,          \* what the last call returned
          promised,       \* what callers were told is stored (history)
          faults          \* number of crashes and failed writes so far

disk == <<files, dirs, tmps>>
vars == <<data, files, dirs, tmps, pc, op, reply, promised, faults>>

any_filename(p) == TRUE

\* The names of files: the store refuses others, a ".tmp" name included.
\* Of the directories above a file it asks nothing, they may be "n.tmp".
valid_filename(p) == p \in Path /\ ~EndsInTmp(p)

FileName == {p \in Path : valid_filename(p)}

\* What a file on disk can hold.
Content == Meta \cup {Torn}

Entry == [path : FileName, meta : Content]

NoOp == [kind |-> "none"]

Op == [kind : {"put"}, path : FileName, meta : Meta]
      \cup [kind : {"remove"}, path : FileName]
      \cup [kind : {"rename"}, path : FileName, dest : FileName,
            entries : SUBSET FileName]
      \cup {NoOp}

Errors == {"INVALID_PATH", "ALREADY_EXISTS", "NOT_FOUND", "WRITE_FAILURE",
           "READ_FAILURE"}

TypeOK ==
    /\ DOMAIN data \subseteq FileName /\ data \in [DOMAIN data -> Entry]
    /\ DOMAIN files \subseteq FileName /\ files \in [DOMAIN files -> Content]
    /\ dirs \subseteq Path
    /\ DOMAIN tmps \subseteq FileName /\ tmps \in [DOMAIN tmps -> Content]
    /\ pc \in {"down", "idle", "mkdirs", "open", "write", "commit", "publish"}
    /\ op \in Op
    /\ pc \in {"mkdirs", "open", "write", "commit"} => op.kind = "put"
    /\ pc = "publish" => op.kind # "none"
    /\ reply \in Errors \cup {"OK", "NONE"}
    /\ DOMAIN promised \subseteq FileName /\ promised \in [DOMAIN promised -> Content]
    /\ faults \in 0..MaxFaults

Init ==
    /\ data = << >> /\ files = << >> /\ dirs = {} /\ tmps = << >>
    /\ pc = "down" /\ op = NoOp /\ reply = "NONE"
    /\ promised = << >> /\ faults = 0

-----------------------------------------------------------------------------
(* Helpers *)

Set(f, k, v) == [x \in DOMAIN f \cup {k} |-> IF x = k THEN v ELSE f[x]]
Drop(f, S) == [x \in DOMAIN f \ S |-> f[x]]

exists_as_file(p) == p \in DOMAIN files

exists(p) == p \in DOMAIN files \cup dirs

\* The bound MaxEntries lets p and its ancestors be in the tree.
Room(p) ==
    Cardinality(DOMAIN files \cup dirs \cup Ancestors(p) \cup {p}) <= MaxEntries

\* Where the temporary files are.
TmpPlaces == {TemporaryPath(q) : q \in DOMAIN tmps}

\* What the file system moves with old: a file alone, a directory with all
\* below it, temporary files included.
MovedFiles(old) ==
    IF old \in DOMAIN files THEN {old} ELSE {q \in DOMAIN files : Inside(q, old)}

MovedDirs(old) ==
    IF old \in DOMAIN files THEN {} ELSE {q \in dirs : Inside(q, old)}

MovedTmps(old) ==
    IF old \in DOMAIN files THEN {}
    ELSE {q \in DOMAIN tmps : Inside(TemporaryPath(q), old)}

\* renamed_entries: what rename will have to re-key in RAM.
renamed_entries(old) ==
    IF old \in DOMAIN files THEN {old} ELSE {q \in DOMAIN data : Inside(q, old)}

LoadedTopLevel(f) ==
    [p \in {q \in DOMAIN f : Len(q) = 1} |-> [path |-> p, meta |-> f[p]]]

\* The metadata load_from_storage reads back from a set of files.
Loaded(f) == [p \in DOMAIN f |-> [path |-> p, meta |-> f[p]]]

RekeyedOldPath(d, entries, old, new) == MoveKeys(d, entries, old, new)

\* The loop at the end of rename: each entry gets its new key and path.
Rekeyed(d, entries, old, new) ==
    LET f == MoveKeys(d, entries, old, new)
    IN  [q \in DOMAIN f |-> [path |-> q, meta |-> f[q].meta]]

\* What a call does to RAM once the disk has changed.
Published(d) ==
    CASE op.kind = "put" ->
            Set(d, op.path, [path |-> op.path, meta |-> op.meta])
      [] op.kind = "remove" -> Drop(d, {op.path})
      [] op.kind = "rename" -> Rekeyed(d, op.entries, op.path, op.dest)
      [] OTHER -> d

\* What a caller that gets "OK" may rely on from then on.
NowPromised ==
    CASE op.kind = "put" -> Set(promised, op.path, op.meta)
      [] op.kind = "remove" -> Drop(promised, {op.path})
      [] op.kind = "rename" ->
            MoveKeys(promised, op.entries \cap DOMAIN promised, op.path, op.dest)
      [] OTHER -> promised

\* The files the running call may have changed or not when the process dies.
InDoubt ==
    CASE op.kind \in {"put", "remove"} -> {op.path}
      [] op.kind = "rename" -> op.entries
      [] OTHER -> {}

Return(r) == pc' = "idle" /\ op' = NoOp /\ reply' = r

\* A call that returns an error before it has changed anything.
Refuse(r) == Return(r) /\ UNCHANGED <<data, disk, promised, faults>>

-----------------------------------------------------------------------------
(* Writing one metadata file: add_metadata, update_metadata and, in five   *)
(* steps, write_metadata_file                                              *)

begin_write(p, m) ==
    /\ Room(p)
    /\ pc' = "mkdirs"
    /\ op' = [kind |-> "put", path |-> p, meta |-> m]
    /\ UNCHANGED <<data, disk, reply, promised, faults>>

add_metadata(p, m) ==
    \/ ~valid_filename(p) /\ Refuse("INVALID_PATH")
    \/ valid_filename(p) /\ exists(p) /\ Refuse("ALREADY_EXISTS")
    \/ valid_filename(p) /\ ~exists(p) /\ begin_write(p, m)

update_metadata(p, m) ==
    \/ p \in DOMAIN data /\ begin_write(p, m)
    \/ p \notin DOMAIN data /\ add_metadata(p, m)

\* create_directories(parent_path): nothing is created below a file, a
\* temporary file included; missing directories are created from the top.
create_directories ==
    /\ pc = "mkdirs"
    /\ LET missing == Ancestors(op.path) \ dirs IN
       \/ /\ missing \cap (DOMAIN files \cup TmpPlaces) # {}
          /\ Refuse("INVALID_PATH")
       \/ /\ missing \cap (DOMAIN files \cup TmpPlaces) = {} /\ missing # {}
          /\ \/ /\ \E d \in missing :
                      ParentIn(d, dirs) /\ dirs' = dirs \cup {d}
                /\ UNCHANGED <<data, files, tmps, pc, op, reply, promised, faults>>
             \/ Refuse("WRITE_FAILURE")
       \/ /\ missing = {}
          /\ pc' = "open"
          /\ UNCHANGED <<data, disk, op, reply, promised, faults>>

open_in_place ==
    /\ pc = "open"
    /\ files' = Set(files, op.path, Torn)
    /\ tmps' = Set(tmps, op.path, Torn)
    /\ pc' = "write"
    /\ UNCHANGED <<data, dirs, op, reply, promised, faults>>

\* The std::ofstream constructor truncates an old temporary file; it cannot
\* open a directory of that name.
open_temporary ==
    /\ pc = "open"
    /\ \/ /\ TemporaryPath(op.path) \notin dirs
          /\ tmps' = Set(tmps, op.path, Torn)
          /\ pc' = "write"
          /\ UNCHANGED <<data, files, dirs, op, reply, promised, faults>>
       \/ Refuse("WRITE_FAILURE")

write_nothing ==
    /\ pc = "write"
    /\ pc' = "commit"
    /\ UNCHANGED <<data, disk, op, reply, promised, faults>>

\* write, flush and close; a failure leaves the temporary file behind.
write_temporary ==
    /\ pc = "write"
    /\ \/ /\ tmps' = [tmps EXCEPT ![op.path] = op.meta]
          /\ pc' = "commit"
          /\ UNCHANGED <<data, files, dirs, op, reply, promised, faults>>
       \/ /\ faults < MaxFaults
          /\ faults' = faults + 1
          /\ Return("WRITE_FAILURE")
          /\ UNCHANGED <<data, disk, promised>>

commit_by_copy ==
    /\ pc = "commit"
    /\ files' = Set(files, op.path, tmps[op.path])
    /\ pc' = "publish"
    /\ UNCHANGED <<data, dirs, tmps, op, reply, promised, faults>>

\* fs::rename(temporary_path, final_path); on failure the temporary file is
\* removed, if that works.
commit_temporary ==
    /\ pc = "commit"
    /\ \/ /\ files' = Set(files, op.path, tmps[op.path])
          /\ tmps' = Drop(tmps, {op.path})
          /\ pc' = "publish"
          /\ UNCHANGED <<data, dirs, op, reply, promised, faults>>
       \/ /\ faults < MaxFaults
          /\ faults' = faults + 1
          /\ tmps' \in {tmps, Drop(tmps, {op.path})}
          /\ Return("WRITE_FAILURE")
          /\ UNCHANGED <<data, files, dirs, promised>>

\* Disk has changed: bring RAM in line and return.
publish ==
    /\ pc = "publish"
    /\ data' = Published(data)
    /\ promised' = NowPromised
    /\ Return("OK")
    /\ UNCHANGED <<disk, faults>>

-----------------------------------------------------------------------------
(* The other calls *)

\* The worker calls it with a path it has just found in RAM.
remove_metadata(p) ==
    /\ p \in DOMAIN data
    /\ \/ p \notin DOMAIN files /\ Refuse("NOT_FOUND")
       \/ Refuse("WRITE_FAILURE")
       \/ /\ p \in DOMAIN files
          /\ files' = Drop(files, {p})
          /\ op' = [kind |-> "remove", path |-> p]
          /\ pc' = "publish"
          /\ UNCHANGED <<data, dirs, tmps, reply, promised, faults>>

make_directory(p) ==
    \/ ~valid_filename(p) /\ Refuse("INVALID_PATH")
    \/ valid_filename(p) /\ ~ParentIn(p, dirs) /\ Refuse("INVALID_PATH")
    \/ p \in dirs /\ Refuse("ALREADY_EXISTS")
    \/ p \in DOMAIN files /\ Refuse("WRITE_FAILURE")
    \/ /\ valid_filename(p) /\ ParentIn(p, dirs) /\ ~exists(p)
       /\ \/ /\ Room(p)
             /\ dirs' = dirs \cup {p}
             /\ Return("OK")
             /\ UNCHANGED <<data, files, tmps, promised, faults>>
          \/ Refuse("WRITE_FAILURE")

Deletable(p) == TRUE

\* Nothing is in the directory p, no temporary file either.
Empty(p) ==
    \A q \in DOMAIN files \cup dirs \cup TmpPlaces : Inside(q, p) => q = p

\* rmdir fails on a directory with anything in it, a temporary file included.
remove_directory(p) ==
    \/ ~valid_filename(p) /\ Refuse("INVALID_PATH")
    \/ valid_filename(p) /\ ~exists(p) /\ Refuse("NOT_FOUND")
    \/ p \in DOMAIN files /\ Refuse("INVALID_PATH")
    \/ /\ p \in dirs
       /\ \/ /\ Empty(p)
             /\ dirs' = dirs \ {p}
             /\ Return("OK")
             /\ UNCHANGED <<data, files, tmps, promised, faults>>
          \/ Refuse("WRITE_FAILURE")

\* The part of rename that touches the disk; publish does the rest.
rename(old, new) ==
    LET entries == renamed_entries(old) IN
    \/ ~(valid_filename(old) /\ valid_filename(new)) /\ Refuse("INVALID_PATH")
    \/ /\ valid_filename(old) /\ valid_filename(new)
       /\ \/ ~exists(old) /\ Refuse("NOT_FOUND")
          \/ exists(old) /\ old = new /\ Refuse("OK")
          \/ /\ exists(old) /\ old # new
             /\ exists(new) \/ new \in DOMAIN data
             /\ Refuse("ALREADY_EXISTS")
          \/ /\ exists(old) /\ old # new /\ ~exists(new) /\ new \notin DOMAIN data
             /\ \/ entries \ DOMAIN data # {} /\ Refuse("READ_FAILURE")
                \/ /\ \E q \in entries : Rebase(q, old, new) \in DOMAIN data
                   /\ Refuse("ALREADY_EXISTS")
                \/ Refuse("WRITE_FAILURE")
                \/ /\ entries \subseteq DOMAIN data
                   /\ \A q \in entries : Rebase(q, old, new) \notin DOMAIN data
                   /\ ParentIn(new, dirs) /\ ~Inside(new, old)
                   /\ \A q \in MovedFiles(old) \cup MovedDirs(old) \cup MovedTmps(old) :
                         Len(Rebase(q, old, new)) <= MaxDepth
                   /\ files' = MoveKeys(files, MovedFiles(old), old, new)
                   /\ dirs' = MoveAll(dirs, MovedDirs(old), old, new)
                   /\ tmps' = MoveKeys(tmps, MovedTmps(old), old, new)
                   /\ op' = [kind |-> "rename", path |-> old, dest |-> new,
                             entries |-> entries]
                   /\ pc' = "publish"
                   /\ UNCHANGED <<data, reply, promised, faults>>

\* The path << >> stands for every name the store refuses.
Call ==
    /\ pc = "idle"
    /\ \E p \in FileName \cup {<< >>} :
        \/ \E m \in Meta : add_metadata(p, m) \/ update_metadata(p, m)
        \/ remove_metadata(p)
        \/ make_directory(p)
        \/ remove_directory(p)
        \/ \E q \in FileName \cup {<< >>} : rename(p, q)

\* get_metadata and list, as stat combines them: a file is known from RAM, a
\* directory from disk.  list takes any name and shows all there is.
get_metadata(p) ==
    IF ~valid_filename(p) THEN "INVALID_PATH"
    ELSE IF p \in DOMAIN data THEN "FILE" ELSE "NOT_FOUND"

Listed(d, S) == {q \in S : Len(q) = Len(d) + 1 /\ Inside(q, d)}

list(d) ==
    [path : Listed(d, DOMAIN files), type : {"FILE"}]
    \cup [path : Listed(d, dirs), type : {"DIRECTORY"}]
    \cup [path : Listed(d, TmpPlaces), type : {"FILE"}]

stat(p) ==
    IF get_metadata(p) # "NOT_FOUND" THEN get_metadata(p)
    ELSE IF p \in dirs THEN "DIRECTORY" ELSE "INVALID_PATH"

-----------------------------------------------------------------------------
(* Crash and start *)

Crash ==
    /\ pc # "down" /\ faults < MaxFaults
    /\ faults' = faults + 1
    /\ pc' = "down" /\ op' = NoOp /\ reply' = "NONE"
    /\ data' = << >>
    /\ promised' = Drop(promised, InDoubt)
    /\ UNCHANGED disk

\* The constructor of MetadataNode throws if a metadata file is malformed.
load_from_storage ==
    /\ pc = "down"
    /\ \A p \in DOMAIN files : files[p] # Torn
    /\ data' = Loaded(files)
    /\ pc' = "idle"
    /\ UNCHANGED <<disk, op, reply, promised, faults>>

Next ==
    \/ Call
    \/ create_directories \/ open_temporary \/ write_temporary
    \/ commit_temporary \/ publish
    \/ Crash \/ load_from_storage

Spec == Init /\ [][Next]_vars

-----------------------------------------------------------------------------
(* Properties *)

\* RAM and disk agree whenever the store accepts a call: every entry of data_
\* has its file, every file its entry, with the same content, and the path
\* inside the entry is its key.  A get_metadata answered from RAM and a list
\* answered from disk therefore never contradict each other, whatever calls
\* failed and wherever the process died before.
Agreement ==
    pc \notin {"down", "publish"} => data = Loaded(files)

\* The tree on disk is a tree: an entry's ancestors are directories, and no
\* path is both a file and a directory, whether a metadata file or the ".tmp"
\* file a failed write left; so no file is ever cut off by a rename, and a
\* directory "n.tmp" and the temporary file of "n" never meet.
TreeShape ==
    /\ (DOMAIN files \cup TmpPlaces) \cap dirs = {}
    /\ \A p \in DOMAIN files \cup dirs \cup TmpPlaces : Ancestors(p) \subseteq dirs

\* Whatever step the process dies in, no metadata file is left half-written
\* under its final name, which would keep the node from ever starting again.
Recoverable == \A p \in DOMAIN files : files[p] \in Meta

\* What a call that returned "OK" stored is on disk, and stays there until
\* another call that returns "OK" replaces it; a call that fails, or a crash
\* in the middle of a call about other files, takes nothing away.
PromiseKept ==
    pc \in {"idle", "down"} =>
        \A p \in DOMAIN promised : p \in DOMAIN files /\ files[p] = promised[p]

\* A rename finds in RAM everything it found on disk: it is never refused
\* with READ_FAILURE, and never stops half-way through re-keying RAM, after
\* the disk has already changed (the two error returns in that loop).
NoInternalError ==
    /\ reply # "READ_FAILURE"
    /\ pc = "publish" /\ op.kind = "rename" =>
          /\ op.entries \subseteq DOMAIN data
          /\ \A q \in op.entries : Rebase(q, op.path, op.dest) \notin DOMAIN data

\* list, answered from disk, and stat, answered from RAM first, agree on all
\* names get_metadata accepts: what list shows, stat finds as the same kind
\* of thing, and the other way round.  list also shows what is called
\* "n.tmp", of which stat knows nothing: such a file is there only because a
\* write failed or the process died, one for each such fault at most.
ListingMatchesStat ==
    pc = "idle" =>
        /\ \A d \in dirs \cup {<< >>} :
              /\ \A e \in list(d) : valid_filename(e.path) => stat(e.path) = e.type
              /\ \A p \in Listed(d, FileName) :
                    stat(p) \in {"FILE", "DIRECTORY"} => [path |-> p, type |-> stat(p)] \in list(d)
        /\ Cardinality({e \in UNION {list(d) : d \in dirs \cup {<< >>}} :
                            e.type = "FILE" /\ ~valid_filename(e.path)}) <= faults

NS == INSTANCE Namespace

\* Seen from outside, the store is a durable tree of files in which every
\* change is one atomic step: the temporary files, the split between disk and
\* RAM, failures and crashes are invisible.
TreeSpec == NS!Spec
=============================================================================
