--------------------------- MODULE StorageWorker ---------------------------
(***************************************************************************)
(* The requests a storage node serves, as operators on the node's state.   *)
(* An object is kept in one file, the sequence of its chunks; it is built  *)
(* up in "<object>.tmp" and renamed to its name with its final chunk.      *)
(* next_chunks_ is in RAM, the files are on disk.  Each operator gives the *)
(* set of outcomes [node, status, ...] a request can have: space, write,   *)
(* rename and remove can fail.                                             *)
(***************************************************************************)
EXTENDS Integers, Sequences

CONSTANTS Object,         \* object ids, all of them valid_object_id
          Chunk,          \* contents of one chunk
          Absent,         \* no such file, no such entry in next_chunks_
          Torn            \* what is left of a chunk whose write failed

StoredFile == Seq(Chunk \cup {Torn}) \cup {Absent}

Node == [objects : [Object -> StoredFile],
         tmp : [Object -> StoredFile],
         next_chunks : [Object -> Nat \cup {Absent}]]

FreshNode == [objects |-> [o \in Object |-> Absent],
              tmp |-> [o \in Object |-> Absent],
              next_chunks |-> [o \in Object |-> Absent]]

WithTmp(n, o, file) ==
    [objects |-> n.objects, tmp |-> [n.tmp EXCEPT ![o] = file],
     next_chunks |-> n.next_chunks]

WithNext(n, o, k) ==
    [objects |-> n.objects, tmp |-> n.tmp,
     next_chunks |-> [n.next_chunks EXCEPT ![o] = k]]

WrittenAppending(n, o, i, chunk) ==
    IF n.tmp[o] = Absent THEN << chunk >> ELSE Append(n.tmp[o], chunk)

\* The temporary file once chunk i is in it: chunk 0 truncates, any other is
\* appended, to an empty file if there is none.
Written(n, o, i, chunk) ==
    IF i = 0 \/ n.tmp[o] = Absent THEN << chunk >> ELSE Append(n.tmp[o], chunk)

\* abort_write removes the temporary file, if it can, and nothing else.
abort_write(n, o) == {n, WithTmp(n, o, Absent)}

\* fs::rename(tmp_path, final_path) and next_chunks_.erase
Finished(n, o) ==
    [objects |-> [n.objects EXCEPT ![o] = n.tmp[o]],
     tmp |-> [n.tmp EXCEPT ![o] = Absent],
     next_chunks |-> [n.next_chunks EXCEPT ![o] = Absent]]

\* The chunk is the one next_chunks_ expects.
InOrder(n, o, i) == n.next_chunks[o] = i

write_chunk(n, o, i, final_chunk, chunk) ==
    LET m == IF i = 0 THEN WithNext(n, o, 0) ELSE n
        broken == WithTmp(m, o, Written(m, o, i, Torn))
        w == WithNext(WithTmp(m, o, Written(m, o, i, chunk)), o, i + 1)
        Failing(nodes, status) == {[node |-> x, status |-> status] : x \in nodes}
    IN  IF ~InOrder(m, o, i)
        THEN Failing(abort_write(m, o), "InvalidRequest")
        ELSE Failing(abort_write(m, o), "NoSpace")
             \cup Failing(abort_write(m, o) \cup abort_write(broken, o), "WriteError")
             \cup (IF final_chunk
                   THEN {[node |-> Finished(w, o), status |-> "Success"]}
                        \cup Failing(abort_write(w, o), "WriteError")
                   ELSE {[node |-> w, status |-> "Success"]})

\* GetRequest: chunk i of the object, nothing when i is just past its end;
\* opening, seeking and reading can fail.
get_chunk(n, o, i) ==
    LET Answer(status, data) == [node |-> n, status |-> status, data |-> data]
        file == n.objects[o]
    IN  {Answer("ReadError", << >>)} \cup
        IF file = Absent THEN {}
        ELSE IF i > Len(file) THEN {Answer("InvalidRequest", << >>)}
        ELSE {Answer("Success", SubSeq(file, i + 1, IF i < Len(file) THEN i + 1 ELSE i))}

delete_object_lazily(n, o) ==
    {[node |-> WithNext(WithTmp(n, o, Absent), o, Absent), status |-> "Success"]}

\* DeleteRequest: the object, then the temporary file, then next_chunks_;
\* removing a file that is not there succeeds.
delete_object(n, o) ==
    LET gone == [objects |-> [n.objects EXCEPT ![o] = Absent],
                 tmp |-> n.tmp, next_chunks |-> n.next_chunks]
    IN  {[node |-> n, status |-> "WriteError"],
         [node |-> gone, status |-> "WriteError"],
         [node |-> WithNext(WithTmp(gone, o, Absent), o, Absent),
          status |-> "Success"]}

\* The node after its process died: RAM is gone.
Restarted(n) ==
    [objects |-> n.objects, tmp |-> n.tmp,
     next_chunks |-> [o \in Object |-> Absent]]
=============================================================================
