--------------------------- MODULE DistributedFS ---------------------------
(***************************************************************************)
(* The whole system: clients, the metadata node's single worker thread and *)
(* the storage nodes, joined by their messages.                            *)
(*                                                                         *)
(* A client sends one request at a time and waits for its response, up to  *)
(* a timeout.  The worker takes requests from job_queue_ one after the     *)
(* other; while a handler waits for storage nodes it handles nothing else. *)
(* Writing and reading a file are conversations of several requests, told  *)
(* apart by (client, request id) in pending_writes_ and pending_reads_.    *)
(*                                                                         *)
(* Abstractions: all paths lie in one directory that is there, and each    *)
(* change of the metadata store is one step that happens or fails          *)
(* (MetadataStore shows why); sizes are numbers of whole chunks; which two *)
(* storage nodes have most bytes left is left open; a timeout can strike   *)
(* at any time.  Chunk i of write number v is the pair <<v, i>>.  A LIST   *)
(* names that directory, and of its response only what it says of one path *)
(* is kept.                                                                *)
(*                                                                         *)
(* A path can be spelled in many ways ("d/f", "d//f", "d///f").  The store *)
(* takes them for one file, but pending_writes_ is searched for the string *)
(* the client sent; no operation but the creation of a file normalises it. *)
(***************************************************************************)
EXTENDS Integers, Sequences, FiniteSets

CONSTANTS Client, Storage, Path,
          Absent, Torn,
          Jobs,           \* the operations the clients use
          Restarting,     \* the kinds of process that may die and start again
          Respelling,     \* whether clients spell one path in several ways
          MaxRequests,    \* bound on the request ids of one client process
          MaxChunks,      \* bound on the chunks of a file
          MaxWrites,      \* bound on the writes of all clients
          MaxObjects,     \* bound on the object ids generated
          MaxFaults,      \* bound on failed disk operations and lost nodes
          MaxTimeouts,    \* bound on timeouts that strike prematurely
          MaxRestarts,    \* bound on restarts of processes
          MaxMishaps      \* bound on all three together

ASSUME KindsAssumption == Restarting \subseteq {"client", "metadata", "storage"}
ASSUME JobsAssumption ==
    Jobs \subseteq {"CREATE_FILE", "WRITE_FILE", "READ_FILE", "REMOVE", "RENAME", "MKDIR",
                     "LIST", "STAT"}
ASSUME RespellingAssumption == Respelling \in BOOLEAN
ASSUME BoundsAssumption ==
    \A n \in {MaxRequests, MaxChunks, MaxWrites, MaxObjects, MaxFaults,
               MaxTimeouts, MaxRestarts, MaxMishaps} : n \in Nat

Object == 1..MaxObjects
Chunk == (1..MaxWrites) \X (0..MaxChunks)

\* A file that is not there is none with content, and no entry is no number.
ASSUME ValuesAssumption == Absent \notin Nat /\ Absent \notin Seq(Chunk \cup {Torn})

INSTANCE StorageWorker

Stream(v, n) == [i \in 1..n |-> <<v, i - 1>>]

VARIABLES
    client,               \* the operation each client is in
    replies,              \* responses on their way to each client
    jobs,                 \* job_queue_: requests the worker has not taken
    work,                 \* the handler waiting for storage nodes, if any
    meta,                 \* the files of the metadata store
    dirs,                 \* the directories of the metadata store
    pending_writes, pending_reads,
    available,            \* storage nodes the worker deems available
    sid,                  \* current_storage_request_id_
    objects,              \* number of object ids generated
    node,                 \* the state of each storage node
    inbox,                \* requests on their way to each storage node
    answers,              \* responses of each storage node in message_queue_
    faults, timeouts, restarts,   \* how often something went wrong so far
    writes,               \* number of writes begun (history)
    settled,              \* last write of a path, if undisputed (history)
    doubt,                \* paths a client may still be changing (history)
    contested             \* paths several clients have been changing (history)

clientVars == <<client, replies>>
store == <<meta, dirs>>
tables == <<pending_writes, pending_reads>>
storageVars == <<node, inbox, answers>>
history == <<writes, settled, doubt, contested>>
vars == <<client, replies, jobs, work, meta, dirs, pending_writes, pending_reads,
          available, sid, objects, node, inbox, answers, faults, timeouts,
          restarts, writes, settled, doubt, contested>>

NoReq == [job |-> "NONE"]
Idle == [kind |-> "IDLE"]
None == << >>             \* no version, no result

ChunkJobs == {"WRITE_CHUNK", "READ_CHUNK"}

Request(c, id, job, p, q, x, v) ==
    [c |-> c, id |-> id, job |-> job, p |-> p, q |-> q, x |-> x, v |-> v]

Requests == [c : Client, id : 1..MaxRequests,
             job : {"CREATE_FILE", "WRITE_FILE", "WRITE_CHUNK", "READ_FILE",
                    "READ_CHUNK", "REMOVE", "RENAME", "MKDIR", "LIST", "STAT"},
             p : Path, q : Path, x : 0..MaxChunks, v : 0..MaxWrites]

ClientStatus == {"Success", "ServerError", "InputError", "AlreadyExists"}

Pair == {r \in Storage \X Storage : r[1] # r[2]}
Metadata == [obj : Object, size : 0..MaxChunks, replicas : Pair \cup {None}]
Pending == [path : Path, obj : Object, count : 1..MaxChunks, next : 0..MaxChunks,
            replicas : Pair]
Keys == Client \X (1..MaxRequests)

TypeOK ==
    /\ \A c \in Client :
        /\ client[c].id \in 0..MaxRequests
        /\ client[c].req \in Requests \cup {NoReq}
        /\ client[c].got \in Seq(Chunk \cup {Torn})
        /\ \A m \in replies[c] : m.status \in ClientStatus /\ m.id \in 1..MaxRequests
    /\ jobs \in Seq(Requests)
    /\ work # Idle => work.req \in Requests /\ work.left # << >>
    /\ DOMAIN meta \subseteq Path /\ meta \in [DOMAIN meta -> Metadata]
    /\ dirs \subseteq Path \ DOMAIN meta
    /\ \A f \in {pending_writes, pending_reads} :
        DOMAIN f \subseteq Keys /\ f \in [DOMAIN f -> Pending]
    /\ available \subseteq Storage
    /\ sid \in Nat /\ objects \in 0..MaxObjects
    /\ node \in [Storage -> Node]
    /\ faults \in 0..MaxFaults /\ timeouts \in 0..MaxTimeouts
    /\ restarts \in [{"client", "metadata", "storage"} -> 0..MaxRestarts]

Init ==
    /\ client = [c \in Client |-> [id |-> 0, req |-> NoReq, n |-> 0, got |-> << >>,
                                   snap |-> None, result |-> None]]
    /\ replies = [c \in Client |-> {}]
    /\ jobs = << >> /\ work = Idle /\ meta = << >> /\ dirs = {}
    /\ pending_writes = << >> /\ pending_reads = << >>
    /\ available = {} /\ sid = 0 /\ objects = 0
    /\ node = [s \in Storage |-> FreshNode]
    /\ inbox = [s \in Storage |-> << >>] /\ answers = [s \in Storage |-> << >>]
    /\ faults = 0 /\ timeouts = 0 /\ restarts = [client |-> 0, metadata |-> 0, storage |-> 0]
    /\ writes = 0 /\ settled = [p \in Path |-> None]
    /\ doubt = [c \in Client |-> {}] /\ contested = {}

AllRestarts == restarts.client + restarts.metadata + restarts.storage
MayGoWrong == faults + timeouts + AllRestarts < MaxMishaps

Fault == MayGoWrong /\ faults < MaxFaults /\ faults' = faults + 1
Early == MayGoWrong /\ timeouts < MaxTimeouts /\ timeouts' = timeouts + 1
Restart(kind) ==
    /\ MayGoWrong /\ kind \in Restarting /\ AllRestarts < MaxRestarts
    /\ restarts' = [restarts EXCEPT ![kind] = @ + 1]

Set(f, k, v) == [x \in DOMAIN f \cup {k} |-> IF x = k THEN v ELSE f[x]]
Drop(f, k) == [x \in DOMAIN f \ {k} |-> f[x]]

-----------------------------------------------------------------------------
(* Clients *)

Changing == {"CREATE_FILE", "WRITE_FILE", "WRITE_CHUNK", "REMOVE", "RENAME", "MKDIR"}

\* The paths that clients other than c may still be changing.
DoubtedBesides(c) == UNION {doubt[d] : d \in Client \ {c}}

\* Request req changes a path that another client's operation is about.
Disturbs(req, other) ==
    req.job \in Changing /\ other # NoReq /\ {req.p, req.q} \cap {other.p, other.q} # {}

\* Each operation of Client up to its first wait.
Begin(c, job, p, q, n) ==
    LET v == IF job = "WRITE_FILE" THEN writes + 1 ELSE 0
        req == Request(c, client[c].id + 1, job, p, q, n, v)
    IN  /\ client[c].req = NoReq /\ client[c].id < MaxRequests
        /\ job = "WRITE_FILE" => writes < MaxWrites
        /\ writes' = IF job = "WRITE_FILE" THEN v ELSE writes
        /\ jobs' = Append(jobs, req)
        /\ client' = [d \in Client |->
              IF d = c
              THEN [id |-> req.id, req |-> req, n |-> n, got |-> << >>,
                    snap |-> settled[p], result |-> None]
              ELSE [client[d] EXCEPT !.snap = IF Disturbs(req, client[d].req) THEN None ELSE @]]
        /\ IF job \in Changing
           THEN /\ settled' = [settled EXCEPT ![p] = None, ![q] = None]
                /\ doubt' = [doubt EXCEPT ![c] = @ \cup {p, q}]
                /\ contested' = contested \cup ({p, q} \cap DoubtedBesides(c))
           ELSE UNCHANGED <<settled, doubt, contested>>
        /\ UNCHANGED <<replies, work, store, tables, available, sid, objects,
                       storageVars, faults, timeouts, restarts>>

Issue(c) ==
    \E p \in Path :
        \/ \E job \in Jobs \ {"WRITE_FILE", "RENAME"} : Begin(c, job, p, p, 0)
        \/ "WRITE_FILE" \in Jobs /\ \E n \in 0..MaxChunks : Begin(c, "WRITE_FILE", p, p, n)
        \/ "RENAME" \in Jobs /\ \E q \in Path : Begin(c, "RENAME", p, q, 0)

\* The predicate of the client's receive_if.
Answers(m, req) ==
    /\ m.id = req.id /\ m.job = req.job
    /\ req.job \in ChunkJobs => m.x = req.x

\* The operation is over and its outcome known.  A write that succeeded is
\* what its path holds from now on, unless other clients changed it as well,
\* and a file that was renamed takes its content along.
Conclude(c, ok) ==
    LET req == client[c].req IN
    /\ doubt' = [doubt EXCEPT ![c] = @ \ {req.p, req.q}]
    /\ settled' =
        IF ~ok \/ {req.p, req.q} \cap (contested \cup DoubtedBesides(c)) # {} THEN settled
        ELSE CASE req.job \in {"WRITE_FILE", "WRITE_CHUNK"} ->
                    [settled EXCEPT ![req.p] = <<req.v, client[c].n>>]
               [] req.job = "RENAME" -> [settled EXCEPT ![req.q] = client[c].snap]
               [] OTHER -> settled
    /\ contested' = contested \cap DoubtedBesides(c)

\* What the caller is given, for a read, a listing or a stat.
Result(req, m, got) ==
    CASE req.job \in {"READ_FILE", "READ_CHUNK"} -> [path |-> req.p, content |-> got]
      [] req.job = "LIST" -> [path |-> req.p, type |-> m.type]
      [] req.job = "STAT" -> [path |-> req.p, type |-> m.type, size |-> m.n]
      [] OTHER -> None

\* The next chunk of a write or a read, or the end of the operation, or the
\* local file cannot be read or written and the operation ends without the
\* metadata node hearing of it.
ReceiveSuccess(c, m) ==
    LET req == client[c].req
        got == client[c].got \o m.data
        i == IF req.job \in ChunkJobs THEN req.x + 1 ELSE 0
        n == IF req.job = "READ_FILE" THEN m.n ELSE client[c].n
        job == IF req.job \in {"WRITE_FILE", "WRITE_CHUNK"} THEN "WRITE_CHUNK"
               ELSE "READ_CHUNK"
        next == Request(c, req.id, job, req.p, req.q, i, req.v)
    IN  \/ /\ req.job \in {"WRITE_FILE", "READ_FILE"} \cup ChunkJobs /\ i < n
           /\ jobs' = Append(jobs, next)
           /\ client' = [client EXCEPT ![c].req = next, ![c].got = got, ![c].n = n]
           /\ UNCHANGED <<settled, doubt, contested, faults>>
        \/ /\ req.job \in {"WRITE_FILE", "READ_FILE"} \cup ChunkJobs => i = n
           /\ client' = [client EXCEPT ![c].req = NoReq, ![c].result = Result(req, m, got)]
           /\ Conclude(c, TRUE)
           /\ UNCHANGED <<jobs, faults>>
        \/ /\ \/ req.job \in {"READ_FILE", "READ_CHUNK"}
              \/ req.job \in {"WRITE_FILE", "WRITE_CHUNK"} /\ i < n
           /\ Fault
           /\ client' = [client EXCEPT ![c].req = NoReq]
           /\ Conclude(c, FALSE)
           /\ UNCHANGED jobs

ClientReceive(c) ==
    /\ client[c].req # NoReq
    /\ \E m \in replies[c] :
        /\ Answers(m, client[c].req)
        /\ replies' = [replies EXCEPT ![c] = @ \ {m}]
        /\ \/ m.status = "Success" /\ ReceiveSuccess(c, m)
           \/ /\ m.status # "Success"
              /\ client' = [client EXCEPT ![c].req = NoReq]
              /\ Conclude(c, FALSE)
              /\ UNCHANGED <<jobs, faults>>
    /\ UNCHANGED <<work, store, tables, available, sid, objects, storageVars,
                   timeouts, restarts, writes>>

\* TIMEOUT and READ_CHUNK_TIMEOUT: the client returns without an answer, and
\* nobody tells the metadata node.  A timeout while the request is still
\* being served is premature.
ClientTimeout(c) ==
    LET req == client[c].req
        underway == \/ \E i \in 1..Len(jobs) : jobs[i] = req
                    \/ work # Idle /\ work.req = req
                    \/ \E m \in replies[c] : Answers(m, req)
    IN  /\ req # NoReq
        /\ IF underway THEN Early ELSE UNCHANGED timeouts
        /\ client' = [client EXCEPT ![c].req = NoReq]
        /\ UNCHANGED <<replies, jobs, work, store, tables, available, sid, objects,
                       storageVars, faults, restarts, history>>

-----------------------------------------------------------------------------
(* The worker's handlers *)

Taking(job) ==
    /\ work = Idle /\ jobs # << >> /\ Head(jobs).job = job
    /\ jobs' = Tail(jobs)

Send(req, status, type, n, data) ==
    replies' = [replies EXCEPT ![req.c] = @ \cup
        {[id |-> req.id, job |-> req.job, status |-> status,
          x |-> IF req.job \in ChunkJobs THEN req.x ELSE 0, type |-> type,
          n |-> n, data |-> data]}]

Reply(req, status, n, data) == Send(req, status, "NONE", n, data)

respond(req, status) == Reply(req, status, 0, << >>)

\* A call that changes the metadata store, or its failure.
StoreChange(req, files, directories) ==
    \/ /\ meta' = files /\ dirs' = directories
       /\ respond(req, "Success") /\ UNCHANGED faults
    \/ Fault /\ respond(req, "ServerError") /\ UNCHANGED store

RefuseSilently(req, status) == UNCHANGED <<replies, store, faults>>

Refuse(req, status) == respond(req, status) /\ UNCHANGED <<store, faults>>

key(req) == <<req.c, req.id>>
NeverBeingWritten(p) == FALSE

BeingWritten(p) == \E k \in DOMAIN pending_writes : pending_writes[k].path = p

\* A request about p may find no pending write of its path: there is none, or
\* all of them have another string for p.
Unnoticed(p) == BeingWritten(p) => Respelling
AllAvailable(r) == r[1] \in available /\ r[2] \in available
SomeAvailable(r) == r[1] \in available \/ r[2] \in available

ExistsAsFile(p) == p \in DOMAIN meta

exists(p) == p \in DOMAIN meta \cup dirs

\* What a file that was never written looks like.
NewFile(o) == [obj |-> o, size |-> 0, replicas |-> None]

HandleCreateFile ==
    /\ Taking("CREATE_FILE") /\ objects < MaxObjects
    /\ LET req == Head(jobs) IN
       \/ exists(req.p) /\ Refuse(req, "AlreadyExists")
       \/ /\ ~exists(req.p)
          /\ StoreChange(req, Set(meta, req.p, NewFile(objects + 1)), dirs)
    /\ objects' = objects + 1
    /\ UNCHANGED <<work, client, tables, available, sid, storageVars, timeouts, restarts, history>>

TargetReusingId(p) == IF p \in DOMAIN meta THEN meta[p] ELSE NewFile(objects)

\* The file a WRITE_FILE is about; one that does not exist yet is made up.
Target(p) == IF p \in DOMAIN meta THEN meta[p] ELSE NewFile(objects + 1)

\* The pending write is entered unless the client has one with this id.
EnterWrite(req, m) ==
    /\ pending_writes' =
        IF key(req) \in DOMAIN pending_writes THEN pending_writes
        ELSE Set(pending_writes, key(req),
                 [path |-> req.p, obj |-> m.obj, count |-> req.x, next |-> 0,
                  replicas |-> m.replicas])
    /\ respond(req, IF key(req) \in DOMAIN pending_writes THEN "ServerError"
                    ELSE "Success")

HandleWriteFile ==
    /\ Taking("WRITE_FILE")
    /\ LET req == Head(jobs)
           m == Target(req.p)
           new == req.p \notin DOMAIN meta
       IN
       /\ new => objects < MaxObjects
       /\ objects' = IF new THEN objects + 1 ELSE objects
       /\ \/ /\ req.p \in dirs
             /\ Refuse(req, "ServerError")
             /\ UNCHANGED pending_writes
          \/ /\ req.x = 0 /\ req.p \notin dirs
             /\ StoreChange(req, Set(meta, req.p, [m EXCEPT !.size = 0]), dirs)
             /\ UNCHANGED pending_writes
          \/ /\ req.x # 0 /\ m.replicas # None /\ AllAvailable(m.replicas)
             /\ EnterWrite(req, m)
             /\ UNCHANGED <<store, faults>>
          \/ /\ req.x # 0
             /\ IF m.replicas # None THEN ~AllAvailable(m.replicas)
                ELSE Cardinality(available) < 2
             /\ Refuse(req, "ServerError")
             /\ UNCHANGED pending_writes
          \/ /\ req.x # 0 /\ m.replicas = None /\ Cardinality(available) >= 2
             /\ req.p \notin dirs
             /\ \/ \E r \in Pair :
                     LET bound == [m EXCEPT !.replicas = r] IN
                     /\ AllAvailable(r)
                     /\ meta' = Set(meta, req.p, bound)
                     /\ EnterWrite(req, bound)
                     /\ UNCHANGED <<dirs, faults>>
                \/ /\ Fault /\ respond(req, "ServerError")
                   /\ UNCHANGED <<store, pending_writes>>
    /\ UNCHANGED <<work, client, pending_reads, available, sid, storageVars,
                   timeouts, restarts, history>>

StorageRequest(id, job, o, i, final, data) ==
    [id |-> id, job |-> job, o |-> o, i |-> i, final |-> final, data |-> data]

SendBoth(r, msg) ==
    inbox' = [s \in Storage |-> IF s \in {r[1], r[2]} THEN Append(inbox[s], msg)
                                ELSE inbox[s]]

Wait(kind, req, id, left) ==
    work' = [kind |-> kind, req |-> req, id |-> id, left |-> left, ok |-> TRUE]

HandleWriteChunk ==
    /\ Taking("WRITE_CHUNK")
    /\ LET req == Head(jobs)
           w == pending_writes[key(req)]
           known == key(req) \in DOMAIN pending_writes
       IN
       \/ /\ known => req.x # w.next \/ req.x >= w.count
          /\ pending_writes' = Drop(pending_writes, key(req))
          /\ respond(req, "InputError")
          /\ UNCHANGED <<work, inbox>>
       \/ /\ known /\ req.x = w.next /\ req.x < w.count
          /\ SendBoth(w.replicas, StorageRequest(req.id, "PUT", w.obj, req.x,
                          req.x + 1 = w.count, << <<req.v, req.x>> >>))
          /\ Wait("PUT", req, req.id, w.replicas)
          /\ UNCHANGED <<pending_writes, replies>>
    /\ UNCHANGED <<client, store, pending_reads, available, sid, objects, node,
                   answers, faults, timeouts, restarts, history>>

HandleReadFile ==
    /\ Taking("READ_FILE")
    /\ LET req == Head(jobs)
           m == meta[req.p]
           readable == Unnoticed(req.p) /\ req.p \in DOMAIN meta
       IN
       \/ /\ BeingWritten(req.p) \/ req.p \notin DOMAIN meta
          /\ respond(req, "ServerError")
          /\ UNCHANGED pending_reads
       \/ /\ readable /\ m.size = 0
          /\ Reply(req, "Success", 0, << >>)
          /\ UNCHANGED pending_reads
       \/ /\ readable /\ m.size # 0
          /\ ~SomeAvailable(m.replicas) \/ key(req) \in DOMAIN pending_reads
          /\ respond(req, "ServerError")
          /\ UNCHANGED pending_reads
       \/ /\ readable /\ m.size # 0 /\ SomeAvailable(m.replicas)
          /\ key(req) \notin DOMAIN pending_reads
          /\ pending_reads' = Set(pending_reads, key(req),
                 [path |-> req.p, obj |-> m.obj, count |-> m.size, next |-> 0,
                  replicas |-> m.replicas])
          /\ Reply(req, "Success", m.size, << >>)
    /\ UNCHANGED <<work, client, store, pending_writes, available, sid, objects,
                   storageVars, faults, timeouts, restarts, history>>

\* Ask the first available replica of left for the chunk, skipping others;
\* with none left the read is given up.
AskNext(req, left) ==
    LET r == pending_reads[key(req)]
        candidates == {i \in 1..Len(left) : left[i] \in available}
    IN  \/ /\ candidates = {}
           /\ pending_reads' = Drop(pending_reads, key(req))
           /\ work' = Idle
           /\ respond(req, "ServerError")
           /\ UNCHANGED <<inbox, sid>>
        \/ \E i \in candidates :
           /\ \A j \in candidates : i <= j
           /\ sid' = sid + 1
           /\ inbox' = [inbox EXCEPT ![left[i]] =
                  Append(@, StorageRequest(sid', "GET", r.obj, req.x, FALSE, << >>))]
           /\ Wait("GET", req, sid', SubSeq(left, i, Len(left)))
           /\ UNCHANGED <<pending_reads, replies>>

HandleReadChunk ==
    /\ Taking("READ_CHUNK")
    /\ LET req == Head(jobs)
           r == pending_reads[key(req)]
           known == key(req) \in DOMAIN pending_reads
       IN
       \/ /\ known => req.x # r.next \/ req.x >= r.count
          /\ pending_reads' = Drop(pending_reads, key(req))
          /\ respond(req, "InputError")
          /\ UNCHANGED <<work, inbox, sid>>
       \/ /\ known /\ req.x = r.next /\ req.x < r.count
          /\ AskNext(req, r.replicas)
    /\ UNCHANGED <<client, store, pending_writes, available, objects, node,
                   answers, faults, timeouts, restarts, history>>

HandleRemove ==
    /\ Taking("REMOVE")
    /\ LET req == Head(jobs)
           m == meta[req.p]
           removable == Unnoticed(req.p) /\ req.p \in DOMAIN meta
       IN
       \/ /\ BeingWritten(req.p) \/ ~exists(req.p)
          /\ Refuse(req, "ServerError")
          /\ UNCHANGED <<work, inbox, sid>>
       \/ /\ Unnoticed(req.p) /\ req.p \in dirs
          /\ StoreChange(req, meta, dirs \ {req.p})
          /\ UNCHANGED <<work, inbox, sid>>
       \/ /\ removable /\ m.replicas = None
          /\ StoreChange(req, Drop(meta, req.p), dirs)
          /\ UNCHANGED <<work, inbox, sid>>
       \/ /\ removable /\ m.replicas # None /\ ~AllAvailable(m.replicas)
          /\ Refuse(req, "ServerError")
          /\ UNCHANGED <<work, inbox, sid>>
       \/ /\ removable /\ m.replicas # None /\ AllAvailable(m.replicas)
          /\ sid' = sid + 1
          /\ SendBoth(m.replicas, StorageRequest(sid', "DELETE", m.obj, 0, FALSE, << >>))
          /\ Wait("DELETE", req, sid', m.replicas)
          /\ UNCHANGED <<replies, store, faults>>
    /\ UNCHANGED <<client, tables, available, objects, node, answers, timeouts, restarts, history>>

HandleRename ==
    /\ Taking("RENAME")
    /\ LET req == Head(jobs) IN
       \/ ~exists(req.p) /\ Refuse(req, "ServerError")
       \/ /\ exists(req.p) /\ req.q = req.p
          /\ respond(req, "Success") /\ UNCHANGED <<store, faults>>
       \/ exists(req.p) /\ req.q # req.p /\ exists(req.q) /\ Refuse(req, "AlreadyExists")
       \/ /\ req.p \in DOMAIN meta /\ ~exists(req.q)
          /\ StoreChange(req, Set(Drop(meta, req.p), req.q, meta[req.p]), dirs)
       \/ /\ req.p \in dirs /\ ~exists(req.q)
          /\ StoreChange(req, meta, (dirs \ {req.p}) \cup {req.q})
    /\ UNCHANGED <<work, client, tables, available, sid, objects, storageVars,
                   timeouts, restarts, history>>

HandleMakeDir ==
    /\ Taking("MKDIR")
    /\ LET req == Head(jobs) IN
       \/ req.p \in dirs /\ Refuse(req, "AlreadyExists")
       \/ req.p \in DOMAIN meta /\ Refuse(req, "ServerError")
       \/ ~exists(req.p) /\ StoreChange(req, meta, dirs \cup {req.p})
    /\ UNCHANGED <<work, client, tables, available, sid, objects, storageVars,
                   timeouts, restarts, history>>

TypeOf(p) ==
    CASE p \in DOMAIN meta -> "FILE" [] p \in dirs -> "DIRECTORY" [] OTHER -> "NONE"

HandleList ==
    /\ Taking("LIST")
    /\ LET req == Head(jobs) IN
       \/ Send(req, "Success", TypeOf(req.p), 0, << >>) /\ UNCHANGED faults
       \/ Fault /\ respond(req, "ServerError")
    /\ UNCHANGED <<work, client, store, tables, available, sid, objects, storageVars,
                   timeouts, restarts, history>>

\* A file is known from data_, a directory only by listing it.
HandleStat ==
    /\ Taking("STAT")
    /\ LET req == Head(jobs) IN
       \/ /\ req.p \in DOMAIN meta
          /\ Send(req, "Success", "FILE", meta[req.p].size, << >>)
          /\ UNCHANGED faults
       \/ /\ req.p \in dirs
          /\ \/ Send(req, "Success", "DIRECTORY", 0, << >>) /\ UNCHANGED faults
             \/ Fault /\ respond(req, "ServerError")
       \/ ~exists(req.p) /\ respond(req, "InputError") /\ UNCHANGED faults
    /\ UNCHANGED <<work, client, store, tables, available, sid, objects, storageVars,
                   timeouts, restarts, history>>

-----------------------------------------------------------------------------
(* The worker waiting for storage nodes *)

CompletedTooShort(w) == [obj |-> w.obj, size |-> w.next, replicas |-> w.replicas]

\* The metadata of a file whose write is complete.
Completed(w) == [obj |-> w.obj, size |-> w.count, replicas |-> w.replicas]

\* The last replica has answered, or not: the end of WRITE_CHUNK ...
FinishPut(ok) ==
    LET req == work.req
        w == pending_writes[key(req)]
        last == w.next + 1 = w.count
    IN  \/ /\ ~ok
           /\ pending_writes' = Drop(pending_writes, key(req))
           /\ respond(req, "ServerError")
           /\ UNCHANGED <<store, faults>>
        \/ /\ ok /\ ~last
           /\ pending_writes' = [pending_writes EXCEPT ![key(req)].next = @ + 1]
           /\ respond(req, "Success")
           /\ UNCHANGED <<store, faults>>
        \/ /\ ok /\ last
           /\ \/ w.path \in dirs /\ Refuse(req, "AlreadyExists")
              \/ /\ w.path \notin dirs
                 /\ StoreChange(req, Set(meta, w.path, Completed(w)), dirs)
           /\ pending_writes' = Drop(pending_writes, key(req))

\* ... of REMOVE ...
FinishDelete(ok) ==
    \/ ok /\ StoreChange(work.req, Drop(meta, work.req.p), dirs)
    \/ ~ok /\ Refuse(work.req, "ServerError")

FinishGetForgetting(data) ==
    /\ pending_reads' = [pending_reads EXCEPT ![key(work.req)].next = @ + 1]
    /\ Reply(work.req, "Success", 0, data)

\* ... and of READ_CHUNK, once a replica has given the chunk.
FinishGet(data) ==
    LET req == work.req
        r == pending_reads[key(req)]
    IN  /\ pending_reads' = IF r.next + 1 = r.count THEN Drop(pending_reads, key(req))
                            ELSE [pending_reads EXCEPT ![key(req)].next = @ + 1]
        /\ Reply(req, "Success", 0, data)

LastOk(ok) == ok

\* Every replica asked so far has answered with Success.
AllOk(ok) == work.ok /\ ok

StillLeftIfOk(ok) == IF ok \/ work.kind = "GET" THEN Tail(work.left) ELSE << >>

\* The replicas still to be waited for: a failure does not end the loop.
StillLeft(ok) == Tail(work.left)

\* The replica waited for has answered (ok says how) or timed out.
Proceed(ok, data) ==
    LET rest == StillLeft(ok) IN
    \/ /\ work.kind \in {"PUT", "DELETE"} /\ rest # << >>
       /\ work' = [work EXCEPT !.left = rest, !.ok = AllOk(ok)]
       /\ UNCHANGED <<replies, store, tables, sid, inbox, faults>>
    \/ /\ work.kind = "PUT" /\ rest = << >>
       /\ FinishPut(AllOk(ok))
       /\ work' = Idle
       /\ UNCHANGED <<pending_reads, sid, inbox>>
    \/ /\ work.kind = "DELETE" /\ rest = << >>
       /\ FinishDelete(AllOk(ok))
       /\ work' = Idle
       /\ UNCHANGED <<tables, sid, inbox>>
    \/ /\ work.kind = "GET" /\ ok
       /\ FinishGet(data)
       /\ work' = Idle
       /\ UNCHANGED <<store, pending_writes, sid, inbox, faults>>
    \/ /\ work.kind = "GET" /\ ~ok
       /\ AskNext(work.req, rest)
       /\ UNCHANGED <<store, pending_writes, faults>>

\* The predicate of the worker's receive_if; it takes the oldest match.
Matches(a) ==
    /\ a.id = work.id /\ a.job = work.kind
    /\ work.kind # "DELETE" => a.i = work.req.x

\* pop_if takes the i-th message out of the queue.
Erased(q, i) == SubSeq(q, 1, i - 1) \o SubSeq(q, i + 1, Len(q))

WorkerReceive ==
    /\ work # Idle
    /\ LET s == Head(work.left)
           matching == {i \in 1..Len(answers[s]) : Matches(answers[s][i])}
       IN  \E i \in matching :
           LET a == answers[s][i] IN
           /\ \A j \in matching : i <= j
           /\ answers' = [answers EXCEPT ![s] = Erased(@, i)]
           /\ Proceed(a.status = "Success" /\ (a.job = "GET" => a.data # << >>), a.data)
    /\ UNCHANGED <<client, jobs, available, objects, node, timeouts, restarts, history>>

\* storage_request_timeout_ passes; at a time the answer can still come it
\* is premature.
WorkerTimeout ==
    /\ work # Idle
    /\ LET s == Head(work.left) IN
       /\ ~\E i \in 1..Len(answers[s]) : Matches(answers[s][i])
       /\ IF \E i \in 1..Len(inbox[s]) : inbox[s][i].id = work.id
          THEN Early ELSE UNCHANGED timeouts
    /\ Proceed(FALSE, << >>)
    /\ UNCHANGED <<client, jobs, available, objects, node, answers, restarts, history>>

-----------------------------------------------------------------------------
(* Storage nodes, their availability, and restarts *)

Outcomes(s, m) ==
    CASE m.job = "PUT" -> write_chunk(node[s], m.o, m.i, m.final, m.data[1])
      [] m.job = "DELETE" -> delete_object(node[s], m.o)
      [] m.job = "GET" -> get_chunk(node[s], m.o, m.i)

\* The disk failed, if there was anything to read or write.
DiskFailed(s, m, status) ==
    \/ status \in {"NoSpace", "WriteError"}
    \/ status = "ReadError" /\ node[s].objects[m.o] # Absent

StorageHandle(s) ==
    /\ inbox[s] # << >>
    /\ inbox' = [inbox EXCEPT ![s] = Tail(@)]
    /\ LET m == Head(inbox[s]) IN
       \E out \in Outcomes(s, m) :
          /\ node' = [node EXCEPT ![s] = out.node]
          /\ answers' = [answers EXCEPT ![s] = Append(@,
                [id |-> m.id, job |-> m.job, i |-> m.i, status |-> out.status,
                 data |-> IF m.job = "GET" THEN out.data ELSE << >>])]
          /\ IF DiskFailed(s, m, out.status) THEN Fault ELSE UNCHANGED faults
    /\ UNCHANGED <<clientVars, jobs, work, store, tables, available, sid, objects,
                   timeouts, restarts, history>>

\* The process dies and starts again, with the oldest requests lost and the
\* first of them perhaps carried out, but never answered.
StorageRestart(s) ==
    /\ Restart("storage")
    /\ \E k \in 0..Len(inbox[s]) :
       /\ inbox' = [inbox EXCEPT ![s] = SubSeq(@, k + 1, Len(@))]
       /\ \/ node' = [node EXCEPT ![s] = Restarted(@)]
          \/ /\ k > 0
             /\ \E out \in Outcomes(s, Head(inbox[s])) :
                   node' = [node EXCEPT ![s] = Restarted(out.node)]
    /\ UNCHANGED <<clientVars, jobs, work, store, tables, available, sid, objects,
                   answers, faults, timeouts, history>>

\* The metadata node starts again with nothing but the store.  The oldest
\* requests are lost with it; the responses of a storage node are lost or,
\* if they were still in its pending_frames_, arrive at the new process.
MetadataRestart ==
    /\ Restart("metadata")
    /\ work' = Idle /\ pending_writes' = << >> /\ pending_reads' = << >>
    /\ available' = {} /\ sid' = 0
    /\ \E k \in 0..Len(jobs) : jobs' = SubSeq(jobs, k + 1, Len(jobs))
    /\ \E S \in SUBSET Storage :
          answers' = [s \in Storage |-> IF s \in S THEN answers[s] ELSE << >>]
    /\ UNCHANGED <<clientVars, store, objects, node, inbox, faults, timeouts, history>>

\* A client starts again and counts its requests from 1; responses to the old
\* process that were still under way reach the new one.
ClientRestart(c) ==
    /\ Restart("client")
    /\ client' = [client EXCEPT ![c].id = 0, ![c].req = NoReq, ![c].result = None]
    /\ replies' \in {replies, [replies EXCEPT ![c] = {}]}
    /\ UNCHANGED <<jobs, work, store, tables, available, sid, objects, storageVars,
                   faults, timeouts, history>>

\* handle_heartbeat and check_heartbeat_timeouts run between two jobs.
HandleHeartbeat(s) ==
    /\ work = Idle /\ s \notin available
    /\ available' = available \cup {s}
    /\ UNCHANGED <<clientVars, jobs, work, store, tables, sid, objects, storageVars,
                   faults, timeouts, restarts, history>>

ExpireHeartbeat(s) ==
    /\ work = Idle /\ s \in available
    /\ Early
    /\ available' = available \ {s}
    /\ UNCHANGED <<clientVars, jobs, work, store, tables, sid, objects, storageVars,
                   faults, restarts, history>>

WorkerHandle ==
    \/ HandleCreateFile \/ HandleWriteFile \/ HandleWriteChunk \/ HandleReadFile
    \/ HandleReadChunk \/ HandleRemove \/ HandleRename \/ HandleMakeDir
    \/ HandleList \/ HandleStat

Next ==
    \/ \E c \in Client : Issue(c) \/ ClientReceive(c) \/ ClientTimeout(c) \/ ClientRestart(c)
    \/ WorkerHandle \/ WorkerReceive \/ WorkerTimeout
    \/ \E s \in Storage : \/ StorageHandle(s) \/ StorageRestart(s)
                          \/ HandleHeartbeat(s) \/ ExpireHeartbeat(s)
    \/ MetadataRestart

Spec == Init /\ [][Next]_vars

-----------------------------------------------------------------------------
(* Properties *)

\* An acknowledged write is on both replicas: until somebody starts to change
\* the path again, its metadata and both storage nodes hold every chunk of
\* that write, whatever timeouts, failed attempts, renames and restarts of
\* nodes came before it or come after it, and whatever messages of earlier
\* attempts are still under way.
AckedOnBothReplicas ==
    restarts.client = 0 => \A p \in Path : settled[p] # None =>
        /\ p \in DOMAIN meta /\ meta[p].size = settled[p][2]
        /\ settled[p][2] > 0 => \A i \in 1..2 :
              node[meta[p].replicas[i]].objects[meta[p].obj]
                = Stream(settled[p][1], settled[p][2])

\* A read of a path that nobody was changing returns exactly what the last
\* write stored, also when it fails over from one replica to the other, and
\* a stat or a listing shows a file, the stat with the size of that write.
\* A metadata node that starts again counts its storage requests from 1, a
\* client its requests, and either may take an old answer for a new one.
ReadsLastWrite ==
    restarts.metadata + restarts.client = 0 => \A c \in Client :
        LET r == client[c].result
            last == client[c].snap
        IN  r # None /\ last # None /\ settled[r.path] = last =>
                /\ "content" \in DOMAIN r => r.content = Stream(last[1], last[2])
                /\ "type" \in DOMAIN r => r.type = "FILE"
                /\ "size" \in DOMAIN r => r.size = last[2]

\* Storage is never leaked: an object with data on a storage node, in its
\* file or its temporary file or on the way there, belongs to a file.  A file
\* removed under its writer would leave data, so with several clients this
\* needs the check of pending_writes_ to work.
NoOrphans ==
    \A s \in Storage, o \in Object :
        (\/ node[s].objects[o] # Absent \/ node[s].tmp[o] # Absent
         \/ \E i \in 1..Len(inbox[s]) : inbox[s][i].job = "PUT" /\ inbox[s][i].o = o)
            => \E p \in DOMAIN meta : meta[p].obj = o /\ s \in {meta[p].replicas[1], meta[p].replicas[2]}

\* The same, as long as no request of a dead metadata node can still reach a
\* storage node.
NoOrphansOneEpoch == restarts.metadata = 0 => NoOrphans

\* A deletion that failed can be retried: an object that a storage node keeps,
\* with no DELETE of it still to come, has the metadata of a file that a
\* client can remove.
DeletionCanBeRetried ==
    \A s \in Storage, o \in Object :
        /\ node[s].objects[o] # Absent
        /\ ~\E i \in 1..Len(inbox[s]) : inbox[s][i].job = "DELETE" /\ inbox[s][i].o = o
        => \E p \in DOMAIN meta : meta[p].obj = o /\ s \in {meta[p].replicas[1], meta[p].replicas[2]}

\* A conversation that ended with an answer leaves nothing behind: each entry
\* of pending_writes_ and pending_reads_ belongs to the operation its client
\* is in, or there was a timeout, a local error or a restart that made a
\* client leave it.
NoStalePending ==
    Cardinality({k \in DOMAIN pending_writes \cup DOMAIN pending_reads :
                    client[k[1]].req = NoReq \/ client[k[1]].req.id # k[2]})
        <= timeouts + faults + restarts.client

\* Responses that nobody will take do not pile up in message_queue_: between
\* two jobs there is at most one, come or still to come, for each wait that
\* ended too early, and two for a request a dead metadata node had sent.
NoLeftoverAnswers ==
    work = Idle =>
        Cardinality(UNION {{s} \X (1..(Len(answers[s]) + Len(inbox[s]))) : s \in Storage})
            <= timeouts + 2 * restarts.metadata

\* object_id is the identity of a file: no two paths have the same.
ObjectIdentity ==
    \A p, q \in DOMAIN meta : meta[p].obj = meta[q].obj => p = q

\* A file is not removed while it is being written: no REMOVE deletes the
\* object of a pending write.  handle(RemoveRequest) looks for the string of
\* the path, so this needs clients that spell it in one way and no RENAME.
NotRemovedWhileWritten ==
    work # Idle /\ work.kind = "DELETE" =>
        \A k \in DOMAIN pending_writes : pending_writes[k].obj # meta[work.req.p].obj

\* Every handler answers, on every path through it, errors, timeouts and
\* dead storage nodes included: a client that waits long enough gets a
\* response to each request of its conversation.
EveryRequestAnswered ==
    \A c \in Client : client[c].req # NoReq ~> client[c].req = NoReq

\* The threads keep running: the worker takes and finishes jobs, a storage
\* node handles what it received, a client reads its responses.  Nothing is
\* assumed about client timeouts.
FairSpec ==
    /\ Spec
    /\ WF_vars(WorkerHandle) /\ WF_vars(WorkerReceive) /\ WF_vars(WorkerTimeout)
    /\ \A s \in Storage : WF_vars(StorageHandle(s))
    /\ \A c \in Client : WF_vars(ClientReceive(c))
=============================================================================
