------------------------ MODULE DistributedFSProofs ------------------------
(***************************************************************************)
(* Proofs about DistributedFS, for any clients, storage nodes and paths,   *)
(* all bounds and any mixture of faults, timeouts and restarts: its type   *)
(* invariant; that a file is not removed while it is written, where        *)
(* nothing is renamed and a path is spelled in one way; and that an object *)
(* id belongs to one path, where that is so or there is one client         *)
(* process.                                                                *)
(***************************************************************************)
EXTENDS DistributedFS, SequenceTheorems, TLAPS

WriteJobs == {"WRITE_FILE", "WRITE_CHUNK"}
JobNames == WriteJobs \cup {"CREATE_FILE", "READ_FILE", "READ_CHUNK", "REMOVE", "RENAME",
                            "MKDIR", "LIST", "STAT"}
Data == Seq(Chunk \cup {Torn})
Types == {"FILE", "DIRECTORY", "NONE"}

\* The requests that clients send: a write has a number.
Req == {r \in Requests : r.job \in WriteJobs => r.v >= 1}

Version == ((0..MaxWrites) \X (0..MaxChunks)) \cup {None}

Results == {None} \cup [path : Path, content : Data] \cup [path : Path, type : Types]
           \cup [path : Path, type : Types, size : 0..MaxChunks]

ClientState == [id : 0..MaxRequests, req : Req \cup {NoReq}, n : 0..MaxChunks, got : Data,
                snap : Version, result : Results]

Response == [id : 1..MaxRequests, job : JobNames, status : ClientStatus,
             x : 0..MaxChunks, type : Types, n : 0..MaxChunks, data : Data]

StorageJobs == {"PUT", "GET", "DELETE"}

Work == [kind : StorageJobs, req : Req, id : Nat, left : Seq(Storage) \ {<< >>}, ok : BOOLEAN]

StorageRequests ==
    {r \in [id : Nat, job : StorageJobs, o : Object, i : 0..MaxChunks, final : BOOLEAN,
            data : Seq(Chunk)] : r.job = "PUT" => r.data[1] \in Chunk}

Answer == [id : Nat, job : StorageJobs, i : 0..MaxChunks,
           status : {"Success", "InvalidRequest", "NoSpace", "WriteError", "ReadError"},
           data : Data]

ClientTyped == client \in [Client -> ClientState]
JobsTyped == jobs \in Seq(Req)
RepliesTyped == replies \in [Client -> SUBSET Response]

\* A file with content has replicas.
StoreOk(m, d) ==
    /\ DOMAIN m \subseteq Path /\ m \in [DOMAIN m -> Metadata]
    /\ d \subseteq Path \ DOMAIN m
    /\ \A p \in DOMAIN m : m[p].size # 0 => m[p].replicas # None

TableTyped(f) == DOMAIN f \subseteq Keys /\ f \in [DOMAIN f -> Pending]

WorkTyped ==
    /\ work \in Work \cup {Idle}
    /\ available \subseteq Storage /\ sid \in Nat /\ objects \in 0..MaxObjects

StorageTyped ==
    /\ node \in [Storage -> Node]
    /\ inbox \in [Storage -> Seq(StorageRequests)] /\ answers \in [Storage -> Seq(Answer)]

FaultsTyped == faults \in 0..MaxFaults

MishapsTyped ==
    /\ FaultsTyped /\ timeouts \in 0..MaxTimeouts
    /\ restarts \in [{"client", "metadata", "storage"} -> 0..MaxRestarts]

HistoryTyped ==
    /\ writes \in 0..MaxWrites /\ settled \in [Path -> Version]
    /\ doubt \in [Client -> SUBSET Path] /\ contested \subseteq Path

\* The handler that waits has the entry it waits for: the chunk of a write or
\* a read that comes next, or a file that nobody writes.
Awaited(f, req) ==
    key(req) \in DOMAIN f /\ f[key(req)].next = req.x /\ f[key(req)].next < f[key(req)].count

WaitInv ==
    work # Idle =>
        /\ work.kind = "PUT" => Awaited(pending_writes, work.req)
        /\ work.kind = "GET" => Awaited(pending_reads, work.req)
        /\ work.kind = "DELETE" => work.req.p \in DOMAIN meta /\ Unnoticed(work.req.p)

\* The type invariant in a form that every step preserves.
Typed ==
    /\ ClientTyped /\ JobsTyped /\ RepliesTyped /\ StoreOk(meta, dirs)
    /\ TableTyped(pending_writes) /\ TableTyped(pending_reads)
    /\ WorkTyped /\ StorageTyped /\ MishapsTyped /\ HistoryTyped
    /\ WaitInv

-----------------------------------------------------------------------------
(* The inductive invariant of object ids *)

Renaming == "RENAME" \in Jobs

\* The search of pending_writes_ for a path finds the writes of that file:
\* nothing renames, and all spell its path in one way.
Guarded == ~Renaming /\ ~Respelling

\* That is so, or the requests of all times come from one process.
OneProcess == (\E c \in Client : Client = {c}) /\ "client" \notin Restarting
Undisputed == Guarded \/ OneProcess

\* No object id in use is above the number of those generated.
ObjectsInv ==
    /\ \A p \in DOMAIN meta : meta[p].obj <= objects
    /\ \A k \in DOMAIN pending_writes : pending_writes[k].obj <= objects

\* The conversation k can still go on.
Underway(k) ==
    \/ \E i \in 1..Len(jobs) : key(jobs[i]) = k
    \/ work # Idle /\ key(work.req) = k
    \/ client[k[1]].req # NoReq /\ client[k[1]].req.id = k[2]

\* The object of a pending write that can go on, or of any that the search
\* finds, is that of the file at its path.
BoundAt(k) ==
    /\ pending_writes[k].path \in DOMAIN meta
    /\ meta[pending_writes[k].path].obj = pending_writes[k].obj

BoundInv == \A k \in DOMAIN pending_writes : Guarded \/ Underway(k) => BoundAt(k)

\* While the only process has a file removed, no pending write can go on.
RemovalInv ==
    OneProcess /\ work # Idle /\ work.kind = "DELETE" =>
        \A k \in DOMAIN pending_writes : ~Underway(k)

\* Only operations that are in use are in the queue.
JobsInv == \A i \in 1..Len(jobs) : jobs[i].job = "RENAME" => Renaming

\* The requests of one process are taken in the order of their ids, those with
\* the id of a pending write belong to that write, and it has no later id.
Related(a, b) == a.id = b.id => (a.job \in WriteJobs <=> b.job \in WriteJobs)

Ordered(id, req, q, pending) ==
    /\ req # NoReq => req.id = id
    /\ \A i \in 1..Len(q) :
        /\ q[i].id <= id
        /\ req # NoReq => Related(q[i], req)
        /\ \A j \in 1..Len(q) : i <= j => q[i].id <= q[j].id /\ Related(q[i], q[j])
    /\ \A k \in pending :
        /\ k[2] <= id
        /\ req # NoReq /\ k[2] = req.id => req.job \in WriteJobs
        /\ \A i \in 1..Len(q) : k[2] <= q[i].id /\ (k[2] = q[i].id => q[i].job \in WriteJobs)

OrderInv ==
    OneProcess => \A c \in Client :
        Ordered(client[c].id, client[c].req, jobs, DOMAIN pending_writes)

Ids == ObjectsInv /\ BoundInv /\ RemovalInv /\ JobsInv /\ OrderInv /\ ObjectIdentity

IdInv == Undisputed => Ids

\* The inductive invariant.
IInv == Typed /\ IdInv

-----------------------------------------------------------------------------
(* Values *)

\* The bounds are numbers.
LEMMA Bounds ==
    /\ MaxRequests \in Nat /\ MaxChunks \in Nat /\ MaxWrites \in Nat /\ MaxObjects \in Nat
    /\ MaxFaults \in Nat /\ MaxTimeouts \in Nat /\ MaxRestarts \in Nat /\ MaxMishaps \in Nat
BY BoundsAssumption

\* The parts of a request have their types.
LEMMA ReqFacts ==
    ASSUME NEW r \in Req
    PROVE  /\ r.c \in Client /\ r.id \in 1..MaxRequests /\ r.job \in JobNames
           /\ r.p \in Path /\ r.q \in Path /\ r.x \in 0..MaxChunks /\ r.v \in 0..MaxWrites
           /\ r.job \in WriteJobs => r.v >= 1
           /\ key(r) \in Keys /\ r \in Requests /\ r # NoReq
BY DEF Req, Requests, JobNames, WriteJobs, key, Keys, NoReq

\* Request makes a request.
LEMMA RequestTyped ==
    ASSUME NEW c \in Client, NEW id \in 1..MaxRequests, NEW job \in JobNames,
           NEW p \in Path, NEW q \in Path, NEW x \in 0..MaxChunks, NEW v \in 0..MaxWrites,
           job \in WriteJobs => v >= 1
    PROVE  Request(c, id, job, p, q, x, v) \in Req
BY DEF Request, Req, Requests, JobNames, WriteJobs

\* The parts of a client's state have their types.
LEMMA ClientFacts ==
    ASSUME ClientTyped, NEW c \in Client
    PROVE  /\ client[c].id \in 0..MaxRequests /\ client[c].req \in Req \cup {NoReq}
           /\ client[c].n \in 0..MaxChunks /\ client[c].got \in Data
           /\ client[c].snap \in Version /\ client[c].result \in Results
           /\ client[c] \in ClientState
BY DEF ClientTyped, ClientState

\* Entering something under a key.
LEMMA SetFacts ==
    ASSUME NEW f, NEW k, NEW v, NEW S, NEW T, DOMAIN f \subseteq S, f \in [DOMAIN f -> T],
           k \in S, v \in T
    PROVE  /\ DOMAIN Set(f, k, v) = DOMAIN f \cup {k} /\ DOMAIN Set(f, k, v) \subseteq S
           /\ Set(f, k, v) \in [DOMAIN Set(f, k, v) -> T]
           /\ Set(f, k, v)[k] = v
           /\ \A x \in DOMAIN f : x # k => Set(f, k, v)[x] = f[x]
BY DEF Set

\* Taking a key away.
LEMMA DropFacts ==
    ASSUME NEW f, NEW k, NEW S, NEW T, DOMAIN f \subseteq S, f \in [DOMAIN f -> T]
    PROVE  /\ DOMAIN Drop(f, k) = DOMAIN f \ {k} /\ DOMAIN Drop(f, k) \subseteq S
           /\ Drop(f, k) \in [DOMAIN Drop(f, k) -> T]
           /\ \A x \in DOMAIN f : x # k => Drop(f, k)[x] = f[x]
BY DEF Drop

\* A conversation is entered.
LEMMA TableSet ==
    ASSUME NEW f, TableTyped(f), NEW k \in Keys, NEW w \in Pending
    PROVE  /\ TableTyped(Set(f, k, w)) /\ DOMAIN Set(f, k, w) = DOMAIN f \cup {k}
           /\ Set(f, k, w)[k] = w /\ \A x \in DOMAIN f : x # k => Set(f, k, w)[x] = f[x]
<1>1. DOMAIN f \subseteq Keys /\ f \in [DOMAIN f -> Pending]
  BY DEF TableTyped
<1>2. /\ DOMAIN Set(f, k, w) \subseteq Keys /\ DOMAIN Set(f, k, w) = DOMAIN f \cup {k}
      /\ Set(f, k, w) \in [DOMAIN Set(f, k, w) -> Pending]
      /\ Set(f, k, w)[k] = w /\ \A x \in DOMAIN f : x # k => Set(f, k, w)[x] = f[x]
  BY <1>1, SetFacts
<1> QED BY <1>2 DEF TableTyped

\* A conversation is erased.
LEMMA TableDrop ==
    ASSUME NEW f, TableTyped(f), NEW k
    PROVE  TableTyped(Drop(f, k)) /\ DOMAIN Drop(f, k) = DOMAIN f \ {k}
           /\ \A x \in DOMAIN f : x # k => Drop(f, k)[x] = f[x]
<1>1. DOMAIN f \subseteq Keys /\ f \in [DOMAIN f -> Pending]
  BY DEF TableTyped
<1>2. /\ DOMAIN Drop(f, k) \subseteq Keys /\ DOMAIN Drop(f, k) = DOMAIN f \ {k}
      /\ Drop(f, k) \in [DOMAIN Drop(f, k) -> Pending]
      /\ \A x \in DOMAIN f : x # k => Drop(f, k)[x] = f[x]
  BY <1>1, DropFacts
<1> QED BY <1>2 DEF TableTyped

\* What an entry has.
LEMMA PendingFacts ==
    ASSUME NEW f, TableTyped(f), NEW k \in DOMAIN f
    PROVE  /\ f[k] \in Pending /\ k \in Keys
           /\ f[k].path \in Path /\ f[k].obj \in Object /\ f[k].count \in 1..MaxChunks
           /\ f[k].next \in 0..MaxChunks /\ f[k].replicas \in Pair
BY DEF TableTyped, Pending

\* A conversation goes on to its next chunk.
LEMMA TableNext ==
    ASSUME NEW f, TableTyped(f), NEW k \in DOMAIN f, f[k].next < f[k].count,
           NEW g, g = [f EXCEPT ![k].next = @ + 1]
    PROVE  /\ TableTyped(g) /\ DOMAIN g = DOMAIN f
           /\ \A x \in DOMAIN f : g[x].path = f[x].path /\ g[x].obj = f[x].obj
<1>1. f[k] \in Pending /\ f[k].count \in 1..MaxChunks /\ f[k].next \in 0..MaxChunks
  BY PendingFacts
<1>2. f[k].next + 1 \in 0..MaxChunks
  BY <1>1, Bounds
<1> DEFINE w == [f[k] EXCEPT !.next = f[k].next + 1]
<1>3. w \in Pending /\ w.path = f[k].path /\ w.obj = f[k].obj
  BY <1>1, <1>2 DEF Pending
<1>4. g = [f EXCEPT ![k] = w]
  OBVIOUS
<1> HIDE DEF w
<1> QED BY <1>3, <1>4 DEF TableTyped

\* What the metadata of a file has.
LEMMA MetaFacts ==
    ASSUME NEW m, NEW d, StoreOk(m, d), NEW p \in DOMAIN m
    PROVE  /\ p \in Path /\ m[p] \in Metadata /\ m[p].obj \in Object
           /\ m[p].size \in 0..MaxChunks /\ m[p].replicas \in Pair \cup {None}
           /\ m[p].size # 0 => m[p].replicas # None
BY DEF StoreOk, Metadata

\* A file is stored where there is no directory.
LEMMA StoreSet ==
    ASSUME NEW m, NEW d, StoreOk(m, d), NEW p \in Path, p \notin d, NEW w \in Metadata,
           w.size # 0 => w.replicas # None
    PROVE  StoreOk(Set(m, p, w), d)
<1>1. DOMAIN m \subseteq Path /\ m \in [DOMAIN m -> Metadata]
  BY DEF StoreOk
<1> DEFINE s == Set(m, p, w)
<1>2. /\ DOMAIN s = DOMAIN m \cup {p} /\ DOMAIN s \subseteq Path
      /\ s \in [DOMAIN s -> Metadata] /\ s[p] = w
      /\ \A x \in DOMAIN m : x # p => s[x] = m[x]
  BY <1>1, SetFacts
<1> HIDE DEF s
<1>3. StoreOk(s, d)
  BY <1>2 DEF StoreOk
<1> QED BY <1>3 DEF s

\* A file is removed.
LEMMA StoreDrop ==
    ASSUME NEW m, NEW d, StoreOk(m, d), NEW p
    PROVE  StoreOk(Drop(m, p), d) /\ DOMAIN Drop(m, p) = DOMAIN m \ {p}
           /\ \A x \in DOMAIN m : x # p => Drop(m, p)[x] = m[x]
<1>1. DOMAIN m \subseteq Path /\ m \in [DOMAIN m -> Metadata]
  BY DEF StoreOk
<1> DEFINE s == Drop(m, p)
<1>2. /\ DOMAIN s = DOMAIN m \ {p} /\ DOMAIN s \subseteq Path
      /\ s \in [DOMAIN s -> Metadata]
      /\ \A x \in DOMAIN m : x # p => s[x] = m[x]
  BY <1>1, DropFacts
<1> HIDE DEF s
<1>3. StoreOk(s, d)
  BY <1>2 DEF StoreOk
<1> QED BY <1>2, <1>3 DEF s

\* A fault is counted.
LEMMA FaultTyped == ASSUME FaultsTyped, Fault PROVE FaultsTyped'
BY Bounds DEF FaultsTyped, Fault

\* A premature timeout is counted.
LEMMA EarlyTyped ==
    ASSUME timeouts \in 0..MaxTimeouts, Early PROVE timeouts' \in 0..MaxTimeouts
BY Bounds DEF Early

\* A restart is counted.
LEMMA RestartTyped ==
    ASSUME MishapsTyped, NEW kind, Restart(kind)
    PROVE  restarts' \in [{"client", "metadata", "storage"} -> 0..MaxRestarts]
<1> DEFINE K == {"client", "metadata", "storage"}
<1>1. kind \in K
  BY KindsAssumption DEF Restart
<1>2. restarts \in [K -> 0..MaxRestarts]
  BY DEF MishapsTyped
<1>3. restarts[kind] + 1 \in 0..MaxRestarts
  <2>1. restarts["client"] \in 0..MaxRestarts /\ restarts["metadata"] \in 0..MaxRestarts
        /\ restarts["storage"] \in 0..MaxRestarts
    BY <1>2
  <2>2. restarts["client"] + restarts["metadata"] + restarts["storage"] < MaxRestarts
    BY DEF Restart, AllRestarts
  <2> QED BY <1>1, <2>1, <2>2, Bounds
<1>4. restarts' = [restarts EXCEPT ![kind] = restarts[kind] + 1]
  BY DEF Restart
<1> QED BY <1>2, <1>3, <1>4

\* A response is sent.
LEMMA SendTyped ==
    ASSUME RepliesTyped, NEW req \in Req, NEW status \in ClientStatus, NEW type \in Types,
           NEW n \in 0..MaxChunks, NEW data \in Data, Send(req, status, type, n, data)
    PROVE  RepliesTyped'
<1> DEFINE x == IF req.job \in ChunkJobs THEN req.x ELSE 0
           m == [id |-> req.id, job |-> req.job, status |-> status, x |-> x,
                 type |-> type, n |-> n, data |-> data]
<1>1. x \in 0..MaxChunks
  BY ReqFacts, Bounds
<1>2. m \in Response
  BY <1>1, ReqFacts DEF Response
<1>3. replies' = [replies EXCEPT ![req.c] = @ \cup {m}]
  BY DEF Send
<1> HIDE DEF m
<1> QED BY <1>2, <1>3, ReqFacts DEF RepliesTyped

\* No data is data.
LEMMA EmptyData == << >> \in Data
BY DEF Data

\* A response without a type is sent.
LEMMA ReplyTyped ==
    ASSUME RepliesTyped, NEW req \in Req, NEW status \in ClientStatus,
           NEW n \in 0..MaxChunks, NEW data \in Data, Reply(req, status, n, data)
    PROVE  RepliesTyped'
BY SendTyped DEF Reply, Types

\* A response without data is sent.
LEMMA RespondTyped ==
    ASSUME RepliesTyped, NEW req \in Req, NEW status \in ClientStatus, respond(req, status)
    PROVE  RepliesTyped'
<1>1. 0 \in 0..MaxChunks
  BY Bounds
<1> QED BY <1>1, ReplyTyped, EmptyData DEF respond

\* What the handlers change: the files, the responses, the faults.
Served == StoreOk(meta, dirs) /\ RepliesTyped /\ FaultsTyped

\* A refusal changes no file.
LEMMA RefuseTyped ==
    ASSUME Served, NEW req \in Req, NEW status \in ClientStatus, Refuse(req, status)
    PROVE  Served' /\ meta' = meta /\ dirs' = dirs
<1>1. RepliesTyped'
  BY RespondTyped DEF Served, Refuse
<1> QED BY <1>1 DEF Served, Refuse, FaultsTyped, store

\* A change of the store is made, or fails and changes no file.
LEMMA ChangeTyped ==
    ASSUME Served, NEW req \in Req, NEW f, NEW d, StoreOk(f, d), StoreChange(req, f, d)
    PROVE  Served' /\ ((meta' = f /\ dirs' = d) \/ (meta' = meta /\ dirs' = dirs))
<1>1. "Success" \in ClientStatus /\ "ServerError" \in ClientStatus
  BY DEF ClientStatus
<1>2. CASE meta' = f /\ dirs' = d /\ respond(req, "Success") /\ UNCHANGED faults
  <2>1. RepliesTyped'
    BY <1>1, <1>2, RespondTyped DEF Served
  <2> QED BY <1>2, <2>1 DEF Served, FaultsTyped
<1>3. CASE Fault /\ respond(req, "ServerError") /\ UNCHANGED store
  <2>1. RepliesTyped' /\ FaultsTyped'
    BY <1>1, <1>3, RespondTyped, FaultTyped DEF Served
  <2> QED BY <1>3, <2>1 DEF Served, store
<1> QED BY <1>2, <1>3 DEF StoreChange

-----------------------------------------------------------------------------
(* The outcomes of storage requests *)

\* The temporary file of an object is replaced.
LEMMA TmpTyped ==
    ASSUME NEW n \in Node, NEW o \in Object, NEW f \in StoredFile
    PROVE  WithTmp(n, o, f) \in Node
BY DEF Node, WithTmp

\* The expected chunk of an object is set.
LEMMA NextTyped ==
    ASSUME NEW n \in Node, NEW o \in Object, NEW k \in Nat \cup {Absent}
    PROVE  WithNext(n, o, k) \in Node
BY DEF Node, WithNext

\* A node starts again.
LEMMA RestartedTyped == ASSUME NEW n \in Node PROVE Restarted(n) \in Node
BY DEF Node, Restarted

\* abort_write gives nodes.
LEMMA AbortTyped ==
    ASSUME NEW n \in Node, NEW o \in Object
    PROVE  abort_write(n, o) \subseteq Node
BY TmpTyped DEF abort_write, StoredFile

\* A chunk is written to the temporary file.
LEMMA WrittenTyped ==
    ASSUME NEW n \in Node, NEW o \in Object, NEW i \in Nat, NEW c \in Chunk \cup {Torn}
    PROVE  Written(n, o, i, c) \in StoredFile
<1>1. << c >> \in Seq(Chunk \cup {Torn})
  OBVIOUS
<1>2. CASE i # 0 /\ n.tmp[o] # Absent
  <2>1. n.tmp[o] \in Seq(Chunk \cup {Torn})
    BY <1>2 DEF Node, StoredFile
  <2> QED BY <1>2, <2>1, AppendProperties DEF Written, StoredFile
<1> QED BY <1>1, <1>2 DEF Written, StoredFile

\* The object is complete.
LEMMA FinishedTyped ==
    ASSUME NEW n \in Node, NEW o \in Object
    PROVE  Finished(n, o) \in Node
<1>1. n.tmp[o] \in StoredFile /\ Absent \in StoredFile /\ Absent \in Nat \cup {Absent}
  BY DEF Node, StoredFile
<1> QED BY <1>1 DEF Node, Finished

\* A PUT leads to a node and a status.
LEMMA PutTyped ==
    ASSUME NEW n \in Node, NEW o \in Object, NEW i \in Nat, NEW final \in BOOLEAN,
           NEW c \in Chunk, NEW out \in write_chunk(n, o, i, final, c)
    PROVE  /\ out.node \in Node
           /\ out.status \in {"Success", "InvalidRequest", "NoSpace", "WriteError"}
<1> DEFINE m == IF i = 0 THEN WithNext(n, o, 0) ELSE n
           broken == WithTmp(m, o, Written(m, o, i, Torn))
           w1 == WithTmp(m, o, Written(m, o, i, c))
           w == WithNext(w1, o, i + 1)
           Failing(nodes, status) == {[node |-> x, status |-> status] : x \in nodes}
<1>1. m \in Node
  BY NextTyped
<1>2. broken \in Node
  BY <1>1, WrittenTyped, TmpTyped
<1>3. w1 \in Node
  BY <1>1, WrittenTyped, TmpTyped
<1>4. w \in Node
  BY <1>3, NextTyped
<1>5. Finished(w, o) \in Node
  BY <1>4, FinishedTyped
<1>6. abort_write(m, o) \subseteq Node /\ abort_write(broken, o) \subseteq Node
      /\ abort_write(w, o) \subseteq Node
  BY <1>1, <1>2, <1>4, AbortTyped
<1>7. \/ out \in Failing(abort_write(m, o), "InvalidRequest")
      \/ out \in Failing(abort_write(m, o), "NoSpace")
      \/ out \in Failing(abort_write(m, o) \cup abort_write(broken, o), "WriteError")
      \/ out \in Failing(abort_write(w, o), "WriteError")
      \/ out = [node |-> Finished(w, o), status |-> "Success"]
      \/ out = [node |-> w, status |-> "Success"]
  BY DEF write_chunk
<1> HIDE DEF m, broken, w1, w
<1>8. ASSUME NEW N \in SUBSET Node, NEW st, out \in Failing(N, st)
      PROVE  out.node \in Node /\ out.status = st
  BY <1>8
<1> QED BY <1>4, <1>5, <1>6, <1>7, <1>8

\* A DELETE leads to a node and a status.
LEMMA DeleteTyped ==
    ASSUME NEW n \in Node, NEW o \in Object, NEW out \in delete_object(n, o)
    PROVE  out.node \in Node /\ out.status \in {"Success", "WriteError"}
<1> DEFINE gone == [objects |-> [n.objects EXCEPT ![o] = Absent],
                    tmp |-> n.tmp, next_chunks |-> n.next_chunks]
<1>1. gone \in Node
  BY DEF Node, StoredFile
<1>2. Absent \in StoredFile /\ Absent \in Nat \cup {Absent}
  BY DEF StoredFile
<1>3. WithNext(WithTmp(gone, o, Absent), o, Absent) \in Node
  BY <1>1, <1>2, TmpTyped, NextTyped
<1>4. \/ out = [node |-> n, status |-> "WriteError"]
      \/ out = [node |-> gone, status |-> "WriteError"]
      \/ out = [node |-> WithNext(WithTmp(gone, o, Absent), o, Absent), status |-> "Success"]
  BY DEF delete_object
<1> HIDE DEF gone
<1> QED BY <1>1, <1>3, <1>4

\* A GET leaves the node alone and leads to a status and data.
LEMMA GetTyped ==
    ASSUME NEW n \in Node, NEW o \in Object, NEW i \in Nat, NEW out \in get_chunk(n, o, i)
    PROVE  /\ out.node = n /\ out.data \in Data
           /\ out.status \in {"Success", "InvalidRequest", "ReadError"}
<1> DEFINE file == n.objects[o]
           Answered(status, data) == [node |-> n, status |-> status, data |-> data]
           part == SubSeq(file, i + 1, IF i < Len(file) THEN i + 1 ELSE i)
<1>1. \/ out = Answered("ReadError", << >>)
      \/ out = Answered("InvalidRequest", << >>)
      \/ file # Absent /\ ~(i > Len(file)) /\ out = Answered("Success", part)
  BY DEF get_chunk
<1>2. ASSUME file # Absent, ~(i > Len(file)) PROVE part \in Data
  <2>1. file \in Seq(Chunk \cup {Torn})
    BY <1>2 DEF Node, StoredFile
  <2>2. Len(file) \in Nat
    BY <2>1, LenProperties
  <2> DEFINE j == IF i < Len(file) THEN i + 1 ELSE i
  <2>3. j \in 0..Len(file) /\ i + 1 \in 1..(Len(file) + 1)
    BY <1>2, <2>2
  <2>4. SubSeq(file, i + 1, j) \in Seq(Chunk \cup {Torn})
    BY <2>1, <2>2, <2>3, SubSeqProperties
  <2> QED BY <2>4 DEF Data
<1> HIDE DEF part
<1> QED BY <1>1, <1>2, EmptyData

\* A request leads to a node, a status and, for a GET, data.
LEMMA OutcomeTyped ==
    ASSUME StorageTyped, NEW s \in Storage, NEW m \in StorageRequests, NEW out \in Outcomes(s, m)
    PROVE  /\ out.node \in Node /\ (m.job = "GET" => out.data \in Data)
           /\ out.status \in {"Success", "InvalidRequest", "NoSpace", "WriteError", "ReadError"}
<1>1. /\ m.job \in StorageJobs /\ m.o \in Object /\ m.i \in Nat /\ m.final \in BOOLEAN
      /\ m.job = "PUT" => m.data[1] \in Chunk
  BY Bounds DEF StorageRequests
<1>2. node[s] \in Node
  BY DEF StorageTyped
<1>3. CASE m.job = "PUT"
  <2>1. out \in write_chunk(node[s], m.o, m.i, m.final, m.data[1])
    BY <1>3 DEF Outcomes
  <2> QED BY <1>1, <1>2, <1>3, <2>1, PutTyped
<1>4. CASE m.job = "DELETE"
  <2>1. out \in delete_object(node[s], m.o)
    BY <1>4 DEF Outcomes
  <2> QED BY <1>1, <1>2, <1>4, <2>1, DeleteTyped
<1>5. CASE m.job = "GET"
  <2>1. out \in get_chunk(node[s], m.o, m.i)
    BY <1>5 DEF Outcomes
  <2> QED BY <1>1, <1>2, <1>5, <2>1, GetTyped
<1> QED BY <1>1, <1>3, <1>4, <1>5 DEF StorageJobs

-----------------------------------------------------------------------------
(* Types: storage nodes, heartbeats and restarts *)

\* Nothing of the metadata node and of the clients changes.
LEMMA StorageFrame ==
    ASSUME Typed, StorageTyped', MishapsTyped',
           UNCHANGED <<clientVars, jobs, work, store, tables, available, sid, objects, history>>
    PROVE  Typed'
BY DEF Typed, ClientTyped, JobsTyped, RepliesTyped, StoreOk, TableTyped, WorkTyped, HistoryTyped,
       WaitInv, Awaited, Unnoticed, BeingWritten, key, clientVars, store, tables, history

\* A storage node handles a request.
LEMMA StorageHandleTyped ==
    ASSUME Typed, NEW s \in Storage, StorageHandle(s)
    PROVE  Typed'
<1> DEFINE m == Head(inbox[s])
<1>0. /\ inbox \in [Storage -> Seq(StorageRequests)] /\ answers \in [Storage -> Seq(Answer)]
      /\ node \in [Storage -> Node] /\ StorageTyped /\ MishapsTyped
  BY DEF Typed, StorageTyped
<1>1. m \in StorageRequests /\ Tail(inbox[s]) \in Seq(StorageRequests)
  BY <1>0, HeadTailProperties DEF StorageHandle
<1>2. PICK out \in Outcomes(s, m) :
        /\ node' = [node EXCEPT ![s] = out.node]
        /\ answers' = [answers EXCEPT ![s] = Append(@,
              [id |-> m.id, job |-> m.job, i |-> m.i, status |-> out.status,
               data |-> IF m.job = "GET" THEN out.data ELSE << >>])]
        /\ IF DiskFailed(s, m, out.status) THEN Fault ELSE UNCHANGED faults
  BY DEF StorageHandle
<1>3. /\ out.node \in Node /\ (m.job = "GET" => out.data \in Data)
      /\ out.status \in {"Success", "InvalidRequest", "NoSpace", "WriteError", "ReadError"}
  BY <1>0, <1>1, OutcomeTyped
<1> DEFINE d == IF m.job = "GET" THEN out.data ELSE << >>
           a == [id |-> m.id, job |-> m.job, i |-> m.i, status |-> out.status, data |-> d]
<1>4. m.id \in Nat /\ m.job \in StorageJobs /\ m.i \in 0..MaxChunks
  BY <1>1 DEF StorageRequests
<1>5. d \in Data
  BY <1>3, EmptyData
<1>6. a \in Answer
  BY <1>3, <1>4, <1>5 DEF Answer
<1>7. Append(answers[s], a) \in Seq(Answer)
  BY <1>0, <1>6, AppendProperties
<1>8. answers' = [answers EXCEPT ![s] = Append(answers[s], a)]
  BY <1>2
<1>9. inbox' = [inbox EXCEPT ![s] = Tail(inbox[s])]
  BY DEF StorageHandle
<1> HIDE DEF a, d
<1>10. StorageTyped'
  BY <1>0, <1>1, <1>2, <1>3, <1>7, <1>8, <1>9 DEF StorageTyped
<1>11. MishapsTyped'
  <2>1. FaultsTyped'
    BY <1>0, <1>2, FaultTyped DEF MishapsTyped, FaultsTyped
  <2> QED BY <1>0, <2>1 DEF MishapsTyped, StorageHandle
<1> QED BY <1>10, <1>11, StorageFrame DEF StorageHandle

\* A storage node starts again.
LEMMA StorageRestartTyped ==
    ASSUME Typed, NEW s \in Storage, StorageRestart(s)
    PROVE  Typed'
<1>0. /\ inbox \in [Storage -> Seq(StorageRequests)] /\ answers \in [Storage -> Seq(Answer)]
      /\ node \in [Storage -> Node] /\ StorageTyped /\ MishapsTyped
  BY DEF Typed, StorageTyped
<1>1. PICK k \in 0..Len(inbox[s]) :
       /\ inbox' = [inbox EXCEPT ![s] = SubSeq(inbox[s], k + 1, Len(inbox[s]))]
       /\ \/ node' = [node EXCEPT ![s] = Restarted(node[s])]
          \/ /\ k > 0
             /\ \E out \in Outcomes(s, Head(inbox[s])) :
                   node' = [node EXCEPT ![s] = Restarted(out.node)]
  BY DEF StorageRestart
<1>2. inbox[s] \in Seq(StorageRequests) /\ Len(inbox[s]) \in Nat
  BY <1>0, LenProperties
<1>3. SubSeq(inbox[s], k + 1, Len(inbox[s])) \in Seq(StorageRequests)
  BY <1>2, SubSeqProperties
<1>4. inbox' \in [Storage -> Seq(StorageRequests)]
  BY <1>0, <1>1, <1>3
<1>5. node' \in [Storage -> Node]
  <2>1. CASE node' = [node EXCEPT ![s] = Restarted(node[s])]
    BY <1>0, <2>1, RestartedTyped
  <2>2. CASE k > 0 /\ \E out \in Outcomes(s, Head(inbox[s])) :
                         node' = [node EXCEPT ![s] = Restarted(out.node)]
    <3>1. PICK out \in Outcomes(s, Head(inbox[s])) :
             node' = [node EXCEPT ![s] = Restarted(out.node)]
      BY <2>2
    <3>2. Head(inbox[s]) \in StorageRequests
      BY <1>2, <2>2, HeadTailProperties, EmptySeq
    <3>3. out.node \in Node
      BY <1>0, <3>2, OutcomeTyped
    <3>4. Restarted(out.node) \in Node
      BY <3>3, RestartedTyped
    <3> QED BY <1>0, <3>1, <3>4
  <2> QED BY <1>1, <2>1, <2>2
<1>6. StorageTyped'
  BY <1>0, <1>4, <1>5 DEF StorageTyped, StorageRestart
<1>7. MishapsTyped'
  BY <1>0, RestartTyped DEF MishapsTyped, StorageRestart, FaultsTyped
<1> QED BY <1>6, <1>7, StorageFrame DEF StorageRestart

\* The metadata node starts again.
LEMMA MetadataRestartTyped == ASSUME Typed, MetadataRestart PROVE Typed'
<1>0. /\ jobs \in Seq(Req) /\ Len(jobs) \in Nat /\ MishapsTyped /\ StorageTyped
  BY LenProperties DEF Typed, JobsTyped
<1>1. JobsTyped'
  <2>1. PICK k \in 0..Len(jobs) : jobs' = SubSeq(jobs, k + 1, Len(jobs))
    BY DEF MetadataRestart
  <2>2. SubSeq(jobs, k + 1, Len(jobs)) \in Seq(Req)
    BY <1>0, SubSeqProperties
  <2> QED BY <2>1, <2>2 DEF JobsTyped
<1>2. StorageTyped'
  BY <1>0, EmptySeq DEF StorageTyped, MetadataRestart
<1>3. TableTyped(pending_writes') /\ TableTyped(pending_reads')
  BY DEF MetadataRestart, TableTyped
<1>4. MishapsTyped'
  BY <1>0, RestartTyped DEF MishapsTyped, MetadataRestart, FaultsTyped
<1>5. WorkTyped' /\ WaitInv'
  BY DEF MetadataRestart, WorkTyped, WaitInv, Typed
<1>6. ClientTyped' /\ RepliesTyped' /\ StoreOk(meta, dirs)' /\ HistoryTyped'
  BY DEF MetadataRestart, Typed, ClientTyped, RepliesTyped, StoreOk, HistoryTyped, clientVars,
         store, history
<1> QED BY <1>1, <1>2, <1>3, <1>4, <1>5, <1>6 DEF Typed

\* A storage node becomes available, or is given up.
LEMMA HeartbeatTyped ==
    ASSUME Typed, NEW s \in Storage, HandleHeartbeat(s) \/ ExpireHeartbeat(s)
    PROVE  Typed'
<1>1. MishapsTyped /\ timeouts \in 0..MaxTimeouts
  BY DEF Typed, MishapsTyped
<1>2. MishapsTyped'
  <2>1. CASE HandleHeartbeat(s)
    BY <1>1, <2>1 DEF HandleHeartbeat, MishapsTyped, FaultsTyped
  <2>2. CASE ExpireHeartbeat(s)
    BY <1>1, <2>2, EarlyTyped DEF ExpireHeartbeat, MishapsTyped, FaultsTyped
  <2> QED BY <2>1, <2>2
<1>3. /\ UNCHANGED <<clientVars, jobs, work, store, tables, sid, objects, storageVars, history>>
      /\ available' \subseteq available \cup {s}
  BY DEF HandleHeartbeat, ExpireHeartbeat
<1>4. WorkTyped'
  BY <1>3 DEF Typed, WorkTyped
<1>5. StorageTyped'
  BY <1>3 DEF Typed, StorageTyped, storageVars
<1> QED BY <1>2, <1>3, <1>4, <1>5 DEF Typed, ClientTyped, JobsTyped, RepliesTyped, StoreOk,
       TableTyped, HistoryTyped, WaitInv, Awaited, Unnoticed, BeingWritten, key, clientVars, store, tables, history

-----------------------------------------------------------------------------
(* Types: clients *)

\* Nothing but the clients, the queues between them and the metadata node,
\* the mishaps and the history changes.
LEMMA ClientFrame ==
    ASSUME Typed, ClientTyped', JobsTyped', RepliesTyped', MishapsTyped', HistoryTyped',
           UNCHANGED <<work, store, tables, available, sid, objects, storageVars>>
    PROVE  Typed'
BY DEF Typed, StoreOk, TableTyped, WorkTyped, StorageTyped,
       WaitInv, Awaited, Unnoticed, BeingWritten, key, store, tables, storageVars

\* A client begins an operation.
LEMMA BeginTyped ==
    ASSUME Typed, NEW c \in Client, NEW job \in Jobs, NEW p \in Path, NEW q \in Path,
           NEW n \in 0..MaxChunks, Begin(c, job, p, q, n)
    PROVE  Typed'
<1> DEFINE v == IF job = "WRITE_FILE" THEN writes + 1 ELSE 0
           req == Request(c, client[c].id + 1, job, p, q, n, v)
<1>1. client[c].id < MaxRequests /\ (job = "WRITE_FILE" => writes < MaxWrites)
      /\ writes' = (IF job = "WRITE_FILE" THEN v ELSE writes) /\ jobs' = Append(jobs, req)
  BY DEF Begin
<1>2. ClientTyped /\ client[c].id \in 0..MaxRequests /\ HistoryTyped /\ writes \in 0..MaxWrites
  BY ClientFacts DEF Typed, HistoryTyped
<1>3. v \in 0..MaxWrites /\ client[c].id + 1 \in 1..MaxRequests
      /\ writes' \in 0..MaxWrites /\ (job = "WRITE_FILE" => v >= 1)
  <2>1. client[c].id + 1 \in 1..MaxRequests
    BY <1>1, <1>2, Bounds
  <2>2. CASE job = "WRITE_FILE"
    BY <1>1, <1>2, <2>1, <2>2, Bounds
  <2>3. CASE job # "WRITE_FILE"
    BY <1>1, <1>2, <2>1, <2>3, Bounds
  <2> QED BY <2>2, <2>3
<1>4. job \in JobNames /\ job # "WRITE_CHUNK"
  BY JobsAssumption DEF JobNames, WriteJobs
<1> HIDE DEF v
<1>5. req \in Req /\ req.id = client[c].id + 1
  <2>1. job \in WriteJobs => v >= 1
    BY <1>3, <1>4 DEF WriteJobs
  <2>2. req \in Req
    BY <1>3, <1>4, <2>1, RequestTyped
  <2> QED BY <2>2 DEF Request
<1>6. client' = [d \in Client |->
              IF d = c
              THEN [id |-> req.id, req |-> req, n |-> n, got |-> << >>,
                    snap |-> settled[p], result |-> None]
              ELSE [client[d] EXCEPT !.snap = IF Disturbs(req, client[d].req) THEN None ELSE @]]
  BY DEF Begin, v
<1> HIDE DEF req
<1>7. ClientTyped'
  <2>1. [id |-> req.id, req |-> req, n |-> n, got |-> << >>, snap |-> settled[p], result |-> None]
          \in ClientState
    BY <1>2, <1>3, <1>5, EmptyData DEF ClientState, HistoryTyped, Results
  <2>2. ASSUME NEW d \in Client
        PROVE  [client[d] EXCEPT !.snap = IF Disturbs(req, client[d].req) THEN None ELSE @]
                 \in ClientState
    <3>1. client[d] \in ClientState /\ None \in Version
      BY <1>2, ClientFacts DEF Version
    <3> QED BY <3>1 DEF ClientState
  <2> QED BY <1>6, <2>1, <2>2 DEF ClientTyped
<1>8. JobsTyped'
  BY <1>1, <1>5, AppendProperties DEF Typed, JobsTyped
<1>9. HistoryTyped'
  <2>1. None \in Version
    BY DEF Version
  <2>2. settled' \in [Path -> Version]
    BY <1>2, <2>1 DEF HistoryTyped, Begin
  <2>3. doubt' \in [Client -> SUBSET Path]
    BY <1>2 DEF HistoryTyped, Begin
  <2>4. contested' \subseteq Path
    BY <1>2 DEF HistoryTyped, Begin
  <2> QED BY <1>3, <2>2, <2>3, <2>4 DEF HistoryTyped
<1>10. MishapsTyped' /\ RepliesTyped'
  BY DEF Typed, MishapsTyped, FaultsTyped, RepliesTyped, Begin
<1>11. UNCHANGED <<work, store, tables, available, sid, objects, storageVars>>
  BY DEF Begin
<1> QED BY <1>7, <1>8, <1>9, <1>10, <1>11, ClientFrame

\* The operations a client can begin.
LEMMA IssueCases ==
    ASSUME NEW c \in Client, Issue(c)
    PROVE  \E job \in Jobs, p, q \in Path, n \in 0..MaxChunks : Begin(c, job, p, q, n)
<1>1. 0 \in 0..MaxChunks
  BY Bounds
<1> QED BY <1>1 DEF Issue

\* A client begins one of its operations.
LEMMA IssueTyped == ASSUME Typed, NEW c \in Client, Issue(c) PROVE Typed'
BY IssueCases, BeginTyped

\* The outcome of an operation is known.
LEMMA ConcludeTyped ==
    ASSUME ClientTyped, HistoryTyped, NEW c \in Client, NEW ok, Conclude(c, ok),
           client[c].req \in Req, writes' = writes
    PROVE  HistoryTyped'
<1> DEFINE req == client[c].req
<1>1. req.p \in Path /\ req.q \in Path /\ req.v \in 0..MaxWrites
  BY ReqFacts
<1>2. client[c].n \in 0..MaxChunks /\ client[c].snap \in Version
  BY ClientFacts
<1>3. <<req.v, client[c].n>> \in Version
  BY <1>1, <1>2 DEF Version
<1> DEFINE w == <<req.v, client[c].n>>
<1>4. \/ settled' = settled
      \/ settled' = [settled EXCEPT ![req.p] = w]
      \/ settled' = [settled EXCEPT ![req.q] = client[c].snap]
  BY DEF Conclude
<1> HIDE DEF w
<1>5. settled' \in [Path -> Version]
  BY <1>1, <1>2, <1>3, <1>4 DEF HistoryTyped, w
<1>6. doubt' \in [Client -> SUBSET Path] /\ contested' \subseteq Path
  BY DEF HistoryTyped, Conclude
<1> QED BY <1>5, <1>6 DEF HistoryTyped

\* A client leaves its operation.
LEMMA LeaveTyped ==
    ASSUME ClientTyped, NEW c \in Client, client' = [client EXCEPT ![c].req = NoReq]
    PROVE  ClientTyped'
<1>1. [client[c] EXCEPT !.req = NoReq] \in ClientState
  BY ClientFacts DEF ClientState
<1> QED BY <1>1 DEF ClientTyped

\* What a caller is given.
LEMMA ResultTyped ==
    ASSUME NEW req \in Req, NEW m \in Response, NEW got \in Data
    PROVE  Result(req, m, got) \in Results
<1>1. req.p \in Path /\ m.type \in Types /\ m.n \in 0..MaxChunks
  BY ReqFacts DEF Response
<1> QED BY <1>1 DEF Result, Results

\* A client goes on with the response m.
LEMMA SuccessTyped ==
    ASSUME Typed, NEW c \in Client, client[c].req \in Req, NEW m \in Response,
           ReceiveSuccess(c, m), writes' = writes
    PROVE  ClientTyped' /\ JobsTyped' /\ HistoryTyped' /\ FaultsTyped'
<1> DEFINE req == client[c].req
           got == client[c].got \o m.data
           i == IF req.job \in ChunkJobs THEN req.x + 1 ELSE 0
           n == IF req.job = "READ_FILE" THEN m.n ELSE client[c].n
           job == IF req.job \in {"WRITE_FILE", "WRITE_CHUNK"} THEN "WRITE_CHUNK"
                  ELSE "READ_CHUNK"
           next == Request(c, req.id, job, req.p, req.q, i, req.v)
<1>0. ClientTyped /\ HistoryTyped /\ JobsTyped /\ FaultsTyped
  BY DEF Typed, MishapsTyped
<1>1. /\ req.id \in 1..MaxRequests /\ req.p \in Path /\ req.q \in Path
      /\ req.x \in 0..MaxChunks /\ req.v \in 0..MaxWrites /\ (req.job \in WriteJobs => req.v >= 1)
  BY ReqFacts
<1>2. got \in Data
  <2>1. client[c].got \in Seq(Chunk \cup {Torn}) /\ m.data \in Seq(Chunk \cup {Torn})
    BY <1>0, ClientFacts DEF Data, Response
  <2> QED BY <2>1, ConcatProperties DEF Data
<1>3. n \in 0..MaxChunks
  BY <1>0, ClientFacts DEF Response
<1>4. CASE /\ req.job \in {"WRITE_FILE", "READ_FILE"} \cup ChunkJobs /\ i < n
           /\ jobs' = Append(jobs, next)
           /\ client' = [client EXCEPT ![c].req = next, ![c].got = got, ![c].n = n]
           /\ UNCHANGED <<settled, doubt, contested, faults>>
  <2>1. i \in 0..MaxChunks
    <3>1. i \in Nat
      BY <1>1, Bounds
    <3>2. i < n
      BY <1>4
    <3> HIDE DEF i, n
    <3> QED BY <1>3, <3>1, <3>2, Bounds
  <2>2. job \in JobNames /\ (job \in WriteJobs => req.v >= 1)
    BY <1>1 DEF JobNames, WriteJobs
  <2> HIDE DEF i, n, got, job
  <2>3. next \in Req
    BY <1>1, <2>1, <2>2, RequestTyped
  <2> HIDE DEF next
  <2>4. [client[c] EXCEPT !.req = next, !.got = got, !.n = n] \in ClientState
    BY <1>0, <1>2, <1>3, <2>3, ClientFacts DEF ClientState
  <2>5. client' = [client EXCEPT ![c] = [client[c] EXCEPT !.req = next, !.got = got, !.n = n]]
    BY <1>4
  <2>6. ClientTyped'
    BY <1>0, <2>4, <2>5 DEF ClientTyped
  <2>7. JobsTyped'
    BY <1>0, <1>4, <2>3, AppendProperties DEF JobsTyped
  <2> QED BY <1>0, <1>4, <2>6, <2>7 DEF HistoryTyped, FaultsTyped
<1>5. CASE /\ client' = [client EXCEPT ![c].req = NoReq, ![c].result = Result(req, m, got)]
           /\ Conclude(c, TRUE)
           /\ UNCHANGED <<jobs, faults>>
  <2>1. HistoryTyped'
    BY <1>0, <1>5, ConcludeTyped
  <2>2. Result(req, m, got) \in Results
    BY <1>2, ResultTyped
  <2>3. [client[c] EXCEPT !.req = NoReq, !.result = Result(req, m, got)] \in ClientState
    BY <1>0, <2>2, ClientFacts DEF ClientState
  <2>4. client' = [client EXCEPT ![c] = [client[c] EXCEPT !.req = NoReq, !.result = Result(req, m, got)]]
    BY <1>5
  <2>5. ClientTyped'
    BY <1>0, <2>3, <2>4 DEF ClientTyped
  <2> QED BY <1>0, <1>5, <2>1, <2>5 DEF JobsTyped, FaultsTyped
<1>6. CASE /\ Fault
           /\ client' = [client EXCEPT ![c].req = NoReq]
           /\ Conclude(c, FALSE)
           /\ UNCHANGED jobs
  BY <1>0, <1>6, ConcludeTyped, LeaveTyped, FaultTyped DEF JobsTyped
<1> QED BY <1>4, <1>5, <1>6 DEF ReceiveSuccess

\* A client takes a response.
LEMMA ClientReceiveTyped == ASSUME Typed, NEW c \in Client, ClientReceive(c) PROVE Typed'
<1>0. ClientTyped /\ HistoryTyped /\ JobsTyped /\ RepliesTyped /\ MishapsTyped /\ FaultsTyped
  BY DEF Typed, MishapsTyped
<1>1. client[c].req \in Req
  BY <1>0, ClientFacts DEF ClientReceive
<1>2. PICK m \in replies[c] :
        /\ replies' = [replies EXCEPT ![c] = @ \ {m}]
        /\ \/ m.status = "Success" /\ ReceiveSuccess(c, m)
           \/ /\ m.status # "Success"
              /\ client' = [client EXCEPT ![c].req = NoReq]
              /\ Conclude(c, FALSE)
              /\ UNCHANGED <<jobs, faults>>
  BY DEF ClientReceive
<1>3. m \in Response /\ RepliesTyped'
  BY <1>0, <1>2 DEF RepliesTyped
<1>4. writes' = writes
  BY DEF ClientReceive
<1>5. ClientTyped' /\ JobsTyped' /\ HistoryTyped' /\ FaultsTyped'
  <2>1. CASE m.status = "Success" /\ ReceiveSuccess(c, m)
    BY <1>1, <1>3, <1>4, <2>1, SuccessTyped
  <2>2. CASE /\ client' = [client EXCEPT ![c].req = NoReq]
             /\ Conclude(c, FALSE)
             /\ UNCHANGED <<jobs, faults>>
    BY <1>0, <1>1, <1>4, <2>2, ConcludeTyped, LeaveTyped DEF JobsTyped, FaultsTyped
  <2> QED BY <1>2, <2>1, <2>2
<1>6. MishapsTyped'
  BY <1>0, <1>5 DEF MishapsTyped, ClientReceive
<1>7. UNCHANGED <<work, store, tables, available, sid, objects, storageVars>>
  BY DEF ClientReceive
<1> QED BY <1>3, <1>5, <1>6, <1>7, ClientFrame

\* A client stops waiting.
LEMMA ClientTimeoutTyped == ASSUME Typed, NEW c \in Client, ClientTimeout(c) PROVE Typed'
<1>0. ClientTyped /\ HistoryTyped /\ JobsTyped /\ RepliesTyped /\ MishapsTyped
  BY DEF Typed
<1>1. ClientTyped'
  BY <1>0, LeaveTyped DEF ClientTimeout
<1>2. timeouts' \in 0..MaxTimeouts
  BY <1>0, EarlyTyped DEF ClientTimeout, MishapsTyped
<1>3. MishapsTyped'
  BY <1>0, <1>2 DEF ClientTimeout, MishapsTyped, FaultsTyped
<1>4. JobsTyped' /\ RepliesTyped' /\ HistoryTyped'
  BY <1>0 DEF ClientTimeout, JobsTyped, RepliesTyped, HistoryTyped, history
<1>5. UNCHANGED <<work, store, tables, available, sid, objects, storageVars>>
  BY DEF ClientTimeout
<1> QED BY <1>1, <1>3, <1>4, <1>5, ClientFrame

\* A client starts again.
LEMMA ClientRestartTyped == ASSUME Typed, NEW c \in Client, ClientRestart(c) PROVE Typed'
<1>0. ClientTyped /\ HistoryTyped /\ JobsTyped /\ RepliesTyped /\ MishapsTyped
  BY DEF Typed
<1> DEFINE x == [client[c] EXCEPT !.id = 0, !.req = NoReq, !.result = None]
<1>1. client' = [client EXCEPT ![c] = x]
  BY DEF ClientRestart
<1>2. x \in ClientState
  <2>1. 0 \in 0..MaxRequests /\ None \in Results
    BY Bounds DEF Results
  <2>2. client[c] \in ClientState
    BY <1>0, ClientFacts
  <2> QED BY <2>1, <2>2 DEF ClientState
<1> HIDE DEF x
<1>3. ClientTyped'
  BY <1>0, <1>1, <1>2 DEF ClientTyped
<1>4. MishapsTyped'
  BY <1>0, RestartTyped DEF ClientRestart, MishapsTyped, FaultsTyped
<1>5. RepliesTyped'
  BY <1>0 DEF ClientRestart, RepliesTyped
<1>6. JobsTyped' /\ HistoryTyped'
  BY <1>0 DEF ClientRestart, JobsTyped, HistoryTyped, history
<1>7. UNCHANGED <<work, store, tables, available, sid, objects, storageVars>>
  BY DEF ClientRestart
<1> QED BY <1>3, <1>4, <1>5, <1>6, <1>7, ClientFrame

-----------------------------------------------------------------------------
(* Types: the handlers *)

\* What a step of the worker has to keep.
LEMMA WorkerFrame ==
    ASSUME Typed, JobsTyped', Served', TableTyped(pending_writes'), TableTyped(pending_reads'),
           WorkTyped', StorageTyped', timeouts' \in 0..MaxTimeouts, WaitInv',
           UNCHANGED <<client, restarts, history>>
    PROVE  Typed'
<1>1. MishapsTyped'
  BY DEF Typed, MishapsTyped, Served
<1>2. ClientTyped' /\ HistoryTyped'
  BY DEF Typed, ClientTyped, HistoryTyped, history
<1> QED BY <1>1, <1>2 DEF Typed, Served

\* A handler that answers at once.
LEMMA IdleFrame ==
    ASSUME Typed, JobsTyped', Served', TableTyped(pending_writes'), TableTyped(pending_reads'),
           work' = Idle, objects' \in 0..MaxObjects,
           UNCHANGED <<client, available, sid, storageVars, timeouts, restarts, history>>
    PROVE  Typed'
<1>1. WorkTyped' /\ WaitInv'
  BY DEF Typed, WorkTyped, WaitInv
<1>2. StorageTyped'
  BY DEF Typed, StorageTyped, storageVars
<1>3. timeouts' \in 0..MaxTimeouts
  BY DEF Typed, MishapsTyped
<1> QED BY <1>1, <1>2, <1>3, WorkerFrame

\* The worker takes the oldest request.
LEMMA TakingTyped ==
    ASSUME Typed, NEW job, Taking(job)
    PROVE  /\ Head(jobs) \in Req /\ Head(jobs).job = job /\ work = Idle /\ JobsTyped'
           /\ Served /\ TableTyped(pending_writes) /\ TableTyped(pending_reads)
           /\ objects \in 0..MaxObjects
           /\ {"Success", "ServerError", "InputError", "AlreadyExists"} \subseteq ClientStatus
BY HeadTailProperties DEF Typed, Taking, JobsTyped, Served, MishapsTyped, WorkTyped, ClientStatus

\* A file that was never written.
LEMMA NewFileTyped ==
    ASSUME NEW o \in Object
    PROVE  NewFile(o) \in Metadata /\ NewFile(o).size = 0 /\ NewFile(o).obj = o
           /\ NewFile(o).replicas = None
<1>1. 0 \in 0..MaxChunks
  BY Bounds
<1> QED BY <1>1 DEF NewFile, Metadata

\* CREATE_FILE
LEMMA CreateTyped == ASSUME Typed, HandleCreateFile PROVE Typed'
<1> DEFINE req == Head(jobs)
<1>1. /\ req \in Req /\ work = Idle /\ JobsTyped' /\ Served /\ TableTyped(pending_writes)
      /\ TableTyped(pending_reads) /\ objects \in 0..MaxObjects
      /\ {"Success", "ServerError", "InputError", "AlreadyExists"} \subseteq ClientStatus
  BY TakingTyped DEF HandleCreateFile
<1>2. objects + 1 \in Object /\ objects' \in 0..MaxObjects
  BY <1>1, Bounds DEF HandleCreateFile, Object
<1>3. Served'
  <2>1. CASE exists(req.p) /\ Refuse(req, "AlreadyExists")
    BY <1>1, <2>1, RefuseTyped
  <2>2. CASE ~exists(req.p) /\ StoreChange(req, Set(meta, req.p, NewFile(objects + 1)), dirs)
    <3>1. StoreOk(meta, dirs) /\ req.p \in Path /\ req.p \notin dirs
      BY <1>1, <2>2, ReqFacts DEF Served, exists
    <3>2. NewFile(objects + 1) \in Metadata /\ NewFile(objects + 1).size = 0
      BY <1>2, NewFileTyped
    <3>3. StoreOk(Set(meta, req.p, NewFile(objects + 1)), dirs)
      BY <3>1, <3>2, StoreSet
    <3> QED BY <1>1, <2>2, <3>3, ChangeTyped
  <2> QED BY <2>1, <2>2 DEF HandleCreateFile
<1> QED BY <1>1, <1>2, <1>3, IdleFrame DEF HandleCreateFile, tables

\* RENAME
LEMMA RenameTyped == ASSUME Typed, HandleRename PROVE Typed'
<1> DEFINE req == Head(jobs)
<1>1. /\ req \in Req /\ work = Idle /\ JobsTyped' /\ Served /\ TableTyped(pending_writes)
      /\ TableTyped(pending_reads) /\ objects \in 0..MaxObjects
      /\ {"Success", "ServerError", "InputError", "AlreadyExists"} \subseteq ClientStatus
  BY TakingTyped DEF HandleRename
<1>2. StoreOk(meta, dirs) /\ req.p \in Path /\ req.q \in Path
  BY <1>1, ReqFacts DEF Served
<1>3. Served'
  <2>1. CASE Refuse(req, "ServerError") \/ Refuse(req, "AlreadyExists")
    BY <1>1, <2>1, RefuseTyped
  <2>2. CASE respond(req, "Success") /\ UNCHANGED <<store, faults>>
    <3>1. Refuse(req, "Success")
      BY <2>2 DEF Refuse
    <3> QED BY <1>1, <3>1, RefuseTyped
  <2>3. CASE /\ req.p \in DOMAIN meta /\ ~exists(req.q)
             /\ StoreChange(req, Set(Drop(meta, req.p), req.q, meta[req.p]), dirs)
    <3>1. StoreOk(Drop(meta, req.p), dirs)
      BY <1>2, StoreDrop
    <3>2. /\ meta[req.p] \in Metadata /\ req.q \notin dirs
          /\ meta[req.p].size # 0 => meta[req.p].replicas # None
      BY <1>2, <2>3, MetaFacts DEF exists
    <3>3. StoreOk(Set(Drop(meta, req.p), req.q, meta[req.p]), dirs)
      BY <1>2, <3>1, <3>2, StoreSet
    <3> QED BY <1>1, <2>3, <3>3, ChangeTyped
  <2>4. CASE /\ req.p \in dirs /\ ~exists(req.q)
             /\ StoreChange(req, meta, (dirs \ {req.p}) \cup {req.q})
    <3>1. StoreOk(meta, (dirs \ {req.p}) \cup {req.q})
      BY <1>2, <2>4 DEF StoreOk, exists
    <3> QED BY <1>1, <2>4, <3>1, ChangeTyped
  <2> QED BY <2>1, <2>2, <2>3, <2>4 DEF HandleRename
<1> QED BY <1>1, <1>3, IdleFrame DEF HandleRename, tables

\* MKDIR
LEMMA MakeDirTyped == ASSUME Typed, HandleMakeDir PROVE Typed'
<1> DEFINE req == Head(jobs)
<1>1. /\ req \in Req /\ work = Idle /\ JobsTyped' /\ Served /\ TableTyped(pending_writes)
      /\ TableTyped(pending_reads) /\ objects \in 0..MaxObjects
      /\ {"Success", "ServerError", "InputError", "AlreadyExists"} \subseteq ClientStatus
  BY TakingTyped DEF HandleMakeDir
<1>2. Served'
  <2>1. CASE Refuse(req, "ServerError") \/ Refuse(req, "AlreadyExists")
    BY <1>1, <2>1, RefuseTyped
  <2>2. CASE ~exists(req.p) /\ StoreChange(req, meta, dirs \cup {req.p})
    <3>1. StoreOk(meta, dirs \cup {req.p})
      BY <1>1, <2>2, ReqFacts DEF Served, StoreOk, exists
    <3> QED BY <1>1, <2>2, <3>1, ChangeTyped
  <2> QED BY <2>1, <2>2 DEF HandleMakeDir
<1> QED BY <1>1, <1>2, IdleFrame DEF HandleMakeDir, tables

\* LIST and STAT
LEMMA LookTyped == ASSUME Typed, HandleList \/ HandleStat PROVE Typed'
<1> DEFINE req == Head(jobs)
<1>1. /\ req \in Req /\ work = Idle /\ JobsTyped' /\ Served /\ TableTyped(pending_writes)
      /\ TableTyped(pending_reads) /\ objects \in 0..MaxObjects
      /\ {"Success", "ServerError", "InputError", "AlreadyExists"} \subseteq ClientStatus
  BY TakingTyped DEF HandleList, HandleStat
<1>2. TypeOf(req.p) \in Types /\ "FILE" \in Types /\ "DIRECTORY" \in Types
      /\ (req.p \in DOMAIN meta => meta[req.p].size \in 0..MaxChunks)
  BY <1>1, MetaFacts DEF TypeOf, Types, Served
<1>3. 0 \in 0..MaxChunks
  BY Bounds
<1>4. \/ \E type \in Types, n \in 0..MaxChunks :
            Send(req, "Success", type, n, << >>) /\ UNCHANGED faults
      \/ Fault /\ respond(req, "ServerError")
      \/ respond(req, "InputError") /\ UNCHANGED faults
  <2>1. CASE HandleList
    BY <1>2, <1>3, <2>1 DEF HandleList
  <2>2. CASE HandleStat
    BY <1>2, <1>3, <2>2 DEF HandleStat
  <2> QED BY <2>1, <2>2
<1>5. RepliesTyped' /\ FaultsTyped'
  <2>1. RepliesTyped /\ FaultsTyped
    BY <1>1 DEF Served
  <2>2. ASSUME UNCHANGED faults PROVE FaultsTyped'
    BY <2>1, <2>2 DEF FaultsTyped
  <2> QED BY <1>1, <1>4, <2>1, <2>2, SendTyped, RespondTyped, FaultTyped, EmptyData
<1>6. Served'
  BY <1>1, <1>5 DEF Served, HandleList, HandleStat, store
<1>7. UNCHANGED <<work, client, tables, available, sid, objects, storageVars,
                   timeouts, restarts, history>>
  BY DEF HandleList, HandleStat
<1> QED BY <1>1, <1>6, <1>7, IdleFrame DEF tables

\* The file a WRITE_FILE is about.
LEMMA TargetTyped ==
    ASSUME StoreOk(meta, dirs), objects \in 0..MaxObjects, NEW p \in Path,
           p \notin DOMAIN meta => objects < MaxObjects
    PROVE  /\ Target(p) \in Metadata /\ Target(p).obj \in Object
           /\ Target(p).size \in 0..MaxChunks /\ Target(p).replicas \in Pair \cup {None}
           /\ Target(p).size # 0 => Target(p).replicas # None
           /\ p \in DOMAIN meta => Target(p) = meta[p]
           /\ p \notin DOMAIN meta => Target(p).obj = objects + 1
<1>1. CASE p \in DOMAIN meta
  BY <1>1, MetaFacts DEF Target
<1>2. CASE p \notin DOMAIN meta
  <2>1. objects + 1 \in Object
    BY <1>2, Bounds DEF Object
  <2>2. Target(p) = NewFile(objects + 1)
    BY <1>2 DEF Target
  <2> QED BY <1>2, <2>1, <2>2, NewFileTyped DEF Metadata
<1> QED BY <1>1, <1>2

\* A pending write or read as it is entered.
LEMMA EntryTyped ==
    ASSUME NEW p \in Path, NEW o \in Object, NEW n \in 0..MaxChunks, n # 0, NEW r \in Pair
    PROVE  [path |-> p, obj |-> o, count |-> n, next |-> 0, replicas |-> r] \in Pending
<1>1. n \in 1..MaxChunks /\ 0 \in 0..MaxChunks
  BY Bounds
<1> QED BY <1>1 DEF Pending

\* A pending write is entered.
LEMMA EnterTyped ==
    ASSUME TableTyped(pending_writes), RepliesTyped, NEW req \in Req, req.x # 0,
           NEW m, m.obj \in Object, m.replicas \in Pair, EnterWrite(req, m)
    PROVE  TableTyped(pending_writes') /\ RepliesTyped'
<1> DEFINE w == [path |-> req.p, obj |-> m.obj, count |-> req.x, next |-> 0, replicas |-> m.replicas]
<1>1. req.p \in Path /\ req.x \in 0..MaxChunks /\ key(req) \in Keys
  BY ReqFacts
<1>2. w \in Pending
  BY <1>1, EntryTyped
<1>3. pending_writes' = IF key(req) \in DOMAIN pending_writes THEN pending_writes
                        ELSE Set(pending_writes, key(req), w)
  BY DEF EnterWrite
<1> HIDE DEF w
<1>4. TableTyped(pending_writes')
  BY <1>1, <1>2, <1>3, TableSet
<1>5. RepliesTyped'
  <2>1. "ServerError" \in ClientStatus /\ "Success" \in ClientStatus
    BY DEF ClientStatus
  <2>2. respond(req, "ServerError") \/ respond(req, "Success")
    BY DEF EnterWrite
  <2> QED BY <2>1, <2>2, RespondTyped
<1> QED BY <1>4, <1>5

\* The metadata of the target, emptied or given replicas.
LEMMA TargetChanged ==
    ASSUME NEW m \in Metadata, NEW r \in Pair
    PROVE  /\ [m EXCEPT !.size = 0] \in Metadata /\ [m EXCEPT !.size = 0].size = 0
           /\ [m EXCEPT !.size = 0].obj = m.obj
           /\ [m EXCEPT !.replicas = r] \in Metadata /\ [m EXCEPT !.replicas = r].replicas = r
           /\ [m EXCEPT !.replicas = r].obj = m.obj
<1>1. 0 \in 0..MaxChunks
  BY Bounds
<1> QED BY <1>1 DEF Metadata

\* Two storage nodes are something.
LEMMA PairFacts ==
    ASSUME NEW r \in Pair
    PROVE  r # None /\ r \in Seq(Storage) /\ Len(r) = 2 /\ r[1] \in Storage /\ r[2] \in Storage
<1>1. PICK a \in Storage, b \in Storage : r = <<a, b>>
  BY DEF Pair
<1>2. <<a, b>> \in Seq(Storage) /\ Len(<<a, b>>) = 2 /\ <<a, b>>[1] = a /\ <<a, b>>[2] = b
  OBVIOUS
<1>3. r # << >>
  BY <1>1, <1>2
<1> QED BY <1>1, <1>2, <1>3 DEF None

\* WRITE_FILE
LEMMA WriteFileTyped == ASSUME Typed, HandleWriteFile PROVE Typed'
<1> DEFINE req == Head(jobs)
           m == Target(req.p)
           new == req.p \notin DOMAIN meta
<1>1. /\ req \in Req /\ work = Idle /\ JobsTyped' /\ Served /\ TableTyped(pending_writes)
      /\ TableTyped(pending_reads) /\ objects \in 0..MaxObjects
      /\ {"Success", "ServerError", "InputError", "AlreadyExists"} \subseteq ClientStatus
  BY TakingTyped DEF HandleWriteFile
<1>2. StoreOk(meta, dirs) /\ RepliesTyped /\ FaultsTyped /\ req.p \in Path
  BY <1>1, ReqFacts DEF Served
<1>3. (new => objects < MaxObjects) /\ objects' = IF new THEN objects + 1 ELSE objects
  BY DEF HandleWriteFile
<1>4. objects' \in 0..MaxObjects
  BY <1>1, <1>3, Bounds
<1>5. /\ m \in Metadata /\ m.obj \in Object /\ m.size \in 0..MaxChunks
      /\ m.replicas \in Pair \cup {None} /\ (m.size # 0 => m.replicas # None)
  BY <1>1, <1>2, <1>3, TargetTyped
<1>6. Served' /\ TableTyped(pending_writes')
  <2>1. CASE Refuse(req, "ServerError") /\ UNCHANGED pending_writes
    BY <1>1, <2>1, RefuseTyped
  <2>2. CASE /\ req.p \notin dirs
             /\ StoreChange(req, Set(meta, req.p, [m EXCEPT !.size = 0]), dirs)
             /\ UNCHANGED pending_writes
    <3> DEFINE f == [m EXCEPT !.size = 0]
    <3>1. f \in Metadata /\ f.size = 0
      <4>1. 0 \in 0..MaxChunks
        BY Bounds
      <4> QED BY <1>5, <4>1 DEF Metadata
    <3> HIDE DEF f
    <3>2. StoreOk(Set(meta, req.p, f), dirs)
      BY <1>2, <2>2, <3>1, StoreSet
    <3>3. StoreChange(req, Set(meta, req.p, f), dirs)
      BY <2>2 DEF f
    <3> QED BY <1>1, <2>2, <3>2, <3>3, ChangeTyped
  <2>3. CASE /\ req.x # 0 /\ m.replicas # None /\ EnterWrite(req, m) /\ UNCHANGED <<store, faults>>
    <3>1. TableTyped(pending_writes') /\ RepliesTyped'
      BY <1>1, <1>2, <1>5, <2>3, EnterTyped
    <3> QED BY <1>2, <2>3, <3>1 DEF Served, store, FaultsTyped
  <2>4. ASSUME req.x # 0, req.p \notin dirs, NEW r \in Pair,
               meta' = Set(meta, req.p, [m EXCEPT !.replicas = r]),
               EnterWrite(req, [m EXCEPT !.replicas = r]), UNCHANGED <<dirs, faults>>
        PROVE  Served' /\ TableTyped(pending_writes')
    <3> DEFINE f == [m EXCEPT !.replicas = r]
    <3>1. f \in Metadata /\ f.replicas = r /\ f.obj = m.obj
      BY <1>5, TargetChanged
    <3>2. f.replicas # None
      BY <3>1, PairFacts
    <3>3. meta' = Set(meta, req.p, f) /\ EnterWrite(req, f)
      BY <2>4
    <3> HIDE DEF f
    <3>4. StoreOk(Set(meta, req.p, f), dirs)
      BY <1>2, <2>4, <3>1, <3>2, StoreSet
    <3>5. TableTyped(pending_writes') /\ RepliesTyped'
      BY <1>1, <1>2, <1>5, <2>4, <3>1, <3>3, EnterTyped
    <3> QED BY <1>2, <2>4, <3>3, <3>4, <3>5 DEF Served, FaultsTyped
  <2>5. CASE Fault /\ respond(req, "ServerError") /\ UNCHANGED <<store, pending_writes>>
    <3>1. RepliesTyped' /\ FaultsTyped'
      BY <1>1, <1>2, <2>5, RespondTyped, FaultTyped
    <3> QED BY <1>1, <1>2, <2>5, <3>1 DEF Served, store
  <2> QED BY <2>1, <2>2, <2>3, <2>4, <2>5 DEF HandleWriteFile
<1> QED BY <1>1, <1>4, <1>6, IdleFrame DEF HandleWriteFile

\* READ_FILE
LEMMA ReadFileTyped == ASSUME Typed, HandleReadFile PROVE Typed'
<1> DEFINE req == Head(jobs)
           m == meta[req.p]
<1>1. /\ req \in Req /\ work = Idle /\ JobsTyped' /\ Served /\ TableTyped(pending_writes)
      /\ TableTyped(pending_reads) /\ objects \in 0..MaxObjects
      /\ {"Success", "ServerError", "InputError", "AlreadyExists"} \subseteq ClientStatus
  BY TakingTyped DEF HandleReadFile
<1>2. StoreOk(meta, dirs) /\ RepliesTyped /\ FaultsTyped /\ req.p \in Path /\ key(req) \in Keys
  BY <1>1, ReqFacts DEF Served
<1>3. RepliesTyped' /\ TableTyped(pending_reads')
  <2>1. CASE respond(req, "ServerError") /\ UNCHANGED pending_reads
    BY <1>1, <1>2, <2>1, RespondTyped
  <2>2. CASE Reply(req, "Success", 0, << >>) /\ UNCHANGED pending_reads
    <3>1. 0 \in 0..MaxChunks
      BY Bounds
    <3> QED BY <1>1, <1>2, <2>2, <3>1, ReplyTyped, EmptyData
  <2>3. CASE /\ req.p \in DOMAIN meta /\ m.size # 0
             /\ pending_reads' = Set(pending_reads, key(req),
                 [path |-> req.p, obj |-> m.obj, count |-> m.size, next |-> 0,
                  replicas |-> m.replicas])
             /\ Reply(req, "Success", m.size, << >>)
    <3> DEFINE w == [path |-> req.p, obj |-> m.obj, count |-> m.size, next |-> 0,
                     replicas |-> m.replicas]
    <3>1. /\ m.obj \in Object /\ m.size \in 0..MaxChunks /\ m.replicas \in Pair
      BY <1>2, <2>3, MetaFacts
    <3>2. w \in Pending
      BY <1>2, <2>3, <3>1, EntryTyped
    <3>3. pending_reads' = Set(pending_reads, key(req), w)
      BY <2>3
    <3> HIDE DEF w
    <3>4. TableTyped(pending_reads')
      BY <1>1, <1>2, <3>2, <3>3, TableSet
    <3> QED BY <1>1, <1>2, <2>3, <3>1, <3>4, ReplyTyped, EmptyData
  <2> QED BY <2>1, <2>2, <2>3 DEF HandleReadFile
<1>4. Served' /\ TableTyped(pending_writes')
  BY <1>1, <1>2, <1>3 DEF Served, FaultsTyped, HandleReadFile, store
<1> QED BY <1>1, <1>3, <1>4, IdleFrame DEF HandleReadFile

-----------------------------------------------------------------------------
(* Types: requests to storage nodes and their answers *)

\* A storage request.
LEMMA StorageRequestTyped ==
    ASSUME NEW id \in Nat, NEW job \in StorageJobs, NEW o \in Object, NEW i \in 0..MaxChunks,
           NEW final \in BOOLEAN, NEW data \in Seq(Chunk), job = "PUT" => data[1] \in Chunk
    PROVE  StorageRequest(id, job, o, i, final, data) \in StorageRequests
BY DEF StorageRequest, StorageRequests

\* A request is sent to both replicas.
LEMMA SendBothTyped ==
    ASSUME StorageTyped, NEW r \in Pair, NEW msg \in StorageRequests, SendBoth(r, msg)
    PROVE  inbox' \in [Storage -> Seq(StorageRequests)]
<1>1. \A s \in Storage : Append(inbox[s], msg) \in Seq(StorageRequests)
  BY AppendProperties DEF StorageTyped
<1> QED BY <1>1 DEF SendBoth, StorageTyped

\* The worker waits.
LEMMA WaitTyped ==
    ASSUME NEW kind \in StorageJobs, NEW req \in Req, NEW id \in Nat, NEW left \in Seq(Storage),
           left # << >>, Wait(kind, req, id, left)
    PROVE  work' \in Work /\ work'.kind = kind /\ work'.req = req
BY DEF Wait, Work

\* What the worker waits for.
LEMMA WorkFacts ==
    ASSUME WorkTyped, work # Idle
    PROVE  /\ work \in Work /\ work.kind \in StorageJobs /\ work.req \in Req /\ work.id \in Nat
           /\ work.left \in Seq(Storage) /\ work.left # << >> /\ work.ok \in BOOLEAN
BY DEF WorkTyped, Work

\* WRITE_CHUNK
LEMMA WriteChunkTyped == ASSUME Typed, HandleWriteChunk PROVE Typed'
<1> DEFINE req == Head(jobs)
           w == pending_writes[key(req)]
<1>1. /\ req \in Req /\ req.job = "WRITE_CHUNK" /\ work = Idle /\ JobsTyped' /\ Served
      /\ TableTyped(pending_writes)
      /\ TableTyped(pending_reads) /\ objects \in 0..MaxObjects
      /\ {"Success", "ServerError", "InputError", "AlreadyExists"} \subseteq ClientStatus
  BY TakingTyped DEF HandleWriteChunk
<1>2. /\ RepliesTyped /\ FaultsTyped /\ StorageTyped /\ WorkTyped /\ req.x \in 0..MaxChunks
      /\ <<req.v, req.x>> \in Chunk /\ timeouts \in 0..MaxTimeouts /\ req.id \in Nat
  <2>1. /\ req.v \in 0..MaxWrites /\ req.v >= 1 /\ req.x \in 0..MaxChunks
        /\ req.id \in 1..MaxRequests
    BY <1>1, ReqFacts DEF WriteJobs
  <2>2. req.v \in 1..MaxWrites /\ req.id \in Nat
    BY <2>1, Bounds
  <2> QED BY <1>1, <2>1, <2>2 DEF Served, Typed, Chunk, MishapsTyped
<1>3. CASE /\ pending_writes' = Drop(pending_writes, key(req))
           /\ respond(req, "InputError")
           /\ UNCHANGED <<work, inbox>>
  <2>1. TableTyped(pending_writes')
    BY <1>1, <1>3, TableDrop
  <2>2. RepliesTyped'
    BY <1>1, <1>2, <1>3, RespondTyped
  <2>3. Served'
    BY <1>1, <2>2 DEF Served, HandleWriteChunk, store, FaultsTyped
  <2>4. TableTyped(pending_reads') /\ objects' \in 0..MaxObjects /\ work' = Idle
        /\ UNCHANGED <<client, available, sid, storageVars, timeouts, restarts, history>>
    BY <1>1, <1>3 DEF HandleWriteChunk, storageVars
  <2> QED BY <1>1, <2>1, <2>3, <2>4, IdleFrame
<1>4. CASE /\ key(req) \in DOMAIN pending_writes /\ req.x = w.next /\ req.x < w.count
           /\ SendBoth(w.replicas, StorageRequest(req.id, "PUT", w.obj, req.x,
                          req.x + 1 = w.count, << <<req.v, req.x>> >>))
           /\ Wait("PUT", req, req.id, w.replicas)
           /\ UNCHANGED <<pending_writes, replies>>
  <2>1. w.obj \in Object /\ w.replicas \in Pair
    BY <1>1, <1>4, PendingFacts
  <2> DEFINE data == << <<req.v, req.x>> >>
             final == req.x + 1 = w.count
  <2>2. data \in Seq(Chunk) /\ data[1] \in Chunk /\ final \in BOOLEAN
    BY <1>2
  <2> HIDE DEF data, final
  <2>3. StorageRequest(req.id, "PUT", w.obj, req.x, final, data) \in StorageRequests
    BY <1>2, <2>1, <2>2, StorageRequestTyped DEF StorageJobs
  <2>4. SendBoth(w.replicas, StorageRequest(req.id, "PUT", w.obj, req.x, final, data))
    BY <1>4 DEF data, final
  <2>5. inbox' \in [Storage -> Seq(StorageRequests)]
    BY <1>2, <2>1, <2>3, <2>4, SendBothTyped
  <2>6. StorageTyped'
    BY <1>2, <2>5 DEF StorageTyped, HandleWriteChunk
  <2>7. work' \in Work /\ work'.kind = "PUT" /\ work'.req = req
    BY <1>1, <1>2, <1>4, <2>1, PairFacts, WaitTyped DEF StorageJobs, None
  <2>8. WorkTyped'
    BY <1>2, <2>7 DEF WorkTyped, HandleWriteChunk
  <2>9. WaitInv'
    BY <1>4, <2>7 DEF WaitInv, Awaited, key
  <2>10. Served'
    BY <1>1, <1>4 DEF Served, RepliesTyped, HandleWriteChunk, store, FaultsTyped
  <2>11. TableTyped(pending_writes') /\ TableTyped(pending_reads') /\ timeouts' \in 0..MaxTimeouts
         /\ UNCHANGED <<client, restarts, history>>
    BY <1>1, <1>2, <1>4 DEF HandleWriteChunk
  <2> QED BY <1>1, <2>6, <2>8, <2>9, <2>10, <2>11, WorkerFrame
<1> QED BY <1>3, <1>4 DEF HandleWriteChunk

\* The worker asks the next replica, or gives the read up.
LEMMA AskTyped ==
    ASSUME RepliesTyped, StorageTyped, TableTyped(pending_reads), WorkTyped,
           NEW req \in Req, NEW left \in Seq(Storage), Awaited(pending_reads, req),
           AskNext(req, left)
    PROVE  /\ RepliesTyped' /\ TableTyped(pending_reads')
           /\ inbox' \in [Storage -> Seq(StorageRequests)]
           /\ work' \in Work \cup {Idle} /\ sid' \in Nat
           /\ work' # Idle => /\ work'.kind = "GET" /\ work'.req = req
                              /\ Awaited(pending_reads', req)
<1> DEFINE r == pending_reads[key(req)]
           candidates == {i \in 1..Len(left) : left[i] \in available}
<1>1. sid \in Nat /\ inbox \in [Storage -> Seq(StorageRequests)]
  BY DEF WorkTyped, StorageTyped
<1>2. CASE /\ pending_reads' = Drop(pending_reads, key(req))
           /\ work' = Idle
           /\ respond(req, "ServerError")
           /\ UNCHANGED <<inbox, sid>>
  <2>1. TableTyped(pending_reads')
    BY <1>2, TableDrop
  <2>2. RepliesTyped'
    BY <1>2, RespondTyped DEF ClientStatus
  <2> QED BY <1>1, <1>2, <2>1, <2>2
<1>3. ASSUME NEW i \in candidates, sid' = sid + 1,
             inbox' = [inbox EXCEPT ![left[i]] =
                  Append(@, StorageRequest(sid', "GET", r.obj, req.x, FALSE, << >>))],
             Wait("GET", req, sid', SubSeq(left, i, Len(left))),
             UNCHANGED <<pending_reads, replies>>
      PROVE  /\ RepliesTyped' /\ TableTyped(pending_reads')
             /\ inbox' \in [Storage -> Seq(StorageRequests)]
             /\ work' \in Work \cup {Idle} /\ sid' \in Nat
             /\ work'.kind = "GET" /\ work'.req = req /\ Awaited(pending_reads', req)
  <2>1. sid' \in Nat
    BY <1>1, <1>3
  <2>2. r.obj \in Object /\ req.x \in 0..MaxChunks
    BY PendingFacts, ReqFacts DEF Awaited
  <2> DEFINE msg == StorageRequest(sid', "GET", r.obj, req.x, FALSE, << >>)
  <2>3. msg \in StorageRequests
    <3>1. PICK id : id = sid'
      OBVIOUS
    <3>2. StorageRequest(id, "GET", r.obj, req.x, FALSE, << >>) \in StorageRequests
      BY <2>1, <2>2, <3>1, StorageRequestTyped, EmptySeq DEF StorageJobs
    <3> QED BY <3>1, <3>2 DEF StorageRequest
  <2>4. inbox' = [inbox EXCEPT ![left[i]] = Append(inbox[left[i]], msg)]
    BY <1>3
  <2> HIDE DEF msg
  <2>5. left[i] \in Storage /\ i \in 1..Len(left) /\ Len(left) \in Nat
    BY <1>3, LenProperties, ElementOfSeq
  <2>6. Append(inbox[left[i]], msg) \in Seq(StorageRequests)
    BY <1>1, <2>3, <2>5, AppendProperties
  <2>7. inbox' \in [Storage -> Seq(StorageRequests)]
    BY <1>1, <2>4, <2>6
  <2>8. SubSeq(left, i, Len(left)) \in Seq(Storage) /\ SubSeq(left, i, Len(left)) # << >>
    <3>1. Len(SubSeq(left, i, Len(left))) = Len(left) - i + 1
          /\ SubSeq(left, i, Len(left)) \in Seq(Storage)
      BY <2>5, SubSeqProperties
    <3>2. Len(SubSeq(left, i, Len(left))) # 0
      BY <2>5, <3>1
    <3> QED BY <3>1, <3>2, EmptySeq
  <2>9. work' \in Work /\ work'.kind = "GET" /\ work'.req = req
    <3>1. PICK id \in Nat : id = sid'
      BY <2>1
    <3>2. Wait("GET", req, id, SubSeq(left, i, Len(left)))
      BY <1>3, <3>1 DEF Wait
    <3> QED BY <2>8, <3>2, WaitTyped DEF StorageJobs
  <2>10. RepliesTyped' /\ TableTyped(pending_reads') /\ Awaited(pending_reads', req)
    BY <1>3 DEF RepliesTyped, TableTyped, Awaited
  <2> QED BY <2>1, <2>7, <2>9, <2>10
<1> QED BY <1>2, <1>3 DEF AskNext

\* READ_CHUNK
LEMMA ReadChunkTyped == ASSUME Typed, HandleReadChunk PROVE Typed'
<1> DEFINE req == Head(jobs)
           r == pending_reads[key(req)]
<1>1. /\ req \in Req /\ work = Idle /\ JobsTyped' /\ Served /\ TableTyped(pending_writes)
      /\ TableTyped(pending_reads) /\ objects \in 0..MaxObjects
      /\ {"Success", "ServerError", "InputError", "AlreadyExists"} \subseteq ClientStatus
  BY TakingTyped DEF HandleReadChunk
<1>2. RepliesTyped /\ FaultsTyped /\ StorageTyped /\ WorkTyped /\ timeouts \in 0..MaxTimeouts
  BY <1>1 DEF Served, Typed, MishapsTyped
<1>3. CASE /\ pending_reads' = Drop(pending_reads, key(req))
           /\ respond(req, "InputError")
           /\ UNCHANGED <<work, inbox, sid>>
  <2>1. TableTyped(pending_reads')
    BY <1>1, <1>3, TableDrop
  <2>2. RepliesTyped'
    BY <1>1, <1>2, <1>3, RespondTyped
  <2>3. Served'
    BY <1>1, <2>2 DEF Served, HandleReadChunk, store, FaultsTyped
  <2>4. TableTyped(pending_writes') /\ objects' \in 0..MaxObjects /\ work' = Idle
        /\ UNCHANGED <<client, available, sid, storageVars, timeouts, restarts, history>>
    BY <1>1, <1>3 DEF HandleReadChunk, storageVars
  <2> QED BY <1>1, <2>1, <2>3, <2>4, IdleFrame
<1>4. CASE /\ key(req) \in DOMAIN pending_reads /\ req.x = r.next /\ req.x < r.count
           /\ AskNext(req, r.replicas)
  <2>1. r.replicas \in Seq(Storage)
    BY <1>1, <1>4, PendingFacts, PairFacts
  <2>2. Awaited(pending_reads, req)
    BY <1>4 DEF Awaited
  <2>3. /\ RepliesTyped' /\ TableTyped(pending_reads')
        /\ inbox' \in [Storage -> Seq(StorageRequests)]
        /\ work' \in Work \cup {Idle} /\ sid' \in Nat
        /\ work' # Idle => /\ work'.kind = "GET" /\ work'.req = req
                           /\ Awaited(pending_reads', req)
    BY <1>1, <1>2, <1>4, <2>1, <2>2, AskTyped
  <2>4. StorageTyped'
    BY <1>2, <2>3 DEF StorageTyped, HandleReadChunk
  <2>5. WorkTyped'
    BY <1>2, <2>3 DEF WorkTyped, HandleReadChunk
  <2>6. WaitInv'
    BY <2>3 DEF WaitInv, Awaited, key
  <2>7. Served'
    BY <1>1, <2>3 DEF Served, HandleReadChunk, store, FaultsTyped
  <2>8. TableTyped(pending_writes') /\ timeouts' \in 0..MaxTimeouts
        /\ UNCHANGED <<client, restarts, history>>
    BY <1>1, <1>2 DEF HandleReadChunk
  <2> QED BY <1>1, <2>3, <2>4, <2>5, <2>6, <2>7, <2>8, WorkerFrame
<1> QED BY <1>3, <1>4 DEF HandleReadChunk

\* REMOVE
LEMMA RemoveTyped == ASSUME Typed, HandleRemove PROVE Typed'
<1> DEFINE req == Head(jobs)
           m == meta[req.p]
<1>1. /\ req \in Req /\ work = Idle /\ JobsTyped' /\ Served /\ TableTyped(pending_writes)
      /\ TableTyped(pending_reads) /\ objects \in 0..MaxObjects
      /\ {"Success", "ServerError", "InputError", "AlreadyExists"} \subseteq ClientStatus
  BY TakingTyped DEF HandleRemove
<1>2. /\ StoreOk(meta, dirs) /\ RepliesTyped /\ FaultsTyped /\ StorageTyped /\ WorkTyped
      /\ timeouts \in 0..MaxTimeouts
  BY <1>1 DEF Served, Typed, MishapsTyped
<1>3. UNCHANGED <<client, tables, available, objects, node, answers, timeouts, restarts, history>>
  BY DEF HandleRemove
<1>4. ASSUME Served', UNCHANGED <<work, inbox, sid>> PROVE Typed'
  <2>1. work' = Idle /\ TableTyped(pending_writes') /\ TableTyped(pending_reads')
        /\ objects' \in 0..MaxObjects
        /\ UNCHANGED <<client, available, sid, storageVars, timeouts, restarts, history>>
    BY <1>1, <1>3, <1>4 DEF tables, storageVars
  <2> QED BY <1>1, <1>4, <2>1, IdleFrame
<1>5. CASE Refuse(req, "ServerError") /\ UNCHANGED <<work, inbox, sid>>
  BY <1>1, <1>4, <1>5, RefuseTyped
<1>6. CASE StoreChange(req, meta, dirs \ {req.p}) /\ UNCHANGED <<work, inbox, sid>>
  <2>1. StoreOk(meta, dirs \ {req.p})
    BY <1>2 DEF StoreOk
  <2>2. Served'
    BY <1>1, <1>6, <2>1, ChangeTyped
  <2> QED BY <1>4, <1>6, <2>2
<1>7. CASE StoreChange(req, Drop(meta, req.p), dirs) /\ UNCHANGED <<work, inbox, sid>>
  <2>1. StoreOk(Drop(meta, req.p), dirs)
    BY <1>2, StoreDrop
  <2>2. Served'
    BY <1>1, <1>7, <2>1, ChangeTyped
  <2> QED BY <1>4, <1>7, <2>2
<1>8. CASE /\ Unnoticed(req.p) /\ req.p \in DOMAIN meta /\ m.replicas # None
           /\ sid' = sid + 1
           /\ SendBoth(m.replicas, StorageRequest(sid', "DELETE", m.obj, 0, FALSE, << >>))
           /\ Wait("DELETE", req, sid', m.replicas)
           /\ UNCHANGED <<replies, store, faults>>
  <2>1. PICK id \in Nat : id = sid'
    BY <1>2, <1>8 DEF WorkTyped
  <2>2. m.obj \in Object /\ m.replicas \in Pair /\ 0 \in 0..MaxChunks
    BY <1>2, <1>8, MetaFacts, Bounds
  <2>3. StorageRequest(id, "DELETE", m.obj, 0, FALSE, << >>) \in StorageRequests
    BY <2>1, <2>2, StorageRequestTyped, EmptySeq DEF StorageJobs
  <2>4. SendBoth(m.replicas, StorageRequest(id, "DELETE", m.obj, 0, FALSE, << >>))
        /\ Wait("DELETE", req, id, m.replicas)
    BY <1>8, <2>1
  <2>5. inbox' \in [Storage -> Seq(StorageRequests)]
    BY <1>2, <2>2, <2>3, <2>4, SendBothTyped
  <2>6. work' \in Work /\ work'.kind = "DELETE" /\ work'.req = req
    BY <1>1, <2>2, <2>4, PairFacts, WaitTyped DEF StorageJobs, None
  <2>7. StorageTyped'
    BY <1>2, <1>3, <2>5 DEF StorageTyped
  <2>8. WorkTyped'
    BY <1>2, <1>3, <2>1, <2>6 DEF WorkTyped
  <2>9. WaitInv'
    BY <1>3, <1>8, <2>6 DEF WaitInv, Unnoticed, BeingWritten, store, tables
  <2>10. Served'
    BY <1>1, <1>8 DEF Served, RepliesTyped, store, FaultsTyped
  <2>11. TableTyped(pending_writes') /\ TableTyped(pending_reads') /\ timeouts' \in 0..MaxTimeouts
         /\ UNCHANGED <<client, restarts, history>>
    BY <1>1, <1>2, <1>3 DEF tables
  <2> QED BY <1>1, <2>7, <2>8, <2>9, <2>10, <2>11, WorkerFrame
<1> QED BY <1>5, <1>6, <1>7, <1>8 DEF HandleRemove

\* The end of a PUT.
LEMMA FinishPutTyped ==
    ASSUME Served, TableTyped(pending_writes), NEW ok \in BOOLEAN, work.req \in Req,
           Awaited(pending_writes, work.req), FinishPut(ok)
    PROVE  Served' /\ TableTyped(pending_writes')
<1> DEFINE req == work.req
           w == pending_writes[key(req)]
<1>1. /\ w \in Pending /\ w.path \in Path /\ w.obj \in Object /\ w.count \in 1..MaxChunks
      /\ w.next \in 0..MaxChunks /\ w.replicas \in Pair /\ key(req) \in DOMAIN pending_writes
      /\ w.next < w.count
  BY PendingFacts DEF Awaited
<1>2. StoreOk(meta, dirs) /\ RepliesTyped /\ FaultsTyped
  BY DEF Served
<1>3. "Success" \in ClientStatus /\ "ServerError" \in ClientStatus /\ "AlreadyExists" \in ClientStatus
  BY DEF ClientStatus
<1>4. CASE /\ pending_writes' = Drop(pending_writes, key(req))
           /\ respond(req, "ServerError") /\ UNCHANGED <<store, faults>>
  <2>1. Refuse(req, "ServerError")
    BY <1>4 DEF Refuse
  <2> QED BY <1>3, <1>4, <2>1, RefuseTyped, TableDrop
<1>5. CASE /\ pending_writes' = [pending_writes EXCEPT ![key(req)].next = @ + 1]
           /\ respond(req, "Success") /\ UNCHANGED <<store, faults>>
  <2>1. Refuse(req, "Success")
    BY <1>5 DEF Refuse
  <2>2. TableTyped(pending_writes')
    <3> DEFINE g == [pending_writes EXCEPT ![key(req)].next = @ + 1]
    <3>1. TableTyped(g)
      BY <1>1, TableNext
    <3> QED BY <1>5, <3>1
  <2> QED BY <1>3, <2>1, <2>2, RefuseTyped
<1>6. CASE /\ \/ w.path \in dirs /\ Refuse(req, "AlreadyExists")
              \/ /\ w.path \notin dirs
                 /\ StoreChange(req, Set(meta, w.path, Completed(w)), dirs)
           /\ pending_writes' = Drop(pending_writes, key(req))
  <2>1. Completed(w) \in Metadata /\ Completed(w).replicas # None
    <3>1. w.count \in 0..MaxChunks /\ w.replicas # None
      BY <1>1, Bounds, PairFacts
    <3> QED BY <1>1, <3>1 DEF Completed, Metadata
  <2>2. w.path \notin dirs => StoreOk(Set(meta, w.path, Completed(w)), dirs)
    BY <1>1, <1>2, <2>1, StoreSet
  <2>3. Served'
    BY <1>3, <1>6, <2>2, RefuseTyped, ChangeTyped
  <2> QED BY <1>6, <2>3, TableDrop
<1> QED BY <1>4, <1>5, <1>6 DEF FinishPut

\* The end of a DELETE.
LEMMA FinishDeleteTyped ==
    ASSUME Served, NEW ok \in BOOLEAN, work.req \in Req, FinishDelete(ok)
    PROVE  Served'
<1>1. CASE StoreChange(work.req, Drop(meta, work.req.p), dirs)
  <2>1. StoreOk(Drop(meta, work.req.p), dirs)
    BY StoreDrop DEF Served
  <2> QED BY <1>1, <2>1, ChangeTyped
<1>2. CASE Refuse(work.req, "ServerError")
  BY <1>2, RefuseTyped DEF ClientStatus
<1> QED BY <1>1, <1>2 DEF FinishDelete

\* The end of a GET.
LEMMA FinishGetTyped ==
    ASSUME RepliesTyped, TableTyped(pending_reads), work.req \in Req, NEW data \in Data,
           Awaited(pending_reads, work.req), FinishGet(data)
    PROVE  RepliesTyped' /\ TableTyped(pending_reads')
<1>1. 0 \in 0..MaxChunks /\ "Success" \in ClientStatus
  BY Bounds DEF ClientStatus
<1>2. RepliesTyped'
  BY <1>1, ReplyTyped DEF FinishGet
<1> DEFINE k == key(work.req)
           g == [pending_reads EXCEPT ![k].next = @ + 1]
<1>3. TableTyped(g)
  BY TableNext DEF Awaited
<1>4. pending_reads' = Drop(pending_reads, k) \/ pending_reads' = g
  BY DEF FinishGet
<1> HIDE DEF g
<1> QED BY <1>2, <1>3, <1>4, TableDrop

\* The worker goes on, to the next replica or to the end of the request.
LEMMA ProceedTyped ==
    ASSUME Typed, work # Idle, NEW ok \in BOOLEAN, NEW data \in Data, Proceed(ok, data),
           answers' \in [Storage -> Seq(Answer)], timeouts' \in 0..MaxTimeouts,
           UNCHANGED <<client, jobs, available, objects, node, restarts, history>>
    PROVE  Typed'
<1> DEFINE rest == Tail(work.left)
<1>1. /\ work \in Work /\ work.kind \in StorageJobs /\ work.req \in Req /\ work.id \in Nat
      /\ work.left \in Seq(Storage) /\ work.left # << >> /\ work.ok \in BOOLEAN
      /\ rest \in Seq(Storage)
  BY WorkFacts, HeadTailProperties DEF Typed
<1>2. /\ Served /\ RepliesTyped /\ FaultsTyped /\ StorageTyped /\ WorkTyped /\ WaitInv
      /\ TableTyped(pending_writes) /\ TableTyped(pending_reads) /\ JobsTyped'
      /\ inbox \in [Storage -> Seq(StorageRequests)]
  BY DEF Served, Typed, MishapsTyped, JobsTyped, StorageTyped
<1>3. AllOk(ok) \in BOOLEAN
  BY <1>1 DEF AllOk
<1>4. ASSUME Served', TableTyped(pending_writes'), TableTyped(pending_reads'),
             work' \in Work \cup {Idle}, sid' \in Nat, WaitInv',
             inbox' \in [Storage -> Seq(StorageRequests)]
      PROVE  Typed'
  <2>1. WorkTyped'
    BY <1>2, <1>4 DEF WorkTyped
  <2>2. StorageTyped'
    BY <1>2, <1>4 DEF StorageTyped
  <2> QED BY <1>2, <1>4, <2>1, <2>2, WorkerFrame
<1>5. ASSUME Served', TableTyped(pending_writes'), TableTyped(pending_reads'), work' = Idle,
             UNCHANGED <<sid, inbox>>
      PROVE  Typed'
  <2>1. sid' \in Nat /\ inbox' \in [Storage -> Seq(StorageRequests)]
    BY <1>2, <1>5 DEF WorkTyped
  <2>2. WaitInv'
    BY <1>5 DEF WaitInv
  <2> QED BY <1>4, <1>5, <2>1, <2>2
<1>6. CASE /\ work.kind \in {"PUT", "DELETE"} /\ rest # << >>
           /\ work' = [work EXCEPT !.left = rest, !.ok = AllOk(ok)]
           /\ UNCHANGED <<replies, store, tables, sid, inbox, faults>>
  <2>1. work' \in Work /\ work'.kind = work.kind /\ work'.req = work.req
    BY <1>1, <1>3, <1>6 DEF Work
  <2>2. Served' /\ TableTyped(pending_writes') /\ TableTyped(pending_reads') /\ sid' \in Nat
        /\ inbox' \in [Storage -> Seq(StorageRequests)]
    BY <1>2, <1>6 DEF Served, RepliesTyped, FaultsTyped, WorkTyped, store, tables
  <2>3. WaitInv'
    <3>1. UNCHANGED <<meta, pending_writes, pending_reads>>
      BY <1>6 DEF store, tables
    <3> QED BY <1>2, <2>1, <3>1 DEF WaitInv, Awaited, Unnoticed, BeingWritten, key
  <2> QED BY <1>4, <2>1, <2>2, <2>3
<1>7. CASE /\ work.kind = "PUT" /\ FinishPut(AllOk(ok)) /\ work' = Idle
           /\ UNCHANGED <<pending_reads, sid, inbox>>
  <2>1. Awaited(pending_writes, work.req)
    BY <1>2, <1>7 DEF WaitInv
  <2>2. Served' /\ TableTyped(pending_writes')
    BY <1>1, <1>2, <1>3, <1>7, <2>1, FinishPutTyped
  <2> QED BY <1>2, <1>5, <1>7, <2>2
<1>8. CASE /\ work.kind = "DELETE" /\ FinishDelete(AllOk(ok)) /\ work' = Idle
           /\ UNCHANGED <<tables, sid, inbox>>
  <2>1. Served'
    BY <1>1, <1>2, <1>3, <1>8, FinishDeleteTyped
  <2> QED BY <1>2, <1>5, <1>8, <2>1 DEF tables
<1>9. CASE /\ work.kind = "GET" /\ FinishGet(data) /\ work' = Idle
           /\ UNCHANGED <<store, pending_writes, sid, inbox, faults>>
  <2>1. Awaited(pending_reads, work.req)
    BY <1>2, <1>9 DEF WaitInv
  <2>2. RepliesTyped' /\ TableTyped(pending_reads')
    BY <1>1, <1>2, <1>9, <2>1, FinishGetTyped
  <2>3. Served'
    BY <1>2, <1>9, <2>2 DEF Served, store, FaultsTyped
  <2> QED BY <1>2, <1>5, <1>9, <2>2, <2>3
<1>10. CASE /\ work.kind = "GET" /\ AskNext(work.req, rest)
            /\ UNCHANGED <<store, pending_writes, faults>>
  <2>1. Awaited(pending_reads, work.req)
    BY <1>2, <1>10 DEF WaitInv
  <2>2. PICK req \in Req : req = work.req
    BY <1>1
  <2>3. Awaited(pending_reads, req) /\ AskNext(req, rest)
    BY <1>10, <2>1, <2>2
  <2>4. /\ RepliesTyped' /\ TableTyped(pending_reads')
        /\ inbox' \in [Storage -> Seq(StorageRequests)]
        /\ work' \in Work \cup {Idle} /\ sid' \in Nat
        /\ work' # Idle => /\ work'.kind = "GET" /\ work'.req = req
                           /\ Awaited(pending_reads', req)
    BY <1>1, <1>2, <2>3, AskTyped
  <2>5. WaitInv'
    BY <2>4 DEF WaitInv, Awaited, key
  <2>6. Served'
    BY <1>2, <1>10, <2>4 DEF Served, store, FaultsTyped
  <2> QED BY <1>2, <1>4, <1>10, <2>4, <2>5, <2>6
<1> QED BY <1>6, <1>7, <1>8, <1>9, <1>10 DEF Proceed, StillLeft

\* An answer is taken out of the queue.
LEMMA ErasedTyped ==
    ASSUME NEW q \in Seq(Answer), NEW i \in 1..Len(q)
    PROVE  Erased(q, i) \in Seq(Answer)
<1>1. Len(q) \in Nat
  BY LenProperties
<1>2. SubSeq(q, 1, i - 1) \in Seq(Answer) /\ SubSeq(q, i + 1, Len(q)) \in Seq(Answer)
  BY <1>1, SubSeqProperties
<1> QED BY <1>2, ConcatProperties DEF Erased

\* The worker takes an answer.
LEMMA WorkerReceiveTyped == ASSUME Typed, WorkerReceive PROVE Typed'
<1> DEFINE s == Head(work.left)
<1>1. /\ work # Idle
      /\ UNCHANGED <<client, jobs, available, objects, node, timeouts, restarts, history>>
  BY DEF WorkerReceive
<1>2. PICK i \in 1..Len(answers[s]) :
        /\ answers' = [answers EXCEPT ![s] = Erased(answers[s], i)]
        /\ Proceed(answers[s][i].status = "Success"
                   /\ (answers[s][i].job = "GET" => answers[s][i].data # << >>),
                   answers[s][i].data)
  BY DEF WorkerReceive
<1>3. s \in Storage
  BY <1>1, WorkFacts, HeadTailProperties DEF Typed
<1>4. answers \in [Storage -> Seq(Answer)] /\ answers[s] \in Seq(Answer)
  BY <1>3 DEF Typed, StorageTyped
<1> DEFINE a == answers[s][i]
<1>5. a.data \in Data
  <2>1. a \in Answer
    BY <1>2, <1>4, ElementOfSeq
  <2> QED BY <2>1 DEF Answer
<1>6. answers' \in [Storage -> Seq(Answer)]
  BY <1>2, <1>3, <1>4, ErasedTyped
<1> DEFINE ok == a.status = "Success" /\ (a.job = "GET" => a.data # << >>)
<1>7. ok \in BOOLEAN
  OBVIOUS
<1>8. timeouts' \in 0..MaxTimeouts
  BY <1>1 DEF Typed, MishapsTyped
<1> HIDE DEF ok, a
<1>9. Proceed(ok, a.data)
  BY <1>2 DEF ok, a
<1> QED BY <1>1, <1>5, <1>6, <1>7, <1>8, <1>9, ProceedTyped

\* The worker stops waiting for an answer.
LEMMA WorkerTimeoutTyped == ASSUME Typed, WorkerTimeout PROVE Typed'
<1>1. timeouts' \in 0..MaxTimeouts
  BY EarlyTyped DEF Typed, MishapsTyped, WorkerTimeout
<1>2. answers' \in [Storage -> Seq(Answer)]
  BY DEF Typed, StorageTyped, WorkerTimeout
<1>3. work # Idle /\ Proceed(FALSE, << >>)
      /\ UNCHANGED <<client, jobs, available, objects, node, restarts, history>>
  BY DEF WorkerTimeout
<1> QED BY <1>1, <1>2, <1>3, EmptyData, ProceedTyped

-----------------------------------------------------------------------------
(* Types: the theorem *)

\* At the start the types are right.
LEMMA InitTyped == Init => Typed
<1> SUFFICES ASSUME Init PROVE Typed
  OBVIOUS
<1>1. 0 \in 0..MaxRequests /\ 0 \in 0..MaxChunks /\ 0 \in 0..MaxWrites /\ 0 \in 0..MaxObjects
      /\ 0 \in 0..MaxFaults /\ 0 \in 0..MaxTimeouts /\ 0 \in 0..MaxRestarts
  BY Bounds
<1>2. ClientTyped
  <2>1. None \in Version /\ None \in Results /\ << >> \in Data
    BY EmptyData DEF Version, Results
  <2> QED BY <1>1, <2>1 DEF Init, ClientTyped, ClientState
<1>3. JobsTyped /\ RepliesTyped /\ WaitInv
  BY DEF Init, JobsTyped, RepliesTyped, WaitInv
<1>4. StoreOk(meta, dirs) /\ TableTyped(pending_writes) /\ TableTyped(pending_reads)
  BY DEF Init, StoreOk, TableTyped
<1>5. WorkTyped
  BY <1>1 DEF Init, WorkTyped
<1>6. StorageTyped
  <2>1. FreshNode \in Node
    BY DEF FreshNode, Node, StoredFile
  <2> QED BY <2>1 DEF Init, StorageTyped
<1>7. MishapsTyped
  BY <1>1 DEF Init, MishapsTyped, FaultsTyped
<1>8. HistoryTyped
  BY <1>1 DEF Init, HistoryTyped, Version
<1> QED BY <1>2, <1>3, <1>4, <1>5, <1>6, <1>7, <1>8 DEF Typed

\* A step that changes nothing.
LEMMA StutterTyped == ASSUME Typed, UNCHANGED vars PROVE Typed'
<1>1. StorageTyped' /\ MishapsTyped'
  BY DEF Typed, StorageTyped, MishapsTyped, FaultsTyped, vars
<1>2. UNCHANGED <<clientVars, jobs, work, store, tables, available, sid, objects, history>>
  BY DEF vars, clientVars, store, tables, history
<1> QED BY <1>1, <1>2, StorageFrame

\* Every step keeps the types.
LEMMA StepTyped == ASSUME Typed, [Next]_vars PROVE Typed'
<1>1. ASSUME NEW c \in Client, Issue(c) \/ ClientReceive(c) \/ ClientTimeout(c) \/ ClientRestart(c)
      PROVE  Typed'
  BY <1>1, IssueTyped, ClientReceiveTyped, ClientTimeoutTyped, ClientRestartTyped
<1>2. CASE WorkerHandle
  BY <1>2, CreateTyped, WriteFileTyped, WriteChunkTyped, ReadFileTyped, ReadChunkTyped,
     RemoveTyped, RenameTyped, MakeDirTyped, LookTyped DEF WorkerHandle
<1>3. CASE WorkerReceive \/ WorkerTimeout \/ MetadataRestart
  BY <1>3, WorkerReceiveTyped, WorkerTimeoutTyped, MetadataRestartTyped
<1>4. ASSUME NEW s \in Storage, StorageHandle(s) \/ StorageRestart(s)
                                \/ HandleHeartbeat(s) \/ ExpireHeartbeat(s)
      PROVE  Typed'
  BY <1>4, StorageHandleTyped, StorageRestartTyped, HeartbeatTyped
<1>5. CASE UNCHANGED vars
  BY <1>5, StutterTyped
<1> QED BY <1>1, <1>2, <1>3, <1>4, <1>5 DEF Next

\* The invariant behind TypeOK holds in every reachable state.
THEOREM SystemTyped == Spec => []Typed
<1>1. Typed /\ [Next]_vars => Typed'
  BY StepTyped
<1> QED BY <1>1, InitTyped, PTL DEF Spec

\* The state of clients, worker and storage nodes has its types: no handler
\* waits for an entry that is gone, no count of chunks leaves its range, and
\* no path is both a file and a directory.
THEOREM TypeCorrect == Spec => []TypeOK
<1>1. Typed => TypeOK
  <2> SUFFICES ASSUME Typed PROVE TypeOK
    OBVIOUS
  <2>1. ASSUME NEW c \in Client
        PROVE  /\ client[c].id \in 0..MaxRequests /\ client[c].req \in Requests \cup {NoReq}
               /\ client[c].got \in Seq(Chunk \cup {Torn})
               /\ \A m \in replies[c] : m.status \in ClientStatus /\ m.id \in 1..MaxRequests
    BY <2>1, ClientFacts DEF Typed, Req, Data, RepliesTyped, Response
  <2>2. jobs \in Seq(Requests)
    <3>1. Req \subseteq Requests /\ jobs \in Seq(Req)
      BY DEF Req, Typed, JobsTyped
    <3> QED BY <3>1, SeqMonotonic
  <2>3. work # Idle => work.req \in Requests /\ work.left # << >>
    BY WorkFacts, ReqFacts DEF Typed
  <2>4. /\ DOMAIN meta \subseteq Path /\ meta \in [DOMAIN meta -> Metadata]
        /\ dirs \subseteq Path \ DOMAIN meta
    BY DEF Typed, StoreOk
  <2>5. \A f \in {pending_writes, pending_reads} :
           DOMAIN f \subseteq Keys /\ f \in [DOMAIN f -> Pending]
    BY DEF Typed, TableTyped
  <2>6. /\ available \subseteq Storage /\ sid \in Nat /\ objects \in 0..MaxObjects
        /\ node \in [Storage -> Node] /\ faults \in 0..MaxFaults /\ timeouts \in 0..MaxTimeouts
        /\ restarts \in [{"client", "metadata", "storage"} -> 0..MaxRestarts]
    BY DEF Typed, WorkTyped, StorageTyped, MishapsTyped, FaultsTyped
  <2> QED BY <2>1, <2>2, <2>3, <2>4, <2>5, <2>6 DEF TypeOK
<1> QED BY <1>1, SystemTyped, PTL

-----------------------------------------------------------------------------
(* Object ids: the order of requests *)

\* The queue q without its first requests.
Behind(r, q) ==
    \E k \in Nat : Len(r) + k = Len(q) /\ \A i \in 1..Len(r) : r[i] = q[i + k]

\* What the worker takes, and what a restart loses, is at the front.
LEMMA BehindFacts ==
    ASSUME NEW q \in Seq(Req)
    PROVE  /\ Behind(q, q)
           /\ q # << >> => Behind(Tail(q), q)
           /\ \A k \in 0..Len(q) : Behind(SubSeq(q, k + 1, Len(q)), q)
<1>0. Len(q) \in Nat
  BY LenProperties
<1>1. Behind(q, q)
  <2>1. Len(q) + 0 = Len(q) /\ \A i \in 1..Len(q) : q[i] = q[i + 0]
    BY <1>0
  <2> QED BY <2>1 DEF Behind
<1>2. ASSUME q # << >> PROVE Behind(Tail(q), q)
  <2>1. Len(Tail(q)) + 1 = Len(q) /\ \A i \in 1..Len(Tail(q)) : Tail(q)[i] = q[i + 1]
    BY <1>0, <1>2, HeadTailProperties
  <2> QED BY <2>1 DEF Behind
<1>3. ASSUME NEW k \in 0..Len(q) PROVE Behind(SubSeq(q, k + 1, Len(q)), q)
  <2> DEFINE r == SubSeq(q, k + 1, Len(q))
  <2>1. Len(r) = Len(q) - k /\ \A i \in 1..Len(r) : r[i] = q[k + 1 + i - 1]
    BY <1>0, SubSeqProperties
  <2>2. k \in Nat /\ Len(r) + k = Len(q) /\ Len(r) \in Nat
    BY <1>0, <2>1
  <2>3. \A i \in 1..Len(r) : r[i] = q[i + k]
    BY <2>1, <2>2
  <2> QED BY <2>2, <2>3 DEF Behind
<1> QED BY <1>1, <1>2, <1>3

\* What is behind is somewhere in the queue, in the same order.
LEMMA BehindMember ==
    ASSUME NEW q \in Seq(Req), NEW r \in Seq(Req), Behind(r, q)
    PROVE  \E k \in Nat : \A i \in 1..Len(r) :
              /\ i + k \in 1..Len(q) /\ r[i] = q[i + k] /\ q[i + k] \in Req
<1>1. PICK k \in Nat : Len(r) + k = Len(q) /\ \A i \in 1..Len(r) : r[i] = q[i + k]
  BY DEF Behind
<1>2. Len(q) \in Nat /\ Len(r) \in Nat
  BY LenProperties
<1>3. \A i \in 1..Len(r) : i + k \in 1..Len(q)
  BY <1>1, <1>2
<1> QED BY <1>1, <1>3, ElementOfSeq

\* Requests that leave the queue, operations that end and writes that are
\* erased leave the rest in order.
LEMMA OrderedLess ==
    ASSUME NEW id, NEW req, NEW q \in Seq(Req), NEW pending, Ordered(id, req, q, pending),
           NEW req2, req2 = req \/ req2 = NoReq, NEW r \in Seq(Req), Behind(r, q),
           NEW pending2, pending2 \subseteq pending
    PROVE  Ordered(id, req2, r, pending2)
<1>1. PICK k \in Nat : \A i \in 1..Len(r) :
              /\ i + k \in 1..Len(q) /\ r[i] = q[i + k] /\ q[i + k] \in Req
  BY BehindMember
<1>2. ASSUME NEW i \in 1..Len(r), NEW j \in 1..Len(r), i <= j
      PROVE  r[i].id <= r[j].id /\ Related(r[i], r[j])
  <2>1. i + k <= j + k
    BY <1>2
  <2> QED BY <1>1, <2>1 DEF Ordered
<1>3. ASSUME NEW i \in 1..Len(r)
      PROVE  /\ r[i].id <= id
             /\ req2 # NoReq => Related(r[i], req2)
  BY <1>1 DEF Ordered
<1>4. ASSUME NEW x \in pending2
      PROVE  /\ x[2] <= id
             /\ req2 # NoReq /\ x[2] = req2.id => req2.job \in WriteJobs
             /\ \A i \in 1..Len(r) : x[2] <= r[i].id /\ (x[2] = r[i].id => r[i].job \in WriteJobs)
  BY <1>1 DEF Ordered
<1>5. req2 # NoReq => req2.id = id
  BY DEF Ordered
<1> QED BY <1>2, <1>3, <1>4, <1>5 DEF Ordered

\* A new operation has a new id.
LEMMA OrderedNew ==
    ASSUME NEW id \in Nat, NEW req, NEW q \in Seq(Req), NEW pending \in SUBSET Keys,
           Ordered(id, req, q, pending), NEW r \in Req, r.id = id + 1
    PROVE  Ordered(id + 1, r, Append(q, r), pending)
<1> DEFINE a == Append(q, r)
<1>1. /\ Len(q) \in Nat /\ Len(a) = Len(q) + 1 /\ a[Len(q) + 1] = r
      /\ \A i \in 1..Len(q) : a[i] = q[i]
  BY LenProperties, AppendProperties
<1>2. \A i \in 1..Len(q) : q[i].id <= id /\ q[i].id \in Nat
  BY ElementOfSeq, ReqFacts, Bounds DEF Ordered
<1>3. \A k \in pending : k[2] \in Nat /\ k[2] <= id
  BY Bounds DEF Ordered, Keys
<1> HIDE DEF a
<1>4. ASSUME NEW i \in 1..Len(a)
      PROVE  /\ a[i].id <= id + 1
             /\ Related(a[i], r)
             /\ \A j \in 1..Len(a) : i <= j => a[i].id <= a[j].id /\ Related(a[i], a[j])
  <2>1. CASE i = Len(q) + 1
    <3>1. a[i] = r /\ a[i].id = id + 1
      BY <1>1, <2>1
    <3>2. \A j \in 1..Len(a) : i <= j => a[j] = r
      BY <1>1, <2>1
    <3> QED BY <3>1, <3>2 DEF Related
  <2>2. CASE i \in 1..Len(q)
    <3>1. a[i] = q[i] /\ q[i].id <= id /\ q[i].id \in Nat
      BY <1>1, <1>2, <2>2
    <3>2. a[i].id <= id + 1 /\ Related(a[i], r) /\ a[i].id <= r.id
      BY <3>1 DEF Related
    <3>3. ASSUME NEW j \in 1..Len(a), i <= j PROVE a[i].id <= a[j].id /\ Related(a[i], a[j])
      <4>1. CASE j = Len(q) + 1
        BY <1>1, <3>2, <4>1
      <4>2. CASE j \in 1..Len(q)
        BY <1>1, <2>2, <3>3, <4>2 DEF Ordered
      <4> QED BY <1>1, <4>1, <4>2
    <3> QED BY <3>2, <3>3
  <2> QED BY <1>1, <2>1, <2>2
<1>5. ASSUME NEW k \in pending
      PROVE  /\ k[2] <= id + 1 /\ k[2] # r.id
             /\ \A i \in 1..Len(a) : k[2] <= a[i].id /\ (k[2] = a[i].id => a[i].job \in WriteJobs)
  <2>1. k[2] <= id + 1 /\ k[2] # r.id /\ k[2] <= r.id
    BY <1>3
  <2>2. ASSUME NEW i \in 1..Len(a)
        PROVE  k[2] <= a[i].id /\ (k[2] = a[i].id => a[i].job \in WriteJobs)
    <3>1. CASE i = Len(q) + 1
      BY <1>1, <2>1, <3>1
    <3>2. CASE i \in 1..Len(q)
      BY <1>1, <3>2 DEF Ordered
    <3> QED BY <1>1, <3>1, <3>2
  <2> QED BY <2>1, <2>2
<1>6. r # NoReq => r.id = id + 1
  OBVIOUS
<1>7. Ordered(id + 1, r, a, pending)
  BY <1>4, <1>5, <1>6 DEF Ordered
<1> QED BY <1>7 DEF a

\* The next request of an operation has its id.
LEMMA OrderedNext ==
    ASSUME NEW id \in Nat, NEW req \in Req, NEW q \in Seq(Req), NEW pending \in SUBSET Keys,
           Ordered(id, req, q, pending), NEW r \in Req, r.id = req.id,
           r.job \in WriteJobs <=> req.job \in WriteJobs
    PROVE  Ordered(id, r, Append(q, r), pending)
<1> DEFINE a == Append(q, r)
<1>1. /\ Len(q) \in Nat /\ Len(a) = Len(q) + 1 /\ a[Len(q) + 1] = r
      /\ \A i \in 1..Len(q) : a[i] = q[i]
  BY LenProperties, AppendProperties
<1>2. r.id = id /\ req # NoReq
  BY ReqFacts DEF Ordered
<1>3. \A i \in 1..Len(q) : q[i].id <= r.id /\ Related(q[i], r)
  BY <1>2 DEF Ordered, Related
<1> HIDE DEF a
<1>4. ASSUME NEW i \in 1..Len(a)
      PROVE  /\ a[i].id <= id
             /\ Related(a[i], r)
             /\ \A j \in 1..Len(a) : i <= j => a[i].id <= a[j].id /\ Related(a[i], a[j])
  <2>1. CASE i = Len(q) + 1
    <3>1. a[i] = r
      BY <1>1, <2>1
    <3>2. \A j \in 1..Len(a) : i <= j => a[j] = r
      BY <1>1, <2>1
    <3> QED BY <1>2, <3>1, <3>2 DEF Related
  <2>2. CASE i \in 1..Len(q)
    <3>1. a[i] = q[i] /\ a[i].id <= r.id /\ Related(a[i], r)
      BY <1>1, <1>3, <2>2
    <3>2. ASSUME NEW j \in 1..Len(a), i <= j PROVE a[i].id <= a[j].id /\ Related(a[i], a[j])
      <4>1. CASE j = Len(q) + 1
        BY <1>1, <3>1, <4>1
      <4>2. CASE j \in 1..Len(q)
        BY <1>1, <2>2, <3>2, <4>2 DEF Ordered
      <4> QED BY <1>1, <4>1, <4>2
    <3> QED BY <1>2, <3>1, <3>2
  <2> QED BY <1>1, <2>1, <2>2
<1>5. ASSUME NEW k \in pending
      PROVE  /\ k[2] <= id /\ (k[2] = r.id => r.job \in WriteJobs)
             /\ \A i \in 1..Len(a) : k[2] <= a[i].id /\ (k[2] = a[i].id => a[i].job \in WriteJobs)
  <2>1. k[2] <= id /\ (k[2] = r.id => r.job \in WriteJobs) /\ k[2] <= r.id
    BY <1>2 DEF Ordered
  <2>2. ASSUME NEW i \in 1..Len(a)
        PROVE  k[2] <= a[i].id /\ (k[2] = a[i].id => a[i].job \in WriteJobs)
    <3>1. CASE i = Len(q) + 1
      BY <1>1, <2>1, <3>1
    <3>2. CASE i \in 1..Len(q)
      BY <1>1, <3>2 DEF Ordered
    <3> QED BY <1>1, <3>1, <3>2
  <2> QED BY <2>1, <2>2
<1>6. Ordered(id, r, a, pending)
  BY <1>2, <1>4, <1>5 DEF Ordered
<1> QED BY <1>6 DEF a

\* The oldest request is behind none.
LEMMA HeadFirst ==
    ASSUME NEW id, NEW req, NEW q \in Seq(Req), NEW pending, Ordered(id, req, q, pending), q # << >>
    PROVE  /\ Head(q).id <= id /\ (req # NoReq => Related(Head(q), req))
           /\ \A k \in pending : k[2] <= Head(q).id /\ (k[2] = Head(q).id => Head(q).job \in WriteJobs)
           /\ \A i \in 1..Len(Tail(q)) : Head(q).id <= Tail(q)[i].id /\ Related(Head(q), Tail(q)[i])
<1>1. /\ Head(q) = q[1] /\ 1 \in 1..Len(q) /\ Len(q) \in Nat
      /\ \A i \in 1..Len(Tail(q)) : i + 1 \in 1..Len(q) /\ Tail(q)[i] = q[i + 1] /\ 1 <= i + 1
  <2>1. Head(q) = q[1] /\ Len(q) \in Nat /\ Len(Tail(q)) = Len(q) - 1
        /\ \A i \in 1..Len(Tail(q)) : Tail(q)[i] = q[i + 1]
    BY LenProperties, HeadTailProperties
  <2>2. Len(q) # 0
    BY EmptySeq
  <2> QED BY <2>1, <2>2
<1> QED BY <1>1 DEF Ordered

\* A write is entered with the id of its first request, as that is handled.
LEMMA OrderedEnter ==
    ASSUME NEW id, NEW req, NEW q \in Seq(Req), NEW pending, Ordered(id, req, q, pending),
           q # << >>, Head(q).job \in WriteJobs, NEW c, NEW pending2,
           pending2 \subseteq pending \cup {<<c, Head(q).id>>}
    PROVE  Ordered(id, req, Tail(q), pending2)
<1>1. Tail(q) \in Seq(Req) /\ Behind(Tail(q), q)
  BY HeadTailProperties, BehindFacts
<1>2. Ordered(id, req, Tail(q), pending)
  BY <1>1, OrderedLess
<1> DEFINE k == <<c, Head(q).id>>
<1>3. /\ k[2] <= id
      /\ req # NoReq /\ k[2] = req.id => req.job \in WriteJobs
      /\ \A i \in 1..Len(Tail(q)) : /\ k[2] <= Tail(q)[i].id
                                    /\ k[2] = Tail(q)[i].id => Tail(q)[i].job \in WriteJobs
  BY HeadFirst DEF Related
<1>4. \A x \in pending2 : x \in pending \/ x = k
  OBVIOUS
<1> HIDE DEF k
<1> QED BY <1>2, <1>3, <1>4 DEF Ordered

\* No request with the id of the pending write k is left.
Over(req, q, k) ==
    /\ req # NoReq => req.id # k[2]
    /\ \A i \in 1..Len(q) : q[i].id # k[2]

\* When a request that is not of a write is handled, no write that is pending
\* can go on.
LEMMA OrderedOver ==
    ASSUME NEW id, id \in Nat, NEW req, req \in Req \cup {NoReq}, NEW q, q \in Seq(Req),
           NEW pending, pending \subseteq Keys, Ordered(id, req, q, pending),
           q # << >>, Head(q).job \notin WriteJobs, NEW k, k \in pending
    PROVE  Over(req, Tail(q), k) /\ Head(q).id # k[2]
<1>1. Head(q) \in Req /\ Tail(q) \in Seq(Req)
  BY HeadTailProperties
<1>2. Head(q).id \in Nat /\ k[2] \in Nat
  BY <1>1, ReqFacts, Bounds DEF Keys
<1>3. k[2] < Head(q).id
  BY <1>2, HeadFirst
<1>4. req # NoReq => req.id # k[2]
  <2>1. Head(q).id <= id /\ (req # NoReq => req.id = id)
    BY HeadFirst DEF Ordered
  <2> QED BY <1>2, <1>3, <2>1
<1>5. ASSUME NEW i \in 1..Len(Tail(q)) PROVE Tail(q)[i].id # k[2]
  <2>1. Head(q).id <= Tail(q)[i].id
    BY HeadFirst
  <2>2. Tail(q)[i].id \in Nat
    BY <1>1, ElementOfSeq, ReqFacts, Bounds
  <2> QED BY <1>2, <1>3, <2>1, <2>2
<1>6. Head(q).id # k[2]
  BY <1>2, <1>3
<1> QED BY <1>4, <1>5, <1>6 DEF Over

-----------------------------------------------------------------------------
(* Object ids: steps that begin nothing and remove nothing *)

\* Clients at most leave their operations.
ClientsStay ==
    \A c \in Client : /\ client'[c].req \in {client[c].req, NoReq}
                      /\ OneProcess => client'[c].id = client[c].id

\* The worker at most turns to the oldest request.
WorkStays ==
    work' # Idle => \/ work # Idle /\ key(work'.req) = key(work.req)
                    \/ jobs # << >> /\ key(work'.req) = key(Head(jobs))

\* No removal begins.
RemovalStays ==
    work' # Idle /\ work'.kind = "DELETE" => work # Idle /\ work.kind = "DELETE"

\* Pending writes at most end or go on.
SameWrites ==
    /\ DOMAIN pending_writes' \subseteq DOMAIN pending_writes
    /\ \A k \in DOMAIN pending_writes' :
        /\ pending_writes'[k].path = pending_writes[k].path
        /\ pending_writes'[k].obj = pending_writes[k].obj

\* No file but that at p appears, with a new object id; no file disappears or
\* changes its id.
Grows(p) ==
    /\ DOMAIN meta \subseteq DOMAIN meta' /\ DOMAIN meta' \subseteq DOMAIN meta \cup {p}
    /\ \A x \in DOMAIN meta : meta'[x].obj = meta[x].obj
    /\ objects' >= objects
    /\ p \in DOMAIN meta' \ DOMAIN meta => meta'[p].obj = objects + 1 /\ objects' = objects + 1

\* The types of what the invariant speaks of.
LEMMA IdTypes ==
    ASSUME Typed
    PROVE  /\ jobs \in Seq(Req) /\ Len(jobs) \in Nat /\ objects \in Nat
           /\ DOMAIN pending_writes \subseteq Keys
           /\ \A c \in Client : client[c].id \in Nat /\ client[c].req \in Req \cup {NoReq}
           /\ \A p \in DOMAIN meta : meta[p].obj \in Nat /\ p \in Path
           /\ \A k \in DOMAIN pending_writes : pending_writes[k].obj \in Nat
<1>1. jobs \in Seq(Req) /\ Len(jobs) \in Nat /\ objects \in Nat
  BY LenProperties, Bounds DEF Typed, JobsTyped, WorkTyped
<1>2. \A c \in Client : client[c].id \in Nat /\ client[c].req \in Req \cup {NoReq}
  BY ClientFacts, Bounds DEF Typed
<1>3. \A p \in DOMAIN meta : meta[p].obj \in Nat /\ p \in Path
  BY MetaFacts, Bounds DEF Typed, Object
<1>4. \A k \in DOMAIN pending_writes : pending_writes[k].obj \in Nat
  BY PendingFacts, Bounds DEF Typed, Object
<1>5. DOMAIN pending_writes \subseteq Keys
  BY DEF Typed, TableTyped
<1> QED BY <1>1, <1>2, <1>3, <1>4, <1>5

\* Nothing changes in the store.
LEMMA GrowsSame ==
    ASSUME Typed, meta' = meta, objects' = objects \/ objects' = objects + 1, NEW p
    PROVE  Grows(p)
BY IdTypes DEF Grows

\* The queue stays in order.
LEMMA LessOrder ==
    ASSUME Typed, Typed', JobsInv, OrderInv, Behind(jobs', jobs), ClientsStay,
           DOMAIN pending_writes' \subseteq DOMAIN pending_writes
    PROVE  JobsInv' /\ OrderInv'
<1>1. jobs \in Seq(Req) /\ jobs' \in Seq(Req)
  BY DEF Typed, JobsTyped
<1>2. JobsInv'
  <2>1. PICK k \in Nat : \A i \in 1..Len(jobs') :
              /\ i + k \in 1..Len(jobs) /\ jobs'[i] = jobs[i + k] /\ jobs[i + k] \in Req
    BY <1>1, BehindMember
  <2> QED BY <2>1 DEF JobsInv, Renaming
<1>3. ASSUME OneProcess, NEW c \in Client
      PROVE  Ordered(client'[c].id, client'[c].req, jobs', DOMAIN pending_writes')
  <2>1. Ordered(client[c].id, client[c].req, jobs, DOMAIN pending_writes)
    BY <1>3 DEF OrderInv
  <2>2. client'[c].id = client[c].id /\ client'[c].req \in {client[c].req, NoReq}
    BY <1>3 DEF ClientsStay
  <2>3. Ordered(client[c].id, client'[c].req, jobs', DOMAIN pending_writes')
    <3>1. PICK id, req, q, pending :
             /\ id = client[c].id /\ req = client[c].req /\ q = jobs /\ q \in Seq(Req)
             /\ pending = DOMAIN pending_writes
      BY <1>1
    <3>2. PICK r, P, req2 :
             /\ r = jobs' /\ P = DOMAIN pending_writes' /\ req2 = client'[c].req
             /\ r \in Seq(Req) /\ P \subseteq pending /\ (req2 = req \/ req2 = NoReq)
      BY <1>1, <2>2, <3>1
    <3>3. Ordered(id, req, q, pending) /\ Behind(r, q)
      BY <2>1, <3>1, <3>2
    <3>4. Ordered(id, req2, r, P)
      BY <3>1, <3>2, <3>3, OrderedLess
    <3> QED BY <3>1, <3>2, <3>4
  <2> QED BY <2>2, <2>3
<1>4. OrderInv'
  BY <1>3 DEF OrderInv
<1> QED BY <1>2, <1>4

\* No conversation comes back.
LEMMA LessUnderway ==
    ASSUME Typed, Typed', Behind(jobs', jobs), ClientsStay, WorkStays, NEW k \in Keys, Underway(k)'
    PROVE  Underway(k)
<1>1. jobs \in Seq(Req) /\ jobs' \in Seq(Req)
  BY DEF Typed, JobsTyped
<1>2. CASE \E i \in 1..Len(jobs') : key(jobs'[i]) = k
  <2>1. PICK n \in Nat : \A i \in 1..Len(jobs') :
              /\ i + n \in 1..Len(jobs) /\ jobs'[i] = jobs[i + n] /\ jobs[i + n] \in Req
    BY <1>1, BehindMember
  <2> QED BY <1>2, <2>1 DEF Underway
<1>3. CASE work' # Idle /\ key(work'.req) = k
  <2>1. CASE work # Idle /\ key(work'.req) = key(work.req)
    BY <1>3, <2>1 DEF Underway
  <2>2. CASE jobs # << >> /\ key(work'.req) = key(Head(jobs))
    <3>1. Head(jobs) = jobs[1] /\ 1 \in 1..Len(jobs)
      <4>1. Len(jobs) \in Nat /\ Len(jobs) # 0
        BY <1>1, <2>2, LenProperties, EmptySeq
      <4> QED BY <1>1, <2>2, <4>1, HeadTailProperties
    <3> QED BY <1>3, <2>2, <3>1 DEF Underway
  <2> QED BY <1>3, <2>1, <2>2 DEF WorkStays
<1>4. CASE client'[k[1]].req # NoReq /\ client'[k[1]].req.id = k[2]
  <2>1. k[1] \in Client
    BY DEF Keys
  <2> QED BY <1>4, <2>1 DEF ClientsStay, Underway
<1> QED BY <1>2, <1>3, <1>4 DEF Underway, key

\* Object ids stay unique and below the number of those generated.
LEMMA GrowsIds ==
    ASSUME Typed, Typed', ObjectsInv, ObjectIdentity, NEW p, Grows(p)
    PROVE  ObjectIdentity' /\ \A x \in DOMAIN meta' : meta'[x].obj <= objects'
<1>1. /\ \A x \in DOMAIN meta : meta[x].obj \in Nat /\ meta[x].obj <= objects
      /\ \A x \in DOMAIN meta' : meta'[x].obj \in Nat
      /\ objects \in Nat /\ objects' \in Nat
  <2>1. \A x \in DOMAIN meta' : meta'[x].obj \in Nat
    BY MetaFacts, Bounds DEF Typed, Object
  <2>2. objects' \in Nat
    BY Bounds DEF Typed, WorkTyped
  <2> QED BY <2>1, <2>2, IdTypes DEF ObjectsInv
<1>2. \A x \in DOMAIN meta' : x \in DOMAIN meta \/ (x = p /\ p \in DOMAIN meta' \ DOMAIN meta)
  BY DEF Grows
<1>3. ASSUME NEW x \in DOMAIN meta', NEW y \in DOMAIN meta', meta'[x].obj = meta'[y].obj
      PROVE  x = y
  <2>1. CASE x \in DOMAIN meta /\ y \in DOMAIN meta
    BY <1>3, <2>1 DEF Grows, ObjectIdentity
  <2>2. ASSUME NEW u \in DOMAIN meta, p \in DOMAIN meta' \ DOMAIN meta
        PROVE  meta'[u].obj # meta'[p].obj
    BY <1>1, <2>2 DEF Grows
  <2> QED BY <1>2, <1>3, <2>1, <2>2
<1>4. ASSUME NEW x \in DOMAIN meta' PROVE meta'[x].obj <= objects'
  BY <1>1, <1>2 DEF Grows
<1> QED BY <1>3, <1>4 DEF ObjectIdentity

\* A step that begins no write and removes nothing keeps the ids.
LEMMA QuietStep ==
    ASSUME Typed, Typed', Ids, Behind(jobs', jobs), ClientsStay, WorkStays, SameWrites,
           RemovalStays \/ RemovalInv', NEW p, Grows(p)
    PROVE  Ids'
<1>1. JobsInv' /\ OrderInv'
  BY LessOrder DEF Ids, SameWrites
<1>2. ObjectIdentity' /\ \A x \in DOMAIN meta' : meta'[x].obj <= objects'
  BY GrowsIds DEF Ids
<1>3. /\ \A k \in DOMAIN pending_writes : pending_writes[k].obj \in Nat
      /\ objects \in Nat /\ objects' \in Nat
      /\ DOMAIN pending_writes \subseteq Keys
  BY IdTypes, Bounds DEF Typed, WorkTyped
<1>4. ASSUME NEW k \in DOMAIN pending_writes' PROVE pending_writes'[k].obj <= objects'
  BY <1>3 DEF Ids, ObjectsInv, SameWrites, Grows
<1>5. ASSUME NEW k \in DOMAIN pending_writes', Guarded \/ Underway(k)'
      PROVE  BoundAt(k)'
  <2>1. k \in DOMAIN pending_writes /\ k \in Keys
    BY <1>3 DEF SameWrites
  <2>2. Guarded \/ Underway(k)
    BY <1>5, <2>1, LessUnderway
  <2>3. BoundAt(k)
    BY <2>1, <2>2 DEF Ids, BoundInv
  <2> QED BY <2>1, <2>3 DEF BoundAt, SameWrites, Grows
<1>6. BoundInv'
  BY <1>5 DEF BoundInv, Guarded, Renaming
<1>7. RemovalInv'
  <2> SUFFICES ASSUME RemovalStays, OneProcess, work' # Idle, work'.kind = "DELETE",
                      NEW k \in DOMAIN pending_writes', Underway(k)'
               PROVE  FALSE
    BY DEF RemovalInv, OneProcess
  <2>1. k \in DOMAIN pending_writes /\ k \in Keys
    BY <1>3 DEF SameWrites
  <2>2. Underway(k)
    BY <2>1, LessUnderway
  <2> QED BY <2>1, <2>2 DEF Ids, RemovalInv, RemovalStays
<1> QED BY <1>1, <1>2, <1>4, <1>6, <1>7 DEF Ids, ObjectsInv

\* Writes that are left alone, erased or advanced.
LEMMA WritesStay ==
    ASSUME TableTyped(pending_writes), NEW k,
           \/ pending_writes' = pending_writes
           \/ pending_writes' = Drop(pending_writes, k)
           \/ /\ k \in DOMAIN pending_writes
              /\ pending_writes[k].next < pending_writes[k].count
              /\ pending_writes' = [pending_writes EXCEPT ![k].next = @ + 1]
    PROVE  SameWrites
<1>1. CASE pending_writes' = pending_writes
  BY <1>1 DEF SameWrites
<1>2. CASE pending_writes' = Drop(pending_writes, k)
  <2>1. /\ DOMAIN Drop(pending_writes, k) = DOMAIN pending_writes \ {k}
        /\ \A x \in DOMAIN pending_writes : x # k => Drop(pending_writes, k)[x] = pending_writes[x]
    BY TableDrop
  <2> QED BY <1>2, <2>1 DEF SameWrites
<1>3. CASE /\ k \in DOMAIN pending_writes
           /\ pending_writes[k].next < pending_writes[k].count
           /\ pending_writes' = [pending_writes EXCEPT ![k].next = @ + 1]
  <2>1. PICK g : g = pending_writes' /\ g = [pending_writes EXCEPT ![k].next = @ + 1]
    BY <1>3
  <2>2. DOMAIN g = DOMAIN pending_writes
        /\ \A x \in DOMAIN pending_writes :
              g[x].path = pending_writes[x].path /\ g[x].obj = pending_writes[x].obj
    BY <1>3, <2>1, TableNext
  <2> QED BY <2>1, <2>2 DEF SameWrites
<1> QED BY <1>1, <1>2, <1>3

\* A file is stored at p: one that was there keeps its id, another gets a new
\* one.
LEMMA GrowsSet ==
    ASSUME Typed, NEW p \in Path, NEW m \in Metadata, meta' = Set(meta, p, m),
           p \in DOMAIN meta => m.obj = meta[p].obj /\ objects' = objects,
           p \notin DOMAIN meta => m.obj = objects + 1 /\ objects' = objects + 1
    PROVE  Grows(p) /\ p \in DOMAIN meta' /\ meta'[p] = m
<1>1. DOMAIN meta \subseteq Path /\ meta \in [DOMAIN meta -> Metadata]
  BY DEF Typed, StoreOk
<1>2. PICK f : f = meta' /\ f = Set(meta, p, m)
  OBVIOUS
<1>3. /\ DOMAIN f = DOMAIN meta \cup {p} /\ f[p] = m
      /\ \A x \in DOMAIN meta : x # p => f[x] = meta[x]
  <2>1. /\ DOMAIN Set(meta, p, m) = DOMAIN meta \cup {p} /\ Set(meta, p, m)[p] = m
        /\ \A x \in DOMAIN meta : x # p => Set(meta, p, m)[x] = meta[x]
    BY <1>1, SetFacts
  <2> QED BY <1>2, <2>1
<1>4. \A x \in DOMAIN meta : f[x].obj = meta[x].obj
  BY <1>3
<1>5. objects' >= objects
  BY IdTypes
<1>6. p \in DOMAIN f \ DOMAIN meta => f[p].obj = objects + 1 /\ objects' = objects + 1
  BY <1>3
<1> QED BY <1>2, <1>3, <1>4, <1>5, <1>6 DEF Grows

\* The worker has taken a request and is idle again.
LEMMA HandledIds ==
    ASSUME Typed, Typed', Ids, NEW job, Taking(job), work' = Idle, client' = client, SameWrites,
           NEW p, Grows(p)
    PROVE  Ids'
<1>1. Behind(jobs', jobs)
  <2>1. jobs \in Seq(Req) /\ jobs # << >> /\ jobs' = Tail(jobs)
    BY DEF Typed, JobsTyped, Taking
  <2> QED BY <2>1, BehindFacts
<1>2. ClientsStay /\ WorkStays /\ RemovalStays
  BY DEF ClientsStay, WorkStays, RemovalStays
<1> QED BY <1>1, <1>2, QuietStep

\* The store changes as it is asked to, or not at all.
LEMMA ChangeCases ==
    ASSUME NEW req, NEW f, NEW d, StoreChange(req, f, d)
    PROVE  (meta' = f /\ dirs' = d) \/ (meta' = meta /\ dirs' = dirs)
BY DEF StoreChange, store

\* CREATE_FILE
LEMMA CreateIds == ASSUME Typed, Typed', Ids, HandleCreateFile PROVE Ids'
<1> DEFINE req == Head(jobs)
<1>1. Taking("CREATE_FILE") /\ req \in Req /\ work' = Idle /\ client' = client
      /\ pending_writes' = pending_writes /\ objects' = objects + 1 /\ objects \in 0..MaxObjects
      /\ objects < MaxObjects
  BY TakingTyped DEF HandleCreateFile, tables
<1>2. SameWrites
  BY <1>1, WritesStay DEF Typed
<1>3. Grows(req.p)
  <2>1. CASE meta' = meta
    BY <1>1, <2>1, GrowsSame
  <2>2. CASE ~exists(req.p) /\ meta' = Set(meta, req.p, NewFile(objects + 1))
    <3>1. objects + 1 \in Object /\ req.p \in Path /\ req.p \notin DOMAIN meta
      BY <1>1, <2>2, ReqFacts, Bounds DEF Object, exists
    <3>2. NewFile(objects + 1) \in Metadata /\ NewFile(objects + 1).obj = objects + 1
      BY <3>1, NewFileTyped
    <3> QED BY <1>1, <2>2, <3>1, <3>2, GrowsSet
  <2> QED BY <2>1, <2>2, ChangeCases DEF HandleCreateFile, Refuse, store
<1> QED BY <1>1, <1>2, <1>3, HandledIds

\* Handlers that change neither files nor pending writes.
LEMMA LookIds ==
    ASSUME Typed, Typed', Ids,
           HandleMakeDir \/ HandleList \/ HandleStat \/ HandleReadFile
    PROVE  Ids'
<1>1. \E job : Taking(job)
  BY DEF HandleMakeDir, HandleList, HandleStat, HandleReadFile
<1>2. work' = Idle /\ client' = client /\ pending_writes' = pending_writes /\ objects' = objects
  BY DEF HandleMakeDir, HandleList, HandleStat, HandleReadFile, Taking, tables
<1>3. meta' = meta
  BY ChangeCases DEF HandleMakeDir, HandleList, HandleStat, HandleReadFile, Refuse, store
<1>4. SameWrites
  BY <1>2, WritesStay DEF Typed
<1>5. \A p : Grows(p)
  BY <1>2, <1>3, GrowsSame
<1> QED BY <1>1, <1>2, <1>4, <1>5, HandledIds

\* Steps of storage nodes and heartbeats, and no step.
LEMMA ElsewhereIds ==
    ASSUME Typed, Typed', Ids, UNCHANGED <<client, jobs, work, meta, pending_writes, objects>>
    PROVE  Ids'
<1>1. Behind(jobs', jobs)
  BY BehindFacts DEF Typed, JobsTyped
<1>2. ClientsStay /\ WorkStays /\ RemovalStays
  BY DEF ClientsStay, WorkStays, RemovalStays
<1>3. SameWrites
  BY WritesStay DEF Typed
<1>4. \A p : Grows(p)
  BY GrowsSame
<1> QED BY <1>1, <1>2, <1>3, <1>4, QuietStep

\* The metadata node starts again.
LEMMA MetadataRestartIds == ASSUME Typed, Typed', Ids, MetadataRestart PROVE Ids'
<1>1. Behind(jobs', jobs)
  BY BehindFacts DEF Typed, JobsTyped, MetadataRestart
<1>2. ClientsStay /\ WorkStays /\ RemovalStays /\ meta' = meta /\ objects' = objects
  BY DEF ClientsStay, WorkStays, RemovalStays, MetadataRestart, clientVars, store
<1>3. SameWrites
  BY DEF MetadataRestart, SameWrites
<1>4. \A p : Grows(p)
  BY <1>2, GrowsSame
<1> QED BY <1>1, <1>2, <1>3, <1>4, QuietStep

\* A client leaves its operation, or starts again.
LEMMA LeaveIds ==
    ASSUME Typed, Typed', Ids, ClientsStay, UNCHANGED <<jobs, work, meta, pending_writes, objects>>
    PROVE  Ids'
<1>1. Behind(jobs', jobs)
  BY BehindFacts DEF Typed, JobsTyped
<1>2. WorkStays /\ RemovalStays
  BY DEF WorkStays, RemovalStays
<1>3. SameWrites
  BY WritesStay DEF Typed
<1>4. \A p : Grows(p)
  BY GrowsSame
<1> QED BY <1>1, <1>2, <1>3, <1>4, QuietStep

-----------------------------------------------------------------------------
(* Object ids: clients *)

\* A request is sent: nothing changes but the queue and one client.
LEMMA SentIds ==
    ASSUME Typed, Typed', Ids, NEW c \in Client, NEW r \in Req, r.c = c, jobs' = Append(jobs, r),
           r.job = "RENAME" => Renaming,
           \A d \in Client \ {c} : client'[d].req = client[d].req,
           client'[c].req = r,
           OneProcess => OrderInv' /\ (key(r) \in DOMAIN pending_writes => Underway(key(r))),
           UNCHANGED <<work, meta, pending_writes, objects>>,
           Undisputed
    PROVE  Ids'
<1>1. /\ Len(jobs) \in Nat /\ Len(jobs') = Len(jobs) + 1 /\ jobs'[Len(jobs) + 1] = r
      /\ \A i \in 1..Len(jobs) : jobs'[i] = jobs[i]
  <2>1. jobs \in Seq(Req)
    BY DEF Typed, JobsTyped
  <2> QED BY <2>1, LenProperties, AppendProperties
<1>2. JobsInv'
  <2> SUFFICES ASSUME NEW i \in 1..Len(jobs'), jobs'[i].job = "RENAME" PROVE Renaming
    BY DEF JobsInv, Renaming
  <2>1. i = Len(jobs) + 1 \/ i \in 1..Len(jobs)
    BY <1>1
  <2> QED BY <1>1, <2>1 DEF Ids, JobsInv
<1>3. OrderInv'
  BY DEF OrderInv, OneProcess
<1>4. ObjectsInv' /\ ObjectIdentity'
  BY DEF Ids, ObjectsInv, ObjectIdentity
<1>5. ASSUME OneProcess, NEW k \in DOMAIN pending_writes, Underway(k)' PROVE Underway(k)
  <2>1. k \in Keys /\ k[1] \in Client
    BY IdTypes DEF Keys
  <2>2. k = key(r) \/ Underway(k)
    <3>1. CASE \E i \in 1..Len(jobs') : key(jobs'[i]) = k
      <4>1. PICK i \in 1..Len(jobs') : key(jobs'[i]) = k
        BY <3>1
      <4>2. i = Len(jobs) + 1 \/ i \in 1..Len(jobs)
        BY <1>1
      <4> QED BY <1>1, <4>1, <4>2 DEF Underway
    <3>2. CASE work' # Idle /\ key(work'.req) = k
      BY <3>2 DEF Underway
    <3>3. CASE client'[k[1]].req # NoReq /\ client'[k[1]].req.id = k[2]
      <4>1. CASE k[1] = c
        BY <2>1, <3>3, <4>1 DEF key, Keys
      <4>2. CASE k[1] # c
        BY <2>1, <3>3, <4>2 DEF Underway
      <4> QED BY <4>1, <4>2
    <3> QED BY <1>5, <3>1, <3>2, <3>3 DEF Underway, key
  <2> QED BY <1>5, <2>2
<1>6. BoundInv'
  <2> SUFFICES ASSUME NEW k \in DOMAIN pending_writes', Guarded \/ Underway(k)'
               PROVE  BoundAt(k)'
    BY DEF BoundInv, Guarded, Renaming
  <2>1. Guarded \/ Underway(k)
    BY <1>5 DEF Undisputed
  <2>2. BoundAt(k)
    BY <2>1 DEF Ids, BoundInv
  <2> QED BY <2>2 DEF BoundAt
<1>7. RemovalInv'
  <2> SUFFICES ASSUME OneProcess, work' # Idle, work'.kind = "DELETE",
                      NEW k \in DOMAIN pending_writes, Underway(k)'
               PROVE  FALSE
    BY DEF RemovalInv, OneProcess
  <2> QED BY <1>5 DEF Ids, RemovalInv
<1> QED BY <1>2, <1>3, <1>4, <1>6, <1>7 DEF Ids

\* A client begins an operation.
LEMMA BeginIds ==
    ASSUME Typed, Typed', Ids, Undisputed, NEW c \in Client, NEW job \in Jobs, NEW p \in Path,
           NEW q \in Path, NEW n \in 0..MaxChunks, Begin(c, job, p, q, n)
    PROVE  Ids'
<1> DEFINE v == IF job = "WRITE_FILE" THEN writes + 1 ELSE 0
           req == Request(c, client[c].id + 1, job, p, q, n, v)
<1>1. PICK r :
        /\ r = req /\ jobs' = Append(jobs, r)
        /\ client' = [d \in Client |->
              IF d = c
              THEN [id |-> r.id, req |-> r, n |-> n, got |-> << >>,
                    snap |-> settled[p], result |-> None]
              ELSE [client[d] EXCEPT !.snap = IF Disturbs(r, client[d].req) THEN None ELSE @]]
  BY DEF Begin
<1>2. r.c = c /\ r.id = client[c].id + 1 /\ r.job = job
  BY <1>1 DEF Request
<1>3. client'[c].req = r /\ client'[c].id = r.id
  BY <1>1
<1>4. r \in Req
  <2>1. jobs' \in Seq(Req) /\ jobs \in Seq(Req) /\ Len(jobs) \in Nat
    BY LenProperties DEF Typed, JobsTyped
  <2>2. client'[c].req \in Req \cup {NoReq}
    BY DEF Typed, ClientTyped, ClientState
  <2>3. r # NoReq
    <3>1. DOMAIN r = {"c", "id", "job", "p", "q", "x", "v"} /\ DOMAIN NoReq = {"job"}
      BY <1>1 DEF Request, NoReq
    <3> QED BY <3>1
  <2> QED BY <1>3, <2>2, <2>3
<1>5. \A d \in Client \ {c} : client'[d].req = client[d].req
  <2> SUFFICES ASSUME NEW d \in Client, d # c PROVE client'[d].req = client[d].req
    OBVIOUS
  <2>1. client[d] \in ClientState
    BY ClientFacts DEF Typed
  <2>2. client'[d] = [client[d] EXCEPT !.snap = IF Disturbs(r, client[d].req) THEN None ELSE @]
    BY <1>1
  <2> QED BY <2>1, <2>2 DEF ClientState
<1>6. ASSUME OneProcess
      PROVE  OrderInv' /\ (key(r) \in DOMAIN pending_writes => Underway(key(r)))
  <2>1. \A d \in Client : d = c
    BY <1>6 DEF OneProcess
  <2>2. /\ Ordered(client[c].id, client[c].req, jobs, DOMAIN pending_writes)
        /\ client[c].id \in Nat /\ jobs \in Seq(Req) /\ DOMAIN pending_writes \in SUBSET Keys
    BY <1>6, IdTypes DEF Ids, OrderInv
  <2>3. PICK id, x, P, a :
           /\ id = client[c].id /\ x = client[c].req /\ P = DOMAIN pending_writes /\ a = jobs
           /\ id \in Nat /\ P \in SUBSET Keys /\ a \in Seq(Req)
    BY <2>2
  <2>4. Ordered(id, x, a, P) /\ r.id = id + 1
    BY <1>2, <2>2, <2>3
  <2>5. Ordered(id + 1, r, Append(a, r), P)
    BY <1>4, <2>3, <2>4, OrderedNew
  <2>6. OrderInv'
    BY <1>1, <1>2, <1>3, <2>1, <2>3, <2>5 DEF OrderInv, Begin, tables
  <2>7. key(r) \notin DOMAIN pending_writes
    <3>1. \A k \in P : k[2] <= id
      BY <2>4 DEF Ordered
    <3>2. key(r)[2] = id + 1
      BY <2>4 DEF key
    <3> QED BY <2>3, <3>1, <3>2
  <2> QED BY <2>6, <2>7
<1>7. r.job = "RENAME" => Renaming
  BY <1>2 DEF Renaming
<1>8. UNCHANGED <<work, meta, pending_writes, objects>>
  BY DEF Begin, store, tables
<1> QED BY <1>1, <1>2, <1>3, <1>4, <1>5, <1>6, <1>7, <1>8, SentIds

\* A client sends the next request of its operation.
LEMMA NextIds ==
    ASSUME Typed, Typed', Ids, Undisputed, NEW c \in Client, NEW req \in Req, client[c].req = req,
           NEW r \in Req, r.c = c, r.id = req.id, r.job # "RENAME",
           r.job \in WriteJobs <=> req.job \in WriteJobs,
           jobs' = Append(jobs, r), client'[c].req = r, client'[c].id = client[c].id,
           \A d \in Client \ {c} : client'[d].req = client[d].req,
           UNCHANGED <<work, meta, pending_writes, objects>>
    PROVE  Ids'
<1>1. ASSUME OneProcess
      PROVE  OrderInv' /\ (key(r) \in DOMAIN pending_writes => Underway(key(r)))
  <2>1. \A d \in Client : d = c
    BY <1>1 DEF OneProcess
  <2>2. /\ Ordered(client[c].id, client[c].req, jobs, DOMAIN pending_writes)
        /\ client[c].id \in Nat /\ jobs \in Seq(Req) /\ DOMAIN pending_writes \in SUBSET Keys
    BY <1>1, IdTypes DEF Ids, OrderInv
  <2>3. PICK id, P, a :
           /\ id = client[c].id /\ P = DOMAIN pending_writes /\ a = jobs
           /\ id \in Nat /\ P \in SUBSET Keys /\ a \in Seq(Req)
    BY <2>2
  <2>4. Ordered(id, req, a, P)
    BY <2>2, <2>3
  <2>5. Ordered(id, r, Append(a, r), P)
    BY <2>3, <2>4, OrderedNext
  <2>6. OrderInv'
    BY <2>1, <2>3, <2>5 DEF OrderInv
  <2>7. Underway(key(r))
    <3>1. key(r)[1] = c /\ key(r)[2] = req.id /\ req # NoReq
      BY ReqFacts DEF key
    <3> QED BY <3>1 DEF Underway
  <2> QED BY <2>6, <2>7
<1> QED BY <1>1, SentIds

\* A client goes on with a response, or leaves.
LEMMA SuccessIds ==
    ASSUME Typed, Typed', Ids, Undisputed, NEW c \in Client, client[c].req \in Req,
           NEW m, ReceiveSuccess(c, m), UNCHANGED <<work, meta, pending_writes, objects>>
    PROVE  Ids'
<1> DEFINE got == client[c].got \o m.data
           i == IF client[c].req.job \in ChunkJobs THEN client[c].req.x + 1 ELSE 0
           n == IF client[c].req.job = "READ_FILE" THEN m.n ELSE client[c].n
           job == IF client[c].req.job \in {"WRITE_FILE", "WRITE_CHUNK"} THEN "WRITE_CHUNK"
                  ELSE "READ_CHUNK"
           next == Request(c, client[c].req.id, job, client[c].req.p, client[c].req.q, i,
                           client[c].req.v)
<1>0. client \in [Client -> ClientState] /\ client' \in [Client -> ClientState]
  BY DEF Typed, ClientTyped
<1>1. CASE /\ jobs' = Append(jobs, next)
           /\ client' = [client EXCEPT ![c].req = next, ![c].got = got, ![c].n = n]
  <2>1. PICK r, g, k : r = next /\ g = got /\ k = n
    OBVIOUS
  <2>2. jobs' = Append(jobs, r)
    BY <1>1, <2>1
  <2>3. client' = [client EXCEPT ![c] = [client[c] EXCEPT !.req = r, !.got = g, !.n = k]]
    BY <1>1, <2>1
  <2>4. /\ client'[c].req = r /\ client'[c].id = client[c].id
        /\ \A d \in Client \ {c} : client'[d].req = client[d].req
    BY <1>0, <2>3 DEF ClientState
  <2>5. r.c = c /\ r.id = client[c].req.id /\ r.job = job
        /\ DOMAIN r = {"c", "id", "job", "p", "q", "x", "v"}
    BY <2>1 DEF Request
  <2>6. r \in Req
    <3>1. client'[c].req \in Req \cup {NoReq}
      BY <1>0 DEF ClientState
    <3>2. DOMAIN NoReq = {"job"}
      BY DEF NoReq
    <3> QED BY <2>4, <2>5, <3>1, <3>2
  <2>7. r.job # "RENAME" /\ (r.job \in WriteJobs <=> client[c].req.job \in WriteJobs)
    BY <2>5 DEF WriteJobs
  <2>8. PICK req \in Req : client[c].req = req
    OBVIOUS
  <2> QED BY <2>2, <2>4, <2>5, <2>6, <2>7, <2>8, NextIds
<1>2. CASE /\ client' = [client EXCEPT ![c].req = NoReq, ![c].result = Result(client[c].req, m, got)]
           /\ UNCHANGED jobs
  <2>1. PICK r : r = Result(client[c].req, m, got)
    OBVIOUS
  <2>2. client' = [client EXCEPT ![c] = [client[c] EXCEPT !.req = NoReq, !.result = r]]
    BY <1>2, <2>1
  <2>3. ClientsStay
    BY <1>0, <2>2 DEF ClientsStay, ClientState
  <2> QED BY <1>2, <2>3, LeaveIds
<1>3. CASE client' = [client EXCEPT ![c].req = NoReq] /\ UNCHANGED jobs
  <2>1. ClientsStay
    BY <1>0, <1>3 DEF ClientsStay, ClientState
  <2> QED BY <1>3, <2>1, LeaveIds
<1> QED BY <1>1, <1>2, <1>3 DEF ReceiveSuccess

\* The steps of a client.
LEMMA ClientIds ==
    ASSUME Typed, Typed', Ids, Undisputed, NEW c \in Client,
           Issue(c) \/ ClientReceive(c) \/ ClientTimeout(c) \/ ClientRestart(c)
    PROVE  Ids'
<1>0. client \in [Client -> ClientState]
  BY DEF Typed, ClientTyped
<1>1. CASE Issue(c)
  BY <1>1, IssueCases, BeginIds
<1>2. CASE ClientReceive(c)
  <2>1. UNCHANGED <<work, meta, pending_writes, objects>>
    BY <1>2 DEF ClientReceive, store, tables
  <2>2. client[c].req \in Req
    BY <1>2, ClientFacts DEF Typed, ClientReceive
  <2>3. CASE \E m \in replies[c] : ReceiveSuccess(c, m)
    BY <2>1, <2>2, <2>3, SuccessIds
  <2>4. CASE client' = [client EXCEPT ![c].req = NoReq] /\ UNCHANGED jobs
    <3>1. ClientsStay
      BY <1>0, <2>4 DEF ClientsStay, ClientState
    <3> QED BY <2>1, <2>4, <3>1, LeaveIds
  <2> QED BY <1>2, <2>3, <2>4 DEF ClientReceive
<1>3. CASE ClientTimeout(c)
  <2>1. ClientsStay
    BY <1>0, <1>3 DEF ClientsStay, ClientState, ClientTimeout
  <2>2. UNCHANGED <<jobs, work, meta, pending_writes, objects>>
    BY <1>3 DEF ClientTimeout, store, tables
  <2> QED BY <2>1, <2>2, LeaveIds
<1>4. CASE ClientRestart(c)
  <2>1. ~OneProcess
    BY <1>4 DEF ClientRestart, Restart, OneProcess
  <2>2. client' = [client EXCEPT ![c] = [client[c] EXCEPT !.id = 0, !.req = NoReq, !.result = None]]
    BY <1>4 DEF ClientRestart
  <2>3. ClientsStay
    BY <1>0, <2>1, <2>2 DEF ClientsStay, ClientState
  <2>4. UNCHANGED <<jobs, work, meta, pending_writes, objects>>
    BY <1>4 DEF ClientRestart, store, tables
  <2> QED BY <2>3, <2>4, LeaveIds
<1> QED BY <1>1, <1>2, <1>3, <1>4

-----------------------------------------------------------------------------
(* Object ids: the worker *)

\* A pending write is entered for the file that is now at its path.
LEMMA EnteredIds ==
    ASSUME Typed, Typed', Ids, Taking("WRITE_FILE"), work' = Idle, client' = client,
           NEW req \in Req, req = Head(jobs), key(req) \notin DOMAIN pending_writes,
           NEW w \in Pending, pending_writes' = Set(pending_writes, key(req), w),
           Grows(req.p), w.path = req.p, req.p \in DOMAIN meta', w.obj = meta'[req.p].obj
    PROVE  Ids'
<1>1. /\ jobs \in Seq(Req) /\ jobs # << >> /\ jobs' = Tail(jobs) /\ Behind(jobs', jobs)
      /\ req.job \in WriteJobs
  <2>1. jobs \in Seq(Req) /\ jobs # << >> /\ jobs' = Tail(jobs) /\ req.job \in WriteJobs
    BY DEF Typed, JobsTyped, Taking, WriteJobs
  <2> QED BY <2>1, BehindFacts
<1>2. ClientsStay /\ WorkStays
  BY DEF ClientsStay, WorkStays
<1>3. PICK f : f = pending_writes' /\ f = Set(pending_writes, key(req), w)
  OBVIOUS
<1>4. /\ DOMAIN f = DOMAIN pending_writes \cup {key(req)} /\ f[key(req)] = w
      /\ \A x \in DOMAIN pending_writes : f[x] = pending_writes[x]
  <2>1. TableTyped(pending_writes) /\ key(req) \in Keys
    BY ReqFacts DEF Typed
  <2>2. PICK k \in Keys : k = key(req)
    BY <2>1
  <2>3. /\ DOMAIN Set(pending_writes, k, w) = DOMAIN pending_writes \cup {k}
        /\ Set(pending_writes, k, w)[k] = w
        /\ \A x \in DOMAIN pending_writes : x # k => Set(pending_writes, k, w)[x] = pending_writes[x]
    BY DEF Set
  <2> QED BY <1>3, <2>2, <2>3
<1>5. ObjectIdentity' /\ \A x \in DOMAIN meta' : meta'[x].obj <= objects'
  BY GrowsIds DEF Ids
<1>6. JobsInv'
  <2>1. \A i \in 1..Len(jobs') : \E j \in 1..Len(jobs) : jobs'[i] = jobs[j]
    <3>1. jobs' \in Seq(Req)
      BY DEF Typed, JobsTyped
    <3> QED BY <1>1, <3>1, BehindMember
  <2> QED BY <2>1 DEF Ids, JobsInv, Renaming
<1>7. OrderInv'
  <2> SUFFICES ASSUME OneProcess, NEW c \in Client
               PROVE  Ordered(client[c].id, client[c].req, Tail(jobs), DOMAIN f)
    BY <1>1, <1>3 DEF OrderInv, OneProcess
  <2>1. PICK id, x, P, q :
           /\ id = client[c].id /\ x = client[c].req /\ P = DOMAIN pending_writes /\ q = jobs
           /\ q \in Seq(Req) /\ q # << >> /\ Head(q) = req
    BY <1>1
  <2>2. Ordered(id, x, q, P)
    BY <2>1 DEF Ids, OrderInv
  <2>3. DOMAIN f \subseteq P \cup {<<req.c, Head(q).id>>}
    BY <1>4, <2>1 DEF key
  <2>4. Head(q).job \in WriteJobs
    BY <1>1, <2>1
  <2>5. Ordered(id, x, Tail(q), DOMAIN f)
    BY <2>1, <2>2, <2>3, <2>4, OrderedEnter
  <2> QED BY <2>1, <2>5
<1>8. ASSUME NEW k \in DOMAIN f
      PROVE  f[k].obj <= objects' /\ (Guarded \/ Underway(k)' => BoundAt(k)')
  <2>1. CASE k = key(req)
    BY <1>3, <1>4, <1>5, <2>1 DEF BoundAt
  <2>2. CASE k \in DOMAIN pending_writes
    <3>1. f[k] = pending_writes[k] /\ k \in Keys
      BY <1>4, <2>2, IdTypes
    <3>2. f[k].obj <= objects'
      <4>1. f[k].obj \in Nat /\ f[k].obj <= objects /\ objects \in Nat /\ objects' \in Nat
        BY <2>2, <3>1, IdTypes, Bounds DEF Ids, ObjectsInv, Typed, WorkTyped
      <4> QED BY <4>1 DEF Grows
    <3>3. ASSUME Guarded \/ Underway(k)' PROVE BoundAt(k)'
      <4>1. Guarded \/ Underway(k)
        BY <1>1, <1>2, <3>1, <3>3, LessUnderway
      <4>2. BoundAt(k)
        BY <2>2, <4>1 DEF Ids, BoundInv
      <4> QED BY <1>3, <3>1, <4>2 DEF BoundAt, Grows
    <3> QED BY <3>2, <3>3
  <2> QED BY <1>4, <2>1, <2>2
<1>9. BoundInv'
  BY <1>3, <1>8 DEF BoundInv, Guarded, Renaming
<1>10. ObjectsInv' /\ RemovalInv'
  BY <1>3, <1>5, <1>8 DEF ObjectsInv, RemovalInv
<1> QED BY <1>5, <1>6, <1>7, <1>9, <1>10 DEF Ids

\* A write is entered or, where the client has one with this id, refused.
LEMMA EnterIds ==
    ASSUME Typed, Typed', Ids, Taking("WRITE_FILE"), work' = Idle, client' = client,
           NEW req \in Req, req = Head(jobs), req.x # 0,
           NEW m, m.obj \in Object, m.replicas \in Pair, EnterWrite(req, m),
           Grows(req.p), req.p \in DOMAIN meta', m.obj = meta'[req.p].obj
    PROVE  Ids'
<1> DEFINE w == [path |-> req.p, obj |-> m.obj, count |-> req.x, next |-> 0, replicas |-> m.replicas]
<1>1. w \in Pending /\ w.path = req.p /\ w.obj = m.obj
  BY ReqFacts, EntryTyped
<1>2. pending_writes' = IF key(req) \in DOMAIN pending_writes THEN pending_writes
                        ELSE Set(pending_writes, key(req), w)
  BY DEF EnterWrite
<1> HIDE DEF w
<1>3. CASE pending_writes' = pending_writes
  <2>1. SameWrites
    BY <1>3, WritesStay DEF Typed
  <2> QED BY <2>1, HandledIds
<1>4. CASE key(req) \notin DOMAIN pending_writes /\ pending_writes' = Set(pending_writes, key(req), w)
  BY <1>1, <1>4, EnteredIds
<1> QED BY <1>2, <1>3, <1>4

\* WRITE_FILE
LEMMA WriteFileIds == ASSUME Typed, Typed', Ids, HandleWriteFile PROVE Ids'
<1>1. PICK req \in Req : req = Head(jobs)
  BY TakingTyped DEF HandleWriteFile
<1>2. PICK m : m = Target(req.p)
  OBVIOUS
<1> DEFINE new == req.p \notin DOMAIN meta
<1>3. /\ Taking("WRITE_FILE") /\ work' = Idle /\ client' = client /\ req.p \in Path
      /\ (new => objects < MaxObjects) /\ objects' = IF new THEN objects + 1 ELSE objects
  BY <1>1, ReqFacts DEF HandleWriteFile, Taking
<1>4. /\ m \in Metadata /\ m.obj \in Object /\ m.replicas \in Pair \cup {None}
      /\ req.p \in DOMAIN meta => m = meta[req.p]
      /\ req.p \notin DOMAIN meta => m.obj = objects + 1
  BY <1>2, <1>3, TargetTyped DEF Typed, WorkTyped
<1>5. req.p \notin DOMAIN meta => m.replicas = None
  BY <1>2 DEF Target, NewFile
<1>6. ASSUME UNCHANGED pending_writes, Grows(req.p) PROVE Ids'
  <2>1. SameWrites
    BY <1>6, WritesStay DEF Typed
  <2> QED BY <1>3, <1>6, <2>1, HandledIds
<1>7. ASSUME meta' = meta PROVE Grows(req.p)
  BY <1>3, <1>7, GrowsSame
<1>8. ASSUME NEW f \in Metadata, f.obj = m.obj, meta' = Set(meta, req.p, f)
      PROVE  Grows(req.p) /\ req.p \in DOMAIN meta' /\ meta'[req.p] = f
  BY <1>3, <1>4, <1>8, GrowsSet
<1>9. CASE meta' = meta /\ UNCHANGED pending_writes
  BY <1>6, <1>7, <1>9
<1>10. CASE /\ StoreChange(req, Set(meta, req.p, [m EXCEPT !.size = 0]), dirs)
            /\ UNCHANGED pending_writes
  <2>1. PICK f : f = [m EXCEPT !.size = 0]
    OBVIOUS
  <2>2. f \in Metadata /\ f.obj = m.obj
    <3>1. 0 \in 0..MaxChunks
      BY Bounds
    <3> QED BY <1>4, <2>1, <3>1 DEF Metadata
  <2>3. meta' = Set(meta, req.p, f) \/ meta' = meta
    BY <1>10, <2>1, ChangeCases
  <2> QED BY <1>6, <1>7, <1>8, <1>10, <2>2, <2>3
<1>11. CASE req.x # 0 /\ m.replicas # None /\ EnterWrite(req, m) /\ meta' = meta
  <2>1. Grows(req.p) /\ m.replicas \in Pair /\ req.p \in DOMAIN meta' /\ m.obj = meta'[req.p].obj
    BY <1>4, <1>5, <1>7, <1>11
  <2> QED BY <1>1, <1>3, <1>4, <1>11, <2>1, EnterIds
<1>12. ASSUME req.x # 0, NEW r \in Pair, meta' = Set(meta, req.p, [m EXCEPT !.replicas = r]),
              EnterWrite(req, [m EXCEPT !.replicas = r])
       PROVE  Ids'
  <2>1. PICK f : f = [m EXCEPT !.replicas = r]
    OBVIOUS
  <2>2. f \in Metadata /\ f.obj = m.obj /\ f.replicas = r
    BY <1>4, <2>1 DEF Metadata
  <2>3. meta' = Set(meta, req.p, f) /\ EnterWrite(req, f)
    BY <1>12, <2>1
  <2>4. Grows(req.p) /\ req.p \in DOMAIN meta' /\ meta'[req.p] = f
    BY <1>8, <2>2, <2>3
  <2> QED BY <1>1, <1>3, <1>4, <1>12, <2>2, <2>3, <2>4, EnterIds
<1>13. \/ meta' = meta /\ UNCHANGED pending_writes
       \/ /\ StoreChange(req, Set(meta, req.p, [m EXCEPT !.size = 0]), dirs)
          /\ UNCHANGED pending_writes
       \/ req.x # 0 /\ m.replicas # None /\ EnterWrite(req, m) /\ meta' = meta
       \/ /\ req.x # 0
          /\ \E r \in Pair : /\ meta' = Set(meta, req.p, [m EXCEPT !.replicas = r])
                             /\ EnterWrite(req, [m EXCEPT !.replicas = r])
  BY <1>1, <1>2 DEF HandleWriteFile, Refuse, store
<1> QED BY <1>9, <1>10, <1>11, <1>12, <1>13

\* The worker has taken a request and is idle again, or waits on its behalf.
LEMMA TakenIds ==
    ASSUME Typed, Typed', Ids, NEW job, Taking(job),
           work' = Idle \/ key(work'.req) = key(Head(jobs)), client' = client, SameWrites,
           RemovalStays \/ RemovalInv', meta' = meta, objects' = objects
    PROVE  Ids'
<1>1. Behind(jobs', jobs) /\ jobs # << >>
  <2>1. jobs \in Seq(Req) /\ jobs # << >> /\ jobs' = Tail(jobs)
    BY DEF Typed, JobsTyped, Taking
  <2> QED BY <2>1, BehindFacts
<1>2. ClientsStay /\ WorkStays
  BY <1>1 DEF ClientsStay, WorkStays
<1>3. \A p : Grows(p)
  BY GrowsSame
<1> QED BY <1>1, <1>2, <1>3, QuietStep

\* WRITE_CHUNK
LEMMA WriteChunkIds == ASSUME Typed, Typed', Ids, HandleWriteChunk PROVE Ids'
<1>1. Taking("WRITE_CHUNK") /\ work = Idle /\ client' = client /\ meta' = meta /\ objects' = objects
  BY DEF HandleWriteChunk, Taking, store
<1>2. \/ pending_writes' = pending_writes \/ pending_writes' = Drop(pending_writes, key(Head(jobs)))
  BY DEF HandleWriteChunk
<1>3. SameWrites
  BY <1>2, WritesStay DEF Typed
<1>4. (work' = Idle \/ key(work'.req) = key(Head(jobs))) /\ RemovalStays
  BY <1>1 DEF HandleWriteChunk, Wait, RemovalStays
<1> QED BY <1>1, <1>3, <1>4, TakenIds

\* The worker asks on behalf of the same request.
LEMMA AskWork ==
    ASSUME NEW req, NEW left, AskNext(req, left)
    PROVE  (work' = Idle \/ key(work'.req) = key(req)) /\ RemovalStays
<1>1. work' = Idle \/ \E n : Wait("GET", req, sid', n)
  BY DEF AskNext
<1>2. ASSUME NEW n, Wait("GET", req, sid', n) PROVE work'.req = req /\ work'.kind = "GET"
  BY <1>2 DEF Wait
<1> QED BY <1>1, <1>2 DEF RemovalStays

\* READ_CHUNK
LEMMA ReadChunkIds == ASSUME Typed, Typed', Ids, HandleReadChunk PROVE Ids'
<1>1. /\ Taking("READ_CHUNK") /\ work = Idle /\ client' = client /\ meta' = meta
      /\ objects' = objects /\ pending_writes' = pending_writes
  BY DEF HandleReadChunk, Taking, store
<1>2. SameWrites
  BY <1>1, WritesStay DEF Typed
<1>3. (work' = Idle \/ key(work'.req) = key(Head(jobs))) /\ RemovalStays
  BY <1>1, AskWork DEF HandleReadChunk, RemovalStays
<1> QED BY <1>1, <1>2, <1>3, TakenIds

\* A file is removed that nobody writes, or whose pending writes are over.
LEMMA RemovedIds ==
    ASSUME Typed, Typed', Ids, Undisputed, Behind(jobs', jobs), work' = Idle, client' = client,
           pending_writes' = pending_writes, objects' = objects,
           NEW p, meta' = Drop(meta, p), Unnoticed(p),
           OneProcess => \A k \in DOMAIN pending_writes : ~Underway(k)'
    PROVE  Ids'
<1>1. ClientsStay /\ WorkStays
  BY DEF ClientsStay, WorkStays
<1>2. JobsInv' /\ OrderInv'
  BY <1>1, LessOrder DEF Ids
<1>3. /\ DOMAIN meta' = DOMAIN meta \ {p}
      /\ \A x \in DOMAIN meta : x # p => meta'[x] = meta[x]
  BY DEF Drop
<1>4. ObjectIdentity'
  BY <1>3 DEF Ids, ObjectIdentity
<1>5. ObjectsInv' /\ RemovalInv'
  BY <1>3 DEF Ids, ObjectsInv, RemovalInv
<1>6. ASSUME NEW k \in DOMAIN pending_writes, Guarded \/ Underway(k)' PROVE BoundAt(k)'
  <2>1. Guarded
    BY <1>6 DEF Undisputed
  <2>2. BoundAt(k) /\ pending_writes[k].path # p
    BY <2>1 DEF Ids, BoundInv, Guarded, Unnoticed, BeingWritten
  <2> QED BY <1>3, <2>2 DEF BoundAt
<1>7. BoundInv'
  BY <1>6 DEF BoundInv, Guarded, Renaming
<1> QED BY <1>2, <1>4, <1>5, <1>7 DEF Ids

\* When the only process has something else done than writing, no pending
\* write can go on.
LEMMA HandledOver ==
    ASSUME Typed, Ids, OneProcess, jobs # << >>, jobs' = Tail(jobs), Head(jobs).job \notin WriteJobs,
           work' = Idle \/ key(work'.req) = key(Head(jobs)), client' = client,
           NEW k \in DOMAIN pending_writes
    PROVE  ~Underway(k)'
<1>1. k \in Keys /\ k[1] \in Client /\ jobs \in Seq(Req)
  BY IdTypes DEF Keys
<1>2. PICK id, req, q, pending :
         /\ id = client[k[1]].id /\ req = client[k[1]].req /\ q = jobs
         /\ pending = DOMAIN pending_writes
         /\ id \in Nat /\ req \in Req \cup {NoReq} /\ q \in Seq(Req) /\ pending \subseteq Keys
  BY <1>1, IdTypes
<1>3. Ordered(id, req, q, pending) /\ q # << >> /\ Head(q).job \notin WriteJobs /\ k \in pending
  BY <1>1, <1>2 DEF Ids, OrderInv
<1>4. Over(req, Tail(q), k) /\ Head(q).id # k[2]
  BY <1>2, <1>3, OrderedOver
<1>5. key(Head(q)) # k /\ \A i \in 1..Len(Tail(q)) : key(Tail(q)[i]) # k
  BY <1>4 DEF key, Over
<1> QED BY <1>2, <1>4, <1>5 DEF Underway, Over

\* REMOVE
LEMMA RemoveIds == ASSUME Typed, Typed', Ids, Undisputed, HandleRemove PROVE Ids'
<1> DEFINE req == Head(jobs)
<1>1. /\ Taking("REMOVE") /\ work = Idle /\ client' = client /\ objects' = objects
      /\ pending_writes' = pending_writes
  BY DEF HandleRemove, Taking, tables
<1>2. SameWrites
  BY <1>1, WritesStay DEF Typed
<1>0. /\ jobs \in Seq(Req) /\ jobs # << >> /\ jobs' = Tail(jobs)
      /\ Head(jobs).job \notin WriteJobs
  BY <1>1 DEF Typed, JobsTyped, Taking, WriteJobs
<1>3. ASSUME meta' = meta, work' = Idle \/ key(work'.req) = key(req) PROVE Ids'
  <2>1. RemovalInv'
    <3> SUFFICES ASSUME OneProcess, NEW k \in DOMAIN pending_writes PROVE ~Underway(k)'
      BY <1>1 DEF RemovalInv, OneProcess
    <3> QED BY <1>0, <1>1, <1>3, HandledOver
  <2> QED BY <1>1, <1>2, <1>3, <2>1, TakenIds
<1>4. ASSUME Unnoticed(req.p), meta' = Drop(meta, req.p), work' = Idle PROVE Ids'
  <2>1. Behind(jobs', jobs)
    BY <1>0, BehindFacts
  <2>2. ASSUME OneProcess, NEW k \in DOMAIN pending_writes PROVE ~Underway(k)'
    BY <1>0, <1>1, <1>4, <2>2, HandledOver
  <2> QED BY <1>1, <1>4, <2>1, <2>2, RemovedIds
<1>5. CASE Refuse(req, "ServerError") /\ UNCHANGED <<work, inbox, sid>>
  BY <1>1, <1>3, <1>5 DEF Refuse, store
<1>6. CASE StoreChange(req, meta, dirs \ {req.p}) /\ UNCHANGED <<work, inbox, sid>>
  BY <1>1, <1>3, <1>6, ChangeCases
<1>7. CASE /\ Unnoticed(req.p) /\ StoreChange(req, Drop(meta, req.p), dirs)
           /\ UNCHANGED <<work, inbox, sid>>
  BY <1>1, <1>3, <1>4, <1>7, ChangeCases
<1>8. CASE Wait("DELETE", req, sid', meta[req.p].replicas) /\ UNCHANGED <<replies, store, faults>>
  BY <1>3, <1>8 DEF Wait, store
<1> QED BY <1>5, <1>6, <1>7, <1>8 DEF HandleRemove

\* A rename is handled when no pending write can go on.
LEMMA RenameOver ==
    ASSUME Typed, Typed', Ids, Undisputed, HandleRename
    PROVE  Renaming /\ \A k \in DOMAIN pending_writes : ~Underway(k)'
<1>1. /\ jobs \in Seq(Req) /\ jobs # << >> /\ jobs' = Tail(jobs) /\ Head(jobs).job = "RENAME"
      /\ work' = Idle /\ client' = client
  BY DEF Typed, JobsTyped, HandleRename, Taking
<1>2. Renaming
  <2>1. Head(jobs) = jobs[1] /\ 1 \in 1..Len(jobs)
    <3>1. Len(jobs) \in Nat /\ Len(jobs) # 0
      BY <1>1, LenProperties, EmptySeq
    <3> QED BY <1>1, <3>1, HeadTailProperties
  <2> QED BY <1>1, <2>1 DEF Ids, JobsInv
<1>3. OneProcess /\ Head(jobs).job \notin WriteJobs
  BY <1>1, <1>2 DEF Undisputed, Guarded, WriteJobs
<1>4. ASSUME NEW k \in DOMAIN pending_writes PROVE ~Underway(k)'
  BY <1>1, <1>3, HandledOver
<1> QED BY <1>2, <1>4

\* RENAME
LEMMA RenameIds == ASSUME Typed, Typed', Ids, Undisputed, HandleRename PROVE Ids'
<1> DEFINE req == Head(jobs)
<1>1. /\ jobs \in Seq(Req) /\ jobs # << >> /\ jobs' = Tail(jobs)
      /\ client' = client /\ objects' = objects /\ pending_writes' = pending_writes
  BY DEF Typed, JobsTyped, HandleRename, Taking, tables
<1>2. Behind(jobs', jobs)
  BY <1>1, BehindFacts
<1>3. ClientsStay
  BY <1>1 DEF ClientsStay
<1>4. JobsInv' /\ OrderInv'
  BY <1>1, <1>2, <1>3, LessOrder DEF Ids
<1>5. BoundInv' /\ RemovalInv'
  BY <1>1, RenameOver DEF BoundInv, RemovalInv, Guarded, Renaming, HandleRename
<1>6. \/ meta' = meta
      \/ /\ req.p \in DOMAIN meta /\ req.q \notin DOMAIN meta
         /\ meta' = Set(Drop(meta, req.p), req.q, meta[req.p])
  BY ChangeCases DEF HandleRename, Refuse, store, exists
<1>7. CASE meta' = meta
  BY <1>1, <1>4, <1>5, <1>7 DEF Ids, ObjectsInv, ObjectIdentity
<1>8. CASE /\ req.p \in DOMAIN meta /\ req.q \notin DOMAIN meta
           /\ meta' = Set(Drop(meta, req.p), req.q, meta[req.p])
  <2>1. /\ DOMAIN meta' = (DOMAIN meta \ {req.p}) \cup {req.q}
        /\ meta'[req.q] = meta[req.p]
        /\ \A x \in DOMAIN meta \ {req.p} : x # req.q => meta'[x] = meta[x]
    BY <1>8 DEF Set, Drop
  <2>2. ObjectIdentity'
    BY <1>8, <2>1 DEF Ids, ObjectIdentity
  <2>3. ObjectsInv'
    BY <1>1, <1>8, <2>1 DEF Ids, ObjectsInv
  <2> QED BY <1>4, <1>5, <2>2, <2>3 DEF Ids
<1> QED BY <1>6, <1>7, <1>8

\* The worker goes on with the request it waits for, and removes nothing.
LEMMA WaitedIds ==
    ASSUME Typed, Typed', Ids, work # Idle, work' = Idle \/ key(work'.req) = key(work.req),
           RemovalStays, UNCHANGED <<client, jobs>>, SameWrites, NEW p, Grows(p)
    PROVE  Ids'
<1>1. Behind(jobs', jobs)
  BY BehindFacts DEF Typed, JobsTyped
<1>2. ClientsStay /\ WorkStays
  BY DEF ClientsStay, WorkStays
<1> QED BY <1>1, <1>2, QuietStep

\* The end of a PUT: the object of a complete write is still that of the file.
LEMMA FinishPutIds ==
    ASSUME Typed, Typed', Ids, work # Idle, work.kind = "PUT", NEW ok, FinishPut(ok), work' = Idle,
           UNCHANGED <<client, jobs, objects>>
    PROVE  Ids'
<1>1. PICK k : k = key(work.req)
  OBVIOUS
<1>2. PICK w : w = pending_writes[k]
  OBVIOUS
<1>3. /\ k \in DOMAIN pending_writes /\ w.next < w.count
      /\ w.path \in Path /\ w.obj \in Object /\ w.count \in 1..MaxChunks /\ w.replicas \in Pair
  BY <1>1, <1>2, PendingFacts DEF Typed, WaitInv, Awaited
<1>4. SameWrites
  <2>1. \/ pending_writes' = Drop(pending_writes, k)
        \/ pending_writes' = [pending_writes EXCEPT ![k].next = @ + 1]
    BY <1>1 DEF FinishPut
  <2> QED BY <1>2, <1>3, <2>1, WritesStay DEF Typed
<1>5. meta' = meta \/ meta' = Set(meta, w.path, Completed(w))
  BY <1>1, <1>2, ChangeCases DEF FinishPut, Refuse, store
<1>6. Grows(w.path)
  <2>1. CASE meta' = meta
    BY <2>1, GrowsSame
  <2>2. CASE meta' = Set(meta, w.path, Completed(w))
    <3>1. Underway(k)
      BY <1>1 DEF Underway
    <3>2. w.path \in DOMAIN meta /\ meta[w.path].obj = w.obj
      BY <1>2, <1>3, <3>1 DEF Ids, BoundInv, BoundAt
    <3>3. Completed(w) \in Metadata /\ Completed(w).obj = w.obj
      <4>1. w.count \in 0..MaxChunks
        BY <1>3, Bounds
      <4> QED BY <1>3, <4>1 DEF Completed, Metadata
    <3> QED BY <1>3, <2>2, <3>2, <3>3, GrowsSet
  <2> QED BY <1>5, <2>1, <2>2
<1> QED BY <1>4, <1>6, WaitedIds DEF RemovalStays

\* The worker goes on, to the next replica or to the end of the request.
LEMMA ProceedIds ==
    ASSUME Typed, Typed', Ids, Undisputed, work # Idle, NEW ok, NEW data, Proceed(ok, data),
           UNCHANGED <<client, jobs, objects>>
    PROVE  Ids'
<1>1. ASSUME meta' = meta, pending_writes' = pending_writes,
             work' = Idle \/ key(work'.req) = key(work.req), RemovalStays
      PROVE  Ids'
  <2>1. SameWrites
    BY <1>1, WritesStay DEF Typed
  <2>2. \A p : Grows(p)
    BY <1>1, GrowsSame
  <2> QED BY <1>1, <2>1, <2>2, WaitedIds
<1>2. CASE /\ work' = [work EXCEPT !.left = StillLeft(ok), !.ok = AllOk(ok)]
           /\ UNCHANGED <<replies, store, tables, sid, inbox, faults>>
  <2>1. key(work'.req) = key(work.req) /\ work'.kind = work.kind
    BY <1>2, WorkFacts DEF Typed, Work
  <2> QED BY <1>1, <1>2, <2>1 DEF store, tables, RemovalStays
<1>3. CASE work.kind = "PUT" /\ FinishPut(AllOk(ok)) /\ work' = Idle
  BY <1>3, FinishPutIds
<1>4. CASE /\ work.kind = "DELETE" /\ FinishDelete(AllOk(ok)) /\ work' = Idle
           /\ UNCHANGED <<tables, sid, inbox>>
  <2>1. CASE meta' = meta
    BY <1>1, <1>4, <2>1 DEF tables, RemovalStays
  <2>2. CASE meta' = Drop(meta, work.req.p)
    <3>1. Unnoticed(work.req.p)
      BY <1>4 DEF Typed, WaitInv
    <3>2. Behind(jobs', jobs) /\ ClientsStay /\ WorkStays
      BY <1>4, BehindFacts DEF Typed, JobsTyped, ClientsStay, WorkStays
    <3>3. ASSUME OneProcess, NEW k \in DOMAIN pending_writes PROVE ~Underway(k)'
      <4>1. ~Underway(k) /\ k \in Keys
        BY <1>4, <3>3, IdTypes DEF Ids, RemovalInv
      <4> QED BY <3>2, <4>1, LessUnderway
    <3> QED BY <1>4, <2>2, <3>1, <3>2, <3>3, RemovedIds DEF tables
  <2> QED BY <1>4, <2>1, <2>2, ChangeCases DEF FinishDelete, Refuse, store
<1>5. CASE work' = Idle /\ UNCHANGED <<store, pending_writes, sid, inbox, faults>>
  BY <1>1, <1>5 DEF store, RemovalStays
<1>6. CASE AskNext(work.req, StillLeft(ok)) /\ UNCHANGED <<store, pending_writes, faults>>
  <2>1. (work' = Idle \/ key(work'.req) = key(work.req)) /\ RemovalStays
    BY <1>6, AskWork
  <2> QED BY <1>1, <1>6, <2>1 DEF store
<1> QED BY <1>2, <1>3, <1>4, <1>5, <1>6 DEF Proceed

\* The worker takes an answer or stops waiting for it.
LEMMA WorkerIds ==
    ASSUME Typed, Typed', Ids, Undisputed, WorkerReceive \/ WorkerTimeout PROVE Ids'
<1>1. work # Idle /\ (\E ok, data : Proceed(ok, data)) /\ UNCHANGED <<client, jobs, objects>>
  BY DEF WorkerReceive, WorkerTimeout
<1> QED BY <1>1, ProceedIds

-----------------------------------------------------------------------------
(* Object ids: the theorems *)

\* At the start there is no file.
LEMMA InitIds == ASSUME Init PROVE Ids
<1>1. \A i \in 1..Len(jobs) : FALSE
  BY DEF Init
<1>2. \A c \in Client : client[c].req = NoReq
  BY DEF Init
<1> QED BY <1>1, <1>2 DEF Init, Ids, ObjectsInv, BoundInv, RemovalInv, JobsInv, OrderInv, Ordered,
           ObjectIdentity

\* Every step keeps the ids.
LEMMA StepIds == ASSUME Typed, Typed', Ids, Undisputed, [Next]_vars PROVE Ids'
<1>1. ASSUME NEW c \in Client, Issue(c) \/ ClientReceive(c) \/ ClientTimeout(c) \/ ClientRestart(c)
      PROVE  Ids'
  BY <1>1, ClientIds
<1>2. CASE WorkerHandle
  BY <1>2, CreateIds, WriteFileIds, WriteChunkIds, ReadChunkIds, RemoveIds, RenameIds, LookIds
     DEF WorkerHandle
<1>3. CASE WorkerReceive \/ WorkerTimeout
  BY <1>3, WorkerIds
<1>4. CASE MetadataRestart
  BY <1>4, MetadataRestartIds
<1>5. ASSUME NEW s \in Storage, StorageHandle(s) \/ StorageRestart(s)
                                \/ HandleHeartbeat(s) \/ ExpireHeartbeat(s)
      PROVE  Ids'
  <2>1. UNCHANGED <<client, jobs, work, meta, pending_writes, objects>>
    BY <1>5 DEF StorageHandle, StorageRestart, HandleHeartbeat, ExpireHeartbeat, clientVars,
       store, tables
  <2> QED BY <2>1, ElsewhereIds
<1>6. CASE UNCHANGED vars
  BY <1>6, ElsewhereIds DEF vars
<1> QED BY <1>1, <1>2, <1>3, <1>4, <1>5, <1>6 DEF Next

\* Types, and where nothing is disputed the ids, are right in every reachable
\* state.
THEOREM SystemInvariant == Spec => []IInv
<1>1. Init => IInv
  BY InitTyped, InitIds DEF IInv, IdInv
<1>2. IInv /\ [Next]_vars => IInv'
  BY StepTyped, StepIds DEF IInv, IdInv, Undisputed, Guarded, Renaming, OneProcess
<1> QED BY <1>1, <1>2, PTL DEF Spec

\* object_id identifies a file: where nothing is renamed and clients spell each
\* path in one way, or all requests come from one client process, no two paths
\* ever have the same, whatever disks, timeouts and restarts of nodes do.  A write that outlives the client's
\* interest in it cannot bring the object of a renamed file back to its old
\* path, as the worker takes requests in order.
THEOREM OneObjectOnePath == ASSUME Undisputed PROVE Spec => []ObjectIdentity
<1>1. IInv => ObjectIdentity
  BY DEF IInv, IdInv, Ids
<1> QED BY <1>1, SystemInvariant, PTL

\* Where nothing is renamed and clients spell each path in one way, and only
\* there, handle_remove never deletes the object of a pending write of any
\* client: it compares the string of the path and not the object, and handles
\* nothing else until the storage nodes have answered.
THEOREM NoRemovalUnderWriter ==
    ASSUME "RENAME" \notin Jobs, ~Respelling PROVE Spec => []NotRemovedWhileWritten
<1>1. IInv => NotRemovedWhileWritten
  <2> SUFFICES ASSUME IInv, work # Idle, work.kind = "DELETE", NEW k \in DOMAIN pending_writes
               PROVE  pending_writes[k].obj # meta[work.req.p].obj
    BY DEF NotRemovedWhileWritten
  <2>1. Ids /\ Guarded
    BY DEF IInv, IdInv, Undisputed, Guarded, Renaming
  <2>2. BoundAt(k)
    BY <2>1 DEF Ids, BoundInv
  <2>3. work.req.p \in DOMAIN meta /\ pending_writes[k].path # work.req.p
    BY <2>1 DEF IInv, Typed, WaitInv, Guarded, Unnoticed, BeingWritten
  <2> QED BY <2>1, <2>2, <2>3 DEF BoundAt, Ids, ObjectIdentity
<1> QED BY <1>1, SystemInvariant, PTL
=============================================================================
