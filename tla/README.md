# A verification project for the distributed filesystem

TLA+ modules that model the filesystem's own code (`src/src/metadata`, `src/src/storage`,
`src/src/client` and the parts of `src/src/common` they rest on), TLC configurations that
check them on small instances, and proofs that TLAPS checks. `PROJECT.json` lists the runs,
what each definition stands for in the source, the hazards and the findings.

## The system

A **client** asks one **metadata node** to create, write, read, list, stat, rename and remove
files. The metadata node keeps the tree of files and, for each file with data, the id of an
object and the two **storage nodes** that hold it. Data goes through the metadata node in
chunks, and each chunk is written to both storage nodes. (The repository's title speaks of
2+1 erasure coding; the code keeps two full replicas.)

| Component | State | Operations | Talks to |
|---|---|---|---|
| `MetadataStore` | RAM map `data_`; a directory with one metadata file per file | add, update, remove, rename, make and remove directories, list, load at start | called by `MetadataWorker` only |
| `MetadataWorker` | `pending_writes_`, `pending_reads_` by client and request id; the storage request id | one handler per client job; WRITE_CHUNK, READ_CHUNK and REMOVE wait for storage nodes | storage nodes, clients (messages) |
| `MetadataNode` | `job_queue_`, `storage_nodes_` with availability | takes jobs one after the other, handles heartbeats, expires nodes | `MetadataWorker` (calls) |
| `StorageWorker` | object files, `.tmp` files, `next_chunks_` in RAM | PUT, GET, DELETE | metadata node (messages) |
| `StorageNode`, `StorageHeart` | `job_queue_` | handles jobs in order; sends a heartbeat every 3 s | metadata node |
| `Client` | the request id counter | one operation at a time, each a sequence of request and answer with a timeout | metadata node |
| `Network`, `Connection`, `FrameIO` | connections, `pending_frames_`, `message_queue_` | connect, handshake, send, receive_if | all processes |
| `BlockingQueue` | a deque under a mutex | push, pop, pop_if, with timeouts | threads of one process |
| `Rpc`, protocols, `Serializer` | none | encode, decode, match messages | - |

What is hard about it:

* **Crashes and failed writes in the store.** A call changes the disk, then RAM. It may fail
  or the process may die in between. Correct means: RAM and disk agree whenever a call is
  accepted, what was acknowledged survives, and the next start always succeeds.
* **Objects built up chunk by chunk** on nodes that restart, by a writer that gives up and
  starts over while its old requests are still on their way. Correct means: an object is
  always all of one write.
* **Conversations.** Writing a file takes several requests; others run in between, the client
  may leave half-way, either replica may fail alone, answers may come after the wait for them
  has ended. Correct means: an acknowledged write is on both replicas, a read returns the last
  write, nothing is leaked, every request is answered.
* **Identity by counters.** Answers are matched by request ids that each client, and each
  metadata process, counts from the start again.
* **Threads on one queue.** Producers notify after they have released the mutex, consumers
  wait with predicates and timeouts. Correct means: no wake-up is lost, and to its users the
  queue looks like one that is used by one thread at a time.
* **Connections** between processes that start in any order, die and come back before the other
  side has noticed. Correct means: one connection per pair, frames in order and without gaps.
* **Bytes.** Predicates look at fixed places in encoded messages; frames arrive in pieces.
* **Clocks.** Heartbeats queue behind client requests in front of one thread; availability is
  only as fresh as that queue is short.

## Modules

Each module's header says what it stands for; the map in `PROJECT.json` gives the lines of each
definition.

* `Paths`: paths as sequences of components, each a name with or without the extension ".tmp";
  what "inside a directory" and "moved with it" mean, and where a temporary file goes.
* `Namespace`: the abstract specification of the store, a tree of files and directories in
  which each change is one atomic step.
* `MetadataStore`: the code's store. Variables `data` (RAM), `files`, `dirs`, `tmps` (disk),
  `pc` and `op` (the running call). Writing a metadata file is five actions
  (`create_directories`, `open_temporary`, `write_temporary`, `commit_temporary`, `publish`),
  one for each point between which a crash makes a difference; the other calls are one action
  for the disk and `publish` for RAM. `Crash` loses RAM and keeps the disk;
  `load_from_storage` starts the process again. The history variable `promised` holds what
  callers were told. `get_metadata`, `list` and `stat` are operators. `valid_filename` refuses
  ".tmp" as the extension of the last component only, as the code does, so a directory may be
  called "x.tmp" and stand where the temporary file of "x" would go (`TmpPlaces`). `TreeSpec` is
  the refinement of `Namespace`.
* `StorageWorker`: PUT, GET and DELETE as operators from a node's state to its possible
  outcomes. No variables; used by the next two modules.
* `StorageNode`: one storage node with the metadata node's side of the conversation reduced to
  a writer that sends chunk after chunk, gives up at any time and starts over.
* `DistributedFS`: clients, worker and storage nodes together: the client's eight operations
  and the worker's ten handlers. `jobs` is `job_queue_`, `work` the handler that waits (the
  worker has one thread, so there is at most one), `inbox` and `answers` the messages to and
  from each storage node. Handlers are one action up to their wait (`HandleWriteChunk`, ...);
  the wait ends in `WorkerReceive` or `WorkerTimeout`, which go on to the next replica or finish
  the request. A client may also give up because its own local file fails, of which the metadata
  node hears nothing. Messages between two processes stay in order. The store finds a file under every
  spelling of its path ("d/f", "d//f"), but `pending_writes_` is searched for the string that was
  sent: with the constant `Respelling`, a REMOVE or READ_FILE may fail to notice a pending write of
  its file (`Unnoticed`). The history variables
  `settled`, `doubt` and `contested` say which write a path must hold: the last acknowledged
  one, unless a change is under way whose outcome its client does not know, or several clients
  changed the path at the same time.
* `MessageQueue`: the abstract specification of a queue whose pops are atomic: the first item
  that matches is taken, or, with a timeout, nothing is returned.
* `BlockingQueue`: the code's queue. `pusher` and `pc` say where each thread is; what happens
  under the mutex is one step; `push` and `notify_all` are two; a sleeper may wake for no
  reason. `AtomicQueue` is the refinement of `MessageQueue`.
* `Network`: `Network` and `Connection` for pairs of nodes. `conns` holds each TCP connection
  ever made with the state, write queue and unread bytes of both its ends; `connections` and
  `pending_frames` are the code's maps; one action per asynchronous callback. A node that dies
  leaves the other end open until that end reads or writes.
* `Heartbeats`: clocks. `StorageHeart`'s beat, the job queue in front of the worker, the age of
  `last_seen`, `check_heartbeat_timeouts`.
* `Serializer`, `Protocol`: integers, strings and times to bytes and back; the layouts of all
  messages as the encoders write them and, separately, as the decoders read them; the RPC
  header, the predicates of `receive_if`, HELLO, frames on a stream that arrives in pieces of
  any size, and the metadata file.
* `MetadataStoreProofs`, `StorageNodeProofs`, `BlockingQueueProofs`, `NetworkProofs`,
  `HeartbeatsProofs`, `DistributedFSProofs`, `MessageProofs`, `AckProofs`: the proofs.
* `MC*`: instances for TLC.

Definitions whose names are not in the map and that stand directly before a mapped one with the
same parameters (`LastOk` before `AllOk`, for example) are mutants: what a plausible mistake in
that piece of code would do. No specification uses them. Each property of a passing run has a
mutant that violates it. `TypeOK` of `StorageNode`, `Network` and `Heartbeats` documents their
state and is not among the properties of a run.

How the modules fit together. `DistributedFS` takes the store's changes as single steps that
succeed or fail, which `TreeSpec` justifies; `receive_if` as taking the first match atomically,
which `AtomicQueue` justifies; the storage nodes as `StorageWorker`, the same operators that
`StorageNode` checks with more chunks and writes; messages as values, which `Protocol`
justifies. Between processes it has channels in order that lose what a dead process had not
read; `Network` shows order and gaplessness within a connection. `available` changes at any time
in `DistributedFS`; `Heartbeats` says when the code lets it.

Abstractions. A metadata file is one opaque value to the store. In `DistributedFS` all paths lie
in one directory, a file is a number of whole chunks, and chunk `i` of write `v` is the pair `<<v, i>>`,
so that a mixture of two writes is visible. Which two nodes have most space is left open. A
timeout can strike at any time; one that strikes while the answer can still come is counted
against `MaxTimeouts`, one that strikes because the answer was lost is free. Failing `exists` and
`is_directory` queries are not modelled, and a crash means that of the process: there is no
`fsync` in the code, so nothing is claimed about power failures. `Network` treats the end of a
TCP connection as seen by each side separately and delivers a prefix of what was written.
`Heartbeats` counts whole seconds. `Protocol` has bytes of base 16.

## Runs

| Run | Instance | Shows |
|---|---|---|
| `metadata_store` | names a, b, each with or without ".tmp"; depth 2; two metadata values; at most 3 entries and 2 faults | RAM and disk agree; the tree stays a tree; every crash can be recovered from; acknowledged changes stay; rename never stops half-way; `list` and `stat` agree on the names the store accepts; the store implements `Namespace` |
| `storage_node` | 3 writes or deletions, up to 3 chunks, 2 faults | an object is one whole write, old or new |
| `one_client` | create, write, read, remove; 3 operations, up to 2 chunks, 2 writes; 1 failure of a disk, node or local file, 1 premature timeout, 1 restart of a storage node or the metadata node | acknowledged writes are on both replicas, reads return them, nothing leaks while one metadata process runs, no conversation and no answer is left behind by answered requests |
| `namespace` | all 8 operations, 4 of them on 2 paths, files of 1 chunk, 1 mishap | reads, stats and lists say what the last acknowledged change made, through renames; object ids stay unique; nothing leaks; no path is both file and directory |
| `two_clients` | 2 clients on one path in one spelling, 2 operations each, 1 failure or restart of a client | undisturbed writes are on both replicas, nothing leaks, no removal under a writer |
| `answered` | 2 operations, 1 failure, 1 timeout, 1 restart of a storage node, fair threads | every request is answered |
| `blocking_queue` | 2 producers, 3 consumers (one without timeout), 3 pushes, two kinds of items | no wake-up is lost, what someone waits for is delivered, the queue implements `MessageQueue` |
| `network` | 2 nodes, 2 processes each, 2 frames per process and peer, 1 broken or refused connection | one connection per pair of processes, HELLO comes first, a node sends on the connection made last, frames arrive in order without gaps; dialling goes on until there is a connection, and what was sent on a connection that stays up is read |
| `heartbeats` | the code's times (3 s beats, 10 s to expire, 1 s check, 3 s storage timeout), 1 storage node, 2 clients | how stale availability is when used; a live node is given up only behind a backlog of slow requests; the backlog is bounded; a node that stays alive or dead is recognised as such |
| `protocol` | every message form with boundary values, 2 messages in a row, largest message 48 bytes | messages arrive as sent however they are cut; a predicate matches exactly the awaited response; a torn metadata file is rejected |
| `remove_while_writing` | 2 clients, RENAME, one spelling, expects a violation | see below |
| `remove_after_restart` | 1 client, restart of the metadata node, expects a violation | see below |

Why the bounds are enough for the cases of interest. Each operation of a client can be any of
those in `Jobs`, and each fault, timeout and restart can come at any point, so three operations
contain write, overwrite and read, or write, failed overwrite and retry; two chunks are the
fewest with a first and a last one that differ, and two writes the fewest that can be mixed up.
`Respelling` is on in all runs of `DistributedFS` but two: `two_clients`, two of whose properties
depend on the search of `pending_writes_` by string, and `remove_while_writing`, which shows that
RENAME alone defeats it. With `Respelling = TRUE` the instance of `two_clients` still satisfies
`AckedOnBothReplicas` (3.6 million states) and violates the other two, see "Observed" below.
`MaxMishaps` bounds faults, premature timeouts and restarts together: `one_client` and `answered`
allow one of each, `remove_after_restart` two in all, the others one. The store's three entries contain a file two levels
deep, or a directory and two files; two faults contain a crash during the retry after a failed
write. For the queue, three consumers contain two that compete for one item while a third wants
another. Two starts per node contain every mixture of an old and a new connection. Base 16 keeps
the widths of all integers (a `u32` is four digits) with messages of at most 48 bytes on both
sides of the limit. Deadlock is checked for the store and the heartbeats; the other models stop
when their bounds are used up.

**Fairness.** All of it is weak, and stands for a loop or callback that runs again whenever it
has something to do.

* `answered`: the worker keeps taking jobs and leaves each wait by an answer or by its timeout
  (`receive_if` is always given one), storage nodes handle what they have received, clients read
  their answers. Nothing is assumed about client timeouts, restarts or heartbeats.
* `blocking_queue`: a producer that has pushed notifies; a consumer that is awake gets the mutex.
  Nothing is assumed about timeouts and spurious wake-ups.
* `network`: the io thread runs connects, timers, reads and writes that are ready. Nothing makes a
  node start, die or send.
* `heartbeats`: time passes, and the worker and the heartbeat threads take their steps.

### Disagreements between code and comments

Two runs expect a violation; `PROJECT.json` quotes the lines.

* `remove_while_writing`: a file renamed while it is written can be removed under its writer
  ("Fail if file at path is currently being written").
* `remove_after_restart`: the storage request id starts from 0 in each metadata process. A file is
  written and removed; the metadata node dies before it has the responses to its DELETE. The client
  writes the file again, with the same object id, and removes it: the old responses are taken for
  those of the new DELETE, which has the same number, and the metadata are dropped. The new DELETE
  then fails on a storage node, whose object nobody can delete any more ("Keep metadata so the
  client can retry deletion").

Observed while modelling; each limits what a property above claims:

* A file can be removed under its writer by another spelling of its path, without any RENAME:
  `MetadataWorker.cpp:504` compares strings, `data_` is keyed by `fs::path`, and `valid_filename`
  accepts "d//f". When the writer's next chunk comes, the storage nodes store data that no file
  names. `Respelling = TRUE` in `MCTwoClients.cfg` shows it: `NotRemovedWhileWritten` fails after
  six steps.
* A file renamed while it is written comes back under its old path, and both paths have one
  object id (`MetadataWorker.cpp:250`; `ClientProtocol.hpp:50` calls it "stable identity in your
  DFS"). `ObjectIdentity` is checked for one client.
* PUT responses are matched by the client's request id, which another client may use too. After a
  premature timeout a late answer can make a write look successful that one replica does not have
  (`MetadataWorker.cpp:212`). `two_clients` has no premature timeouts.
* A restarted client counts its request ids from the start, and can adopt a pending write or an
  answer of its former process. `two_clients` makes no claim about reads then.
* After a restart of the metadata node a read can return a chunk of an earlier GET.
* A write whose client has given up blocks its path, in the spelling of that client, until the
  metadata node restarts. READ_FILE under another spelling is let through to a file that is being
  written (`MetadataWorker.cpp:280`).
* Writing "x.tmp/y" makes a directory "x.tmp" (`MetadataStore.cpp:41`). LIST shows it, but STAT,
  REMOVE and RENAME refuse its name (`MetadataStore.cpp:238`), and as long as it is there "x" cannot
  be written, for want of a temporary file. A temporary file "x.tmp" that a failed write left, in
  turn, makes writes of "x.tmp/y" fail. `ListingMatchesStat` speaks of the names that
  `get_metadata` accepts.
* Two clients that write one path at the same time can store a mixture, and one of them is told
  that it succeeded.
* The comment at `MetadataWorker.cpp:41` says a write requires CREATE_FILE, but the handler
  creates the file.
* A connection of a dead process whose HELLO is read late replaces the newer one; an established
  connection that breaks is dialled again by nobody, and frames collect in `pending_frames_`; a
  response above `MAX_MESSAGE_SIZE`, such as a long LIST, closes the connection.

## Proofs

`MetadataStoreProofs` proves, for all sets of names and metadata values, all depths and all
bounds, under the named assumptions of `Paths` and `MetadataStore` (`MaxDepth` is a positive
number, the bounds are numbers, `Torn` is not metadata):

* `TypeCorrect`: `TypeOK`.
* `RamAgreesWithDisk`: `Agreement`.
* `AlwaysRecoverable`: `Recoverable`.
* `RenameNeverFailsInside`: `NoInternalError`.
* `AcknowledgedStays`: `PromiseKept`.

None of these is inductive as it stands. Between the change of the disk and `publish` RAM and
disk differ, and `Agreement` says nothing then; the invariant `RamInv` says that RAM is behind
by exactly the running call: applying its effect to RAM gives what is on disk. The lemmas
`LoadedSet`, `LoadedDrop` and `LoadedMove` show that writing, removing and moving files on disk
commutes with reading them back. `TmpInv` says that the temporary file is complete when it is
renamed, which `Recoverable` needs. `RenameInv` says that the entries of a running rename are in
RAM and their targets are not, which follows from `Agreement` at its start. `IInv` is the
conjunction, and `StoreInvariant` says that it always holds. `PromiseInv` adds that inside
`publish` the disk already holds what is about to be promised and everything promised before
that the call is not about; for rename this needs that no two files are moved to the same place
(`RebaseInjective`). Of the tree it proves:

* `DiskIsTree`: `TreeShape`. It needs `WriteInv`: where the running write will put its file is no
  directory, and from the opening of the temporary file on its directories exist. A rename moves
  whole subtrees, never into themselves (`MovedHasParents`).
* `ListAgreesWithStat`: `ListingMatchesStat`, for all names with or without ".tmp", from the tree,
  the agreement of RAM and disk, and
  `LeftOverInv`: each temporary file besides that of the running write is from a fault of its own.
* `StoreImplementsTree`: the refinement `TreeSpec`. The step that changes the disk is the step of
  `Namespace`; every other step of a call, and a crash between two of them, changes nothing there.

`BlockingQueueProofs` proves, for any threads, items, predicates and number of pushes, under
`ThreadsAssumption` (consumers without timeout are consumers, predicates are sets of items,
`Nothing` is neither an item nor a predicate):

* `Typed`: `TypeOK`, which also says that a consumer has a predicate exactly while it is inside
  a pop.
* `WakeupsReach`: `NoLostWakeup`. It is inductive together with `TypeOK`: a push sets its own
  thread to notify, a notification leaves nobody asleep, and every other step only shrinks the
  queue or wakes threads (`StillOnItsWay`).
* `ImplementsAtomicQueue`: `AtomicQueue`. Every step is a push, the start of a pop, a take, a
  giving up, or changes none of `queue`, `want` and `result`. That the first match exists is
  `LeastElement`, from the well-foundedness of finite sets under inclusion.

`StorageNodeProofs` proves, for any objects and all bounds, under `BoundsAssumption` and
`ValuesAssumption` (`Absent` and `Torn` are none of the values they stand beside):

* `ObjectsAreWhole`: `WholeObjects`.
* `AcknowledgedIsKept`: `OldOrNew`.

What makes them inductive (`NodeInvariant`): of the requests under way only the oldest can be a
chunk other than the first of its write, and if `next_chunks_` would accept it the temporary file
is exactly the beginning of that write (`InboxInv`); the writer waits for the request sent last,
so nothing is under way once that is handled (`WriterInv`); a Success that is still to be read is
still true (`AnswerInv`).

`HeartbeatsProofs` proves, for any storage nodes, any number of clients and all times under
`TimesAssumption` (as in the code, a heartbeat that waits behind one slow request comes in time):

* `UsedIsFresh`: `FreshWhenUsed`. `AgeInv` bounds the age of an available node together with the
  time the worker may still wait or work before the next check.
* `LostForWantOfTime`: `LostOnlyBehindBacklog`. `SteadyInv` says that each heartbeat that waits in
  `job_queue_` accounts for one `heartrate` of the time since the node was heard of.
* `BacklogIsBounded`: `BoundedBacklog`. `BacklogInv` bounds, for each position of the queue, the
  heartbeats behind it together with the work in front of it, and the requests by the clients.

`NetworkProofs` proves, for any nodes and roles and all bounds, under `NodesAssumption` (nodes are
numbered in the order of their ids):

* `NetworkTypes`: `TypeOK`.
* `ConnectedOnce`: `OneConnection`. Only the smaller id dials, and `DialInv` says that a process
  that still dials a peer has never been connected with it.
* `HandshakeFirst`: `HelloFirst`, from `EndInv`: HELLO is on a wire exactly at its front and as
  long as the reader waits for it.
* `SendUsesCurrent`: `CurrentConnection`. `RunInv` says that an end that is not closed belongs to
  the present process of its node, and `LinkInv` that `connections_` names an open end, that of
  the connection registered last: `fail_connection` erases an entry only when it is its own.
* `FramesInOrder`: `Delivery`. `StreamInv` says that what was read, what is on the wire and what is
  in the write queue of a connection is one stream of consecutively numbered frames. `PendingInv`
  says that `pending_frames_` holds the last frames `send` took, and all of them as long as there
  has been no connection, so that the first connection starts with frame 1.

The invariant `IInv` of each of these modules was checked with TLC on the run's instance before
it was proved.

`DistributedFSProofs` proves, for any clients, storage nodes and paths and all bounds, under
`KindsAssumption`, `JobsAssumption` (which processes restart, which operations clients use) and
`BoundsAssumption`:

* `TypeCorrect`: `TypeOK`. `Typed` is its inductive form. What makes it inductive is `WaitInv`: the
  handler that waits has the entry of `pending_writes_` or `pending_reads_` whose next chunk it
  waits for, or, for a DELETE, a file of which no pending write was noticed; and that a file with
  content has replicas.
* `OneObjectOnePath`: `ObjectIdentity`, if nothing is renamed and clients spell each path in one way
  (`Guarded`), or all requests come from one client process, which may rename and respell
  (`Undisputed`). With renames by several clients it is false, see "Observed" above. `BoundInv` says
  that the object of a pending write is that of the file at its path, where nothing is guarded only
  while the conversation can go on (`Underway`). `OrderInv` says that requests of one process are
  taken in the order of their ids, so that none of a pending write is left when a REMOVE or RENAME
  is handled (`HandledOver`), nor while a REMOVE waits for storage nodes (`RemovalInv`).
* `NoRemovalUnderWriter`: `NotRemovedWhileWritten`, if nothing is renamed and clients spell each path
  in one way, from `BoundInv`, `WaitInv` and `ObjectIdentity`. With renames or other spellings it is
  false (run `remove_while_writing`, and `two_clients` with `Respelling = TRUE`).

Its invariant, too, was checked with TLC before: on the instance of `namespace`, on that of
`one_client`, on two clients with restarts of all kinds, and on `namespace` with restarts of nodes.

`MessageProofs` goes on from there, under the same assumptions, with what is under way between
clients, worker and storage nodes:

* `AnswersDoNotPileUp`: `NoLeftoverAnswers`. `LeftoverInv` counts requests and answers together,
  since a storage node only turns one into the other, and leaves out the one that the handler still
  waits for as long as it can still come (`Expected`). A handler asks different nodes (`LeftOk`),
  and takes its answer from each of them or times out; a restart leaves those of two nodes.
* `DataHaveFiles`: `NoOrphansOneEpoch`, and `NoLeaks`: `NoOrphans` where the metadata node never
  restarts; both if nothing is renamed and clients spell each path in one way, or all requests come
  from one client process (`Undisputed`, as above; otherwise a file renamed, or removed under another
  spelling, while it is written breaks them). `DataInv` takes a PUT under
  way for the data it will become. What makes it inductive: a pending write goes to the replicas of
  its file (`ReplicasInv`); while a DELETE is under way no PUT of its object is behind it, and a
  confirmed DELETE has left no data (`DeleteInv`), which holds because nothing older has its number
  (`SidInv`). The last fails after a restart of the metadata node, as `remove_after_restart` shows.
* `TablesDoNotLeak`: `NoStalePending`, without a hypothesis on clients or operations. `PendingInv`
  says of every conversation, pair of client and request id, whether it is `Clean`: if the client is
  in it, one request, handler or response is under way at most, and the entry is at the chunk that
  the client counts (`Engaged`); if it is not, nothing is left of it (`Ended`). Those that are not
  clean are at most as many as the premature timeouts, faults and restarts of clients.

`OrphanInv` was checked with TLC before on the instances of `namespace` and `one_client`, and on two
clients with restarts of all kinds; `LeftoverInv` and `PendingInv` on one and two clients that write,
read and remove, with restarts of all kinds.

`AckProofs` proves, under the same assumptions and `ValuesAssumption` (`Absent` is neither a file
with content nor a number in `next_chunks_`), for any storage nodes and paths and one client process
that uses any operations (`OneProcess`), with restarts of the metadata node and of storage nodes:

* `AckedSurvives`: `AckedOnBothReplicas`. With several clients the property is checked, but
  `settled` says nothing of the paths they contend for, and with a client that starts again it says
  nothing at all, as its old requests then have the numbers of its new ones.

What makes it inductive (`AckInvariant`) is what is under way, and which of it may touch the
object of an acknowledged write. Requests are taken, and responses sent, in the order of their ids,
and an operation has one message under way (`QueueInv`); an entry of `pending_writes_` belongs to
the operation of its id (`EntryInv`), and what is known of a path is given up when a request that
changes it is sent, so that no such request of an earlier attempt is left (`ChangeInv`). A PUT, or the
answer to one, has the id of its operation and is never of a chunk still to be sent (`PutInv`), so an
old answer is not taken for that of a new chunk. While a chunk is on its way nothing behind it changes
its object, `next_chunks_` accepts it only behind the beginning of its own write, and a confirmed
chunk has been stored (`SendInv`); between two chunks both replicas have what they acknowledged or
refuse the next (`ReadyInv`). A response of success is true until it is read (`ReplyInv`), and what a
RENAME will take along is kept until then (`RenameInv`). `AckInv`, the conjunction, was checked with
TLC before on the instances of `namespace` and `one_client`, and with restarts of both kinds of nodes.

* `ReadsRight`: `ReadsLastWrite`, under the same hypothesis. As the property itself says, it holds
  as long as the metadata node has not died: after that a storage node may still answer a GET of
  the dead one, under a number that the new one uses again.

Its invariant (`ReadInvariant`) follows the chunks from the disk to the caller, and has two sources:
`AckInv` says what the replicas have stored, and `OrphanInv`, by `SidInv`, that nothing older has
the number of the request that is out. The version that is known of a path stays the same while
it is read (`SnapInv`). An entry of `pending_reads_` of that operation is for the object and the
replicas of its path (`SourceInv`): the entry may have been made by an earlier READ_FILE only if
that had the same id. The worker asks these two replicas and nobody else under that number
(`AskedInv`), so that an answer of success that it takes has the chunk asked for (`GivenInv`), and
what it tells the client is so until the client hears of it (`ToldInv`). The client has the chunks
of that version in order (`GotInv`), and what it gives its caller in the end is complete
(`ResultInv`). `ReadInv` was checked with TLC before, together with `OrphanInv`, on three instances
of one client, with two storage nodes and with restarts of both kinds of nodes.

Only model-checked:

* `AckedOnBothReplicas` for two clients (`two_clients`). About reads beside other clients nothing
  is claimed, nor about object ids and leaked storage where several processes use RENAME or spell
  a path differently, see above.
* `Protocol`: encoders and decoders are recursive over the message, and what a recursive
  definition computes for every input is out of reach of the installed provers.
* All liveness: `EveryRequestAnswered`, `NothingLeftLying`, `Recognised`, `DialledUntilLinked` and
  `EverythingRead` depend on fairness, which the provers do not handle.

## Not modelled

The vendored libraries, asio and yaml-cpp, which are 97 of 100 lines in the repository: of
asio only what the code needs of a TCP connection, a resolver, a timer and a callback appears, as
external parts of `Network`. `ObjectId`: random UUIDs are taken to be unique. Reading the YAML
configuration, and the main programs, which start the nodes and wait. `read_frame` of `FrameIO`,
which nothing calls.

## Plan

1. `MetadataStore` with `Namespace` and its first proofs; `StorageWorker`, `StorageNode`;
   `DistributedFS` for create, write, read, remove and rename. (done)
2. All operations in `DistributedFS`; `BlockingQueue` with `MessageQueue` and their proofs;
   `Network`; `Heartbeats`; `Serializer` and `Protocol`. (done)
3. The safety properties of all components but `Protocol` proved, and of the whole system the
   types, `ObjectIdentity` and `NotRemovedWhileWritten`. (done)
4. Of the whole system `NoLeftoverAnswers`, `NoOrphansOneEpoch`, `NoOrphans` and
   `NoStalePending`. (done)
5. For one client process, `AckedOnBothReplicas` and `ReadsLastWrite`. (done)
6. Left: `AckedOnBothReplicas` for several clients. The invariant would have to say of each path
   whether it is contended, and of the old requests for contended paths nothing at all.
