---------------------------- MODULE StorageNode ----------------------------
(***************************************************************************)
(* One storage node and the metadata node's side of its connection, seen   *)
(* as a writer that sends one object after the other.  Requests travel in  *)
(* order; a restart of the node or a broken connection loses the oldest of *)
(* those not yet handled.  The writer sends chunk i + 1 only after Success *)
(* for chunk i, gives up on any other answer or when none comes in time,   *)
(* and then starts over with chunk 0 of another write, or deletes; what it *)
(* gave up on may still be under way.                                      *)
(*                                                                         *)
(* The content of chunk i of write w is the pair <<w, i>>.                 *)
(***************************************************************************)
EXTENDS Integers, Sequences, FiniteSets

CONSTANTS Object, Absent, Torn,
          MaxWrites,      \* bound on the writes and deletions that are started
          MaxChunks,      \* bound on the chunks of an object
          MaxFaults,      \* bound on crashes and lost requests
          MaxInbox        \* bound on the requests under way

ASSUME BoundsAssumption ==
    /\ MaxWrites \in Nat /\ MaxChunks \in Nat \ {0}
    /\ MaxFaults \in Nat /\ MaxInbox \in Nat


Write == 1..MaxWrites
ChunkOf(w, i) == <<w, i>>
Chunk == {ChunkOf(w, i) : w \in Write, i \in 0..(MaxChunks - 1)}

INSTANCE StorageWorker

ASSUME ValuesAssumption ==
    /\ Absent \notin Nat /\ Absent \notin Seq(Chunk \cup {Torn})
    /\ Torn \notin Chunk

\* The first k chunks of write w.
Stream(w, k) == [i \in 1..k |-> ChunkOf(w, i - 1)]

VARIABLES node,           \* the state of StorageWorker
          inbox,          \* requests sent and not yet handled, oldest first
          answers,        \* responses sent and not yet received
          writer,         \* what the metadata node is waiting for
          started,        \* number of writes and deletions started
          possible,       \* contents each object may have (history)
          faults          \* number of crashes and lost requests so far

vars == <<node, inbox, answers, writer, started, possible, faults>>

NoWriter == [kind |-> "none"]

Put(w, o, i, n) == [job |-> "PUT", w |-> w, o |-> o, i |-> i, count |-> n]
Delete(w, o) == [job |-> "DELETE", w |-> w, o |-> o]

Request == [job : {"PUT"}, w : Write, o : Object, i : 0..(MaxChunks - 1),
            count : 1..MaxChunks]
           \cup [job : {"DELETE"}, w : Write, o : Object]

Status == {"Success", "InvalidRequest", "WriteError", "NoSpace"}

TypeOK ==
    /\ node \in Node
    /\ inbox \in Seq(Request) /\ Len(inbox) <= MaxInbox
    /\ answers \subseteq [req : Request, status : Status]
    /\ writer \in [kind : {"put", "delete"}, req : Request] \cup {NoWriter}
    /\ started \in 0..MaxWrites
    /\ possible \in [Object -> SUBSET StoredFile]
    /\ faults \in 0..MaxFaults

Init ==
    /\ node = FreshNode
    /\ inbox = << >> /\ answers = {} /\ writer = NoWriter
    /\ started = 0 /\ faults = 0
    /\ possible = [o \in Object |-> {Absent}]

-----------------------------------------------------------------------------
(* The metadata node's side *)

Send(req) ==
    /\ Len(inbox) < MaxInbox
    /\ inbox' = Append(inbox, req)

StartWrite(o, n) ==
    /\ writer = NoWriter /\ started < MaxWrites
    /\ started' = started + 1
    /\ LET req == Put(started', o, 0, n) IN
       /\ Send(req)
       /\ writer' = [kind |-> "put", req |-> req]
    /\ possible' = [possible EXCEPT ![o] = @ \cup {Stream(started', n)}]
    /\ UNCHANGED <<node, answers, faults>>

StartDelete(o) ==
    /\ writer = NoWriter /\ started < MaxWrites
    /\ started' = started + 1
    /\ LET req == Delete(started', o) IN
       /\ Send(req)
       /\ writer' = [kind |-> "delete", req |-> req]
    /\ possible' = [possible EXCEPT ![o] = @ \cup {Absent}]
    /\ UNCHANGED <<node, answers, faults>>

\* The flag final_chunk of a request, by which the writer also stops.
IsFinal(req) == req.i + 1 = req.count

\* A response is matched on request id, replica and chunk index.
Receive(a) ==
    /\ writer.kind # "none" /\ a.req = writer.req
    /\ answers' = answers \ {a}
    /\ LET req == a.req IN
       \/ /\ a.status # "Success"
          /\ writer' = NoWriter
          /\ UNCHANGED <<inbox, possible>>
       \/ /\ a.status = "Success" /\ req.job = "PUT" /\ ~IsFinal(req)
          /\ LET next == Put(req.w, req.o, req.i + 1, req.count) IN
             Send(next) /\ writer' = [kind |-> "put", req |-> next]
          /\ UNCHANGED possible
       \/ /\ a.status = "Success" /\ req.job = "PUT" /\ IsFinal(req)
          /\ possible' = [possible EXCEPT ![req.o] = {Stream(req.w, req.count)}]
          /\ writer' = NoWriter
          /\ UNCHANGED inbox
       \/ /\ a.status = "Success" /\ req.job = "DELETE"
          /\ possible' = [possible EXCEPT ![req.o] = {Absent}]
          /\ writer' = NoWriter
          /\ UNCHANGED inbox
    /\ UNCHANGED <<node, started, faults>>

\* No response within storage_request_timeout_, or the client gives up.
GiveUp ==
    /\ writer # NoWriter
    /\ writer' = NoWriter
    /\ UNCHANGED <<node, inbox, answers, started, possible, faults>>

-----------------------------------------------------------------------------
(* The storage node *)

Outcomes(req) ==
    IF req.job = "PUT"
    THEN write_chunk(node, req.o, req.i, IsFinal(req), ChunkOf(req.w, req.i))
    ELSE delete_object(node, req.o)

Handle ==
    /\ inbox # << >>
    /\ LET req == Head(inbox) IN
       \E out \in Outcomes(req) :
          /\ node' = out.node
          /\ answers' = answers \cup {[req |-> req, status |-> out.status]}
    /\ inbox' = Tail(inbox)
    /\ UNCHANGED <<writer, started, possible, faults>>

\* The process dies, between two requests or somewhere in one: the oldest
\* requests are lost with it, the first of them perhaps half done.
Crash ==
    /\ faults < MaxFaults
    /\ faults' = faults + 1
    /\ \E k \in 0..Len(inbox) :
       /\ inbox' = SubSeq(inbox, k + 1, Len(inbox))
       /\ \/ node' = Restarted(node)
          \/ /\ k > 0
             /\ \E out \in Outcomes(Head(inbox)) : node' = Restarted(out.node)
    /\ UNCHANGED <<answers, writer, started, possible>>

\* The connection breaks under the oldest requests.
Lose ==
    /\ inbox # << >> /\ faults < MaxFaults
    /\ faults' = faults + 1
    /\ inbox' = Tail(inbox)
    /\ UNCHANGED <<node, answers, writer, started, possible>>

Next ==
    \/ \E o \in Object : StartDelete(o) \/ \E n \in 1..MaxChunks : StartWrite(o, n)
    \/ \E a \in answers : Receive(a)
    \/ GiveUp
    \/ Handle \/ Crash \/ Lose

Spec == Init /\ [][Next]_vars

-----------------------------------------------------------------------------
(* Properties *)

\* An object is never half of a write, nor a mixture of two, whatever was
\* aborted, lost or restarted on the way: what is under its name is every
\* chunk of one write, in order.
WholeObjects ==
    \A o \in Object : node.objects[o] # Absent =>
        \E w \in Write, n \in 1..MaxChunks : node.objects[o] = Stream(w, n)

\* An overwrite is all or nothing: the object holds the last write (or the
\* deletion) that was acknowledged, or a later one that was not, and once a
\* write is acknowledged no earlier one comes back.
OldOrNew == \A o \in Object : node.objects[o] \in possible[o]
=============================================================================
