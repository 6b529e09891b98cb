----------------------------- MODULE AckProofs -----------------------------
EXTENDS MessageProofs

-----------------------------------------------------------------------------
(* Acknowledged writes: the inductive invariant *)

\* The requests of client process c that are under way.
Active(c) ==
    {jobs[i] : i \in 1..Len(jobs)} \cup (IF work = Idle THEN {} ELSE {work.req})
        \cup (IF client[c].req = NoReq THEN {} ELSE {client[c].req})

\* The requests of one process are taken in the order of their ids, which are
\* its operations', and so are its responses sent; an operation has one
\* message under way.
QueueInv(c) ==
    /\ \A i, j \in 1..Len(jobs) : i < j => jobs[i].id < jobs[j].id
    /\ \A i \in 1..Len(jobs) : jobs[i].id <= client[c].id
    /\ work # Idle =>
          work.req.id <= client[c].id /\ \A i \in 1..Len(jobs) : work.req.id < jobs[i].id
    /\ \A m \in replies[c] :
          /\ m.id <= client[c].id
          /\ work # Idle => m.id < work.req.id
          /\ \A i \in 1..Len(jobs) : m.id < jobs[i].id
          /\ \A l \in replies[c] : l.id = m.id => l = m
    /\ client[c].req # NoReq =>
          /\ client[c].req.id = client[c].id
          /\ \A i \in 1..Len(jobs) : jobs[i].id = client[c].id => jobs[i] = client[c].req
          /\ work # Idle /\ work.req.id = client[c].id => work.req = client[c].req
          /\ \A m \in replies[c] : m.id = client[c].id => Answers(m, client[c].req)

\* An entry belongs to the conversation of its id, and none is younger than
\* what is under way.
EntryInv(c) ==
    /\ \A k \in DOMAIN pending_writes \cup DOMAIN pending_reads :
          /\ k[2] <= client[c].id
          /\ work # Idle => k[2] <= work.req.id
          /\ \A i \in 1..Len(jobs) : k[2] <= jobs[i].id
    /\ \A r \in Active(c) :
          /\ key(r) \in DOMAIN pending_writes =>
                r.job \in WriteJobs /\ pending_writes[key(r)].path = r.p
          /\ key(r) \in DOMAIN pending_reads => r.job \in ReadJobs
    /\ client[c].req # NoReq =>
          /\ client[c].req.job = "WRITE_FILE" => client[c].req.x = client[c].n
          /\ key(client[c].req) \in DOMAIN pending_writes =>
                pending_writes[key(client[c].req)].count = client[c].n

\* Nothing is said of a path that a request under way may change.
ChangeInv(c) ==
    /\ contested = {}
    /\ \A r \in Active(c) : r.job \in Changing => settled[r.p] = None /\ settled[r.q] = None

\* Message m changes object o, and none such is under way to s.
About(m, o) == m.job \in {"PUT", "DELETE"} /\ m.o = o
Still(s, o) == \A i \in 1..Len(inbox[s]) : ~About(inbox[s][i], o)

\* Path p holds version v, on both replicas, and nothing under way to them
\* changes that.
StoredAt(s, o, v) == node[s].objects[o] = Stream(v[1], v[2]) /\ Still(s, o)
Stored(p, v) ==
    /\ p \in DOMAIN meta /\ meta[p].size = v[2]
    /\ v[2] > 0 => \A i \in 1..2 : StoredAt(meta[p].replicas[i], meta[p].obj, v)

SafeInv == \A p \in Path : settled[p] # None => Stored(p, settled[p])

\* No PUT, nor the answer to one, is of a chunk that is yet to be sent.
PutSeen(c, m) ==
    m.job = "PUT" =>
        /\ m.id <= client[c].id
        /\ client[c].req # NoReq /\ m.id = client[c].id =>
              /\ client[c].req.job = "WRITE_CHUNK" /\ m.i <= client[c].req.x
              /\ m.i = client[c].req.x => \A j \in 1..Len(jobs) : jobs[j].id # client[c].id
PutInv(c) ==
    \A s \in Storage : /\ \A i \in 1..Len(inbox[s]) : PutSeen(c, inbox[s][i])
                       /\ \A i \in 1..Len(answers[s]) : PutSeen(c, answers[s][i])

\* If s accepts chunk j of write v next, it has those before it.
Prefix(s, o, v, j) == node[s].next_chunks[o] = j => node[s].tmp[o] = Stream(v, j)

\* s has stored j chunks of pending write w, whose number is v.
Done(s, w, v, j) ==
    /\ Still(s, w.obj)
    /\ IF j = w.count THEN node[s].objects[w.obj] = Stream(v, j) ELSE Prefix(s, w.obj, v, j)

\* The write that c is in can go on: both replicas have stored what they
\* acknowledged ...
Writing(c) ==
    client[c].req # NoReq /\ client[c].req.job \in WriteJobs
        /\ key(client[c].req) \in DOMAIN pending_writes
ReadyInv(c) ==
    Writing(c) /\ work = Idle =>
        LET w == pending_writes[key(client[c].req)] IN
        w.next > 0 => \A i \in 1..2 : Still(w.replicas[i], w.obj)
                                      /\ Prefix(w.replicas[i], w.obj, client[c].req.v, w.next)

\* ... and while a chunk is on its way to s, there is nothing else that
\* changes the object, and a confirmed chunk has been stored.
Sending(s, w, v, x) ==
    /\ \A i \in 1..Len(inbox[s]) : Matches(inbox[s][i]) =>
          /\ inbox[s][i].o = w.obj /\ inbox[s][i].final = (x + 1 = w.count)
          /\ inbox[s][i].data = << <<v, x>> >>
          /\ x > 0 => Prefix(s, w.obj, v, x)
          /\ \A j \in 1..Len(inbox[s]) : j > i => ~About(inbox[s][j], w.obj)
    /\ x > 0 => \A i \in 1..Len(inbox[s]) :
          About(inbox[s][i], w.obj) => Matches(inbox[s][i])
    /\ \A i \in 1..Len(answers[s]) :
          Matches(answers[s][i]) /\ answers[s][i].status = "Success" => Done(s, w, v, x + 1)
    /\ (\E i \in 1..Len(work.left) : work.left[i] = s) \/ (work.ok => Done(s, w, v, x + 1))

SendInv(c) ==
    work # Idle /\ work.kind = "PUT" =>
        /\ work.id = work.req.id
        /\ client[c].req = work.req => LET w == pending_writes[key(work.req)] IN
              \A i \in 1..2 : Sending(w.replicas[i], w, work.req.v, work.req.x)

\* What a success says of the operation that c is in.
Means(c) ==
    LET C == client[c] IN
    /\ C.req.job = "WRITE_FILE" /\ C.n = 0 => Stored(C.req.p, <<C.req.v, 0>>)
    /\ C.req.job = "WRITE_CHUNK" /\ C.req.x + 1 = C.n => Stored(C.req.p, <<C.req.v, C.n>>)
    /\ C.req.job = "RENAME" /\ C.snap # None => Stored(C.req.q, C.snap)
ReplyInv(c) ==
    \A m \in replies[c] :
        client[c].req # NoReq /\ m.id = client[c].id /\ m.status = "Success" => Means(c)

\* What a RENAME will take along is kept until then.
RenameInv(c) ==
    LET C == client[c] IN
    C.req # NoReq /\ C.req.job = "RENAME" /\ C.snap # None
      /\ (\E i \in 1..Len(jobs) : jobs[i].id = C.id) =>
        /\ Stored(C.req.p, C.snap)
        /\ \A r \in Active(c) : r.id # C.id /\ r.job \in Changing => C.req.p \notin {r.p, r.q}

AckInv(c) ==
    /\ QueueInv(c) /\ EntryInv(c) /\ ChangeInv(c) /\ SafeInv
    /\ PutInv(c) /\ ReadyInv(c) /\ SendInv(c) /\ ReplyInv(c) /\ RenameInv(c)

-----------------------------------------------------------------------------
(* Acknowledged writes: the shapes of steps *)

\* What is under way.
LEMMA ActiveFacts ==
    ASSUME NEW c, NEW r
    PROVE  /\ r \in Active(c) <=> \/ \E i \in 1..Len(jobs) : r = jobs[i]
                                  \/ work # Idle /\ r = work.req
                                  \/ client[c].req # NoReq /\ r = client[c].req
           /\ r \in Active(c)' <=> \/ \E i \in 1..Len(jobs') : r = jobs'[i]
                                   \/ work' # Idle /\ r = work'.req
                                   \/ client'[c].req # NoReq /\ r = client'[c].req
BY DEF Active

\* The keys of one process are its ids.
LEMMA OneKey ==
    ASSUME NEW c \in Client, Client = {c}, NEW r \in Req
    PROVE  /\ r.c = c /\ key(r) = <<c, r.id>> /\ r.id \in Nat /\ key(r) \in Keys
           /\ \A k \in Keys : k = <<c, k[2]>> /\ k[2] \in Nat /\ (k[2] = r.id <=> k = key(r))
BY ReqFacts DEF key, Keys

\* The types of what the invariant speaks of.
LEMMA AckTypes ==
    ASSUME Typed, NEW c \in Client
    PROVE  /\ jobs \in Seq(Req) /\ \A i \in 1..Len(jobs) : jobs[i] \in Req /\ jobs[i].id \in Nat
           /\ client[c].id \in Nat /\ client[c].req \in Req \cup {NoReq} /\ client[c].n \in Nat
           /\ client[c].req # NoReq => client[c].req \in Req /\ client[c].req.id \in Nat
           /\ work # Idle => work.req \in Req /\ work.req.id \in Nat
           /\ replies[c] \subseteq Response /\ \A m \in replies[c] : m.id \in Nat
           /\ DOMAIN pending_writes \subseteq Keys /\ DOMAIN pending_reads \subseteq Keys
<1>1. jobs \in Seq(Req) /\ client[c].id \in Nat /\ client[c].req \in Req \cup {NoReq} /\ client[c].n \in Nat
  BY ClientFacts DEF Typed, JobsTyped
<1>2. \A i \in 1..Len(jobs) : jobs[i] \in Req
  BY <1>1
<1>3. \A r \in Req : r.id \in Nat
  BY ReqFacts
<1>4. work # Idle => work.req \in Req
  BY WorkFacts DEF Typed
<1>5. replies[c] \subseteq Response
  BY DEF Typed, RepliesTyped
<1>6. \A m \in Response : m.id \in Nat
  BY DEF Response
<1>7. DOMAIN pending_writes \subseteq Keys /\ DOMAIN pending_reads \subseteq Keys
  BY DEF Typed, TableTyped
<1> QED BY <1>1, <1>2, <1>3, <1>4, <1>5, <1>6, <1>7

\* A client begins an operation.
LEMMA BeginFacts ==
    ASSUME Typed, NEW c \in Client, Client = {c}, Issue(c)
    PROVE  \E req \in Req :
             /\ client[c].req = NoReq /\ req.id = client[c].id + 1 /\ req.job \notin ChunkJobs
             /\ jobs' = Append(jobs, req)
             /\ client'[c].id = req.id /\ client'[c].req = req /\ client'[c].snap = settled[req.p]
             /\ client'[c].got = << >> /\ client'[c].result = None
             /\ req.job = "WRITE_FILE" => req.x = client'[c].n
             /\ req.job \in Changing => settled' = [settled EXCEPT ![req.p] = None, ![req.q] = None]
             /\ req.job \notin Changing => settled' = settled
             /\ contested = {} => contested' = {}
             /\ UNCHANGED <<replies, work, store, tables, available, sid, objects, storageVars,
                            faults, timeouts, restarts>>
<1>1. PICK job \in Jobs, p \in Path, q \in Path, n \in 0..MaxChunks : Begin(c, job, p, q, n)
  BY IssueCases
<1>2. PICK v : v = IF job = "WRITE_FILE" THEN writes + 1 ELSE 0
  OBVIOUS
<1>3. PICK req : req = Request(c, client[c].id + 1, job, p, q, n, v)
  OBVIOUS
<1>4. client[c].req = NoReq /\ client[c].id < MaxRequests /\ (job = "WRITE_FILE" => writes < MaxWrites)
  BY <1>1 DEF Begin
<1>5. job \in JobNames /\ job \notin ChunkJobs /\ (job \in WriteJobs => job = "WRITE_FILE")
  BY JobsAssumption DEF JobNames, WriteJobs, ChunkJobs
<1>6. v \in 0..MaxWrites /\ (job \in WriteJobs => v >= 1) /\ client[c].id + 1 \in 1..MaxRequests
  BY <1>2, <1>4, <1>5, ClientFacts, Bounds DEF Typed, HistoryTyped
<1>7. req \in Req
  BY <1>3, <1>5, <1>6, RequestTyped
<1>8. /\ req.id = client[c].id + 1 /\ req.job = job /\ req.p = p /\ req.q = q /\ req.x = n
  BY <1>3 DEF Request
<1>9. /\ jobs' = Append(jobs, req)
      /\ client' = [d \in Client |->
            IF d = c
            THEN [id |-> req.id, req |-> req, n |-> n, got |-> << >>,
                  snap |-> settled[p], result |-> None]
            ELSE [client[d] EXCEPT !.snap = IF Disturbs(req, client[d].req) THEN None ELSE @]]
      /\ UNCHANGED <<replies, work, store, tables, available, sid, objects, storageVars,
                     faults, timeouts, restarts>>
  BY <1>1, <1>2, <1>3 DEF Begin
<1>10. /\ req.job \in Changing => /\ settled' = [settled EXCEPT ![p] = None, ![q] = None]
                                  /\ contested' = contested \cup ({p, q} \cap DoubtedBesides(c))
       /\ req.job \notin Changing => settled' = settled /\ contested' = contested
  BY <1>1, <1>8 DEF Begin
<1>11. DoubtedBesides(c) = {}
  BY DEF DoubtedBesides
<1>12. client'[c] = [id |-> req.id, req |-> req, n |-> n, got |-> << >>,
                     snap |-> settled[p], result |-> None]
  BY <1>9
<1>13. /\ client'[c].id = req.id /\ client'[c].req = req /\ client'[c].snap = settled[req.p]
       /\ client'[c].got = << >> /\ client'[c].result = None /\ client'[c].n = req.x
  BY <1>8, <1>12
<1>14. contested = {} => contested' = {}
  BY <1>10, <1>11
<1> QED BY <1>4, <1>5, <1>7, <1>8, <1>9, <1>10, <1>13, <1>14

\* The client goes on with request r after response m to req ...
GoesOn(c, req, m, r) ==
    /\ m.status = "Success" /\ req.job \in WriteJobs \cup ReadJobs
    /\ r.c = c /\ r.id = req.id /\ r.p = req.p /\ r.q = req.q /\ r.v = req.v /\ r.x = Following(req)
    /\ r.job = IF req.job \in WriteJobs THEN "WRITE_CHUNK" ELSE "READ_CHUNK"
    /\ r.x < client'[c].n /\ client'[c].n = Counted(req, client[c].n, m)
    /\ jobs' = Append(jobs, r) /\ client'[c].req = r
    /\ client'[c].got = client[c].got \o m.data
    /\ client'[c].result = client[c].result
    /\ settled' = settled /\ contested' = contested

\* ... or is done with req, and knows what the path holds.
Known(c, req) ==
    \/ /\ req.job \in WriteJobs /\ Following(req) = client[c].n
       /\ settled' = [settled EXCEPT ![req.p] = <<req.v, client[c].n>>]
    \/ /\ req.job = "RENAME"
       /\ settled' = [settled EXCEPT ![req.q] = client[c].snap]

Concludes(c, req, m) ==
    /\ client'[c].req = NoReq /\ jobs' = jobs /\ contested' \subseteq contested
    /\ settled' = settled \/ (m.status = "Success" /\ Known(c, req))
    /\ req.job \notin Changing => settled' = settled
    /\ \/ client'[c].result = client[c].result
       \/ /\ m.status = "Success"
          /\ client'[c].result = Result(req, m, client[c].got \o m.data)
          /\ req.job \in ReadJobs => Following(req) = Counted(req, client[c].n, m)

\* A client takes a response.
LEMMA ReceiveFacts ==
    ASSUME Typed, Typed', NEW c \in Client, Client = {c}, ClientReceive(c), NEW req, req = client[c].req
    PROVE  /\ req \in Req /\ client'[c].id = client[c].id /\ client'[c].snap = client[c].snap
           /\ UNCHANGED <<work, store, tables, available, sid, objects, storageVars,
                          timeouts, restarts, writes>>
           /\ \E m \in replies[c] :
                /\ Answers(m, req) /\ replies'[c] = replies[c] \ {m}
                /\ Concludes(c, req, m) \/ \E r \in Req : GoesOn(c, req, m, r)
<1>0. client \in [Client -> ClientState] /\ client' \in [Client -> ClientState]
  BY DEF Typed, ClientTyped
<1>1. /\ req \in Req
      /\ UNCHANGED <<work, store, tables, available, sid, objects, storageVars,
                     timeouts, restarts, writes>>
  BY ClientFacts DEF ClientReceive, Typed
<1>2. PICK m \in replies[c] :
        /\ Answers(m, req)
        /\ replies' = [replies EXCEPT ![c] = replies[c] \ {m}]
        /\ \/ m.status = "Success" /\ ReceiveSuccess(c, m)
           \/ /\ m.status # "Success"
              /\ client' = [client EXCEPT ![c].req = NoReq]
              /\ Conclude(c, FALSE)
              /\ jobs' = jobs
  BY DEF ClientReceive
<1>3. replies'[c] = replies[c] \ {m}
  BY <1>2 DEF Typed, RepliesTyped
<1>4. DoubtedBesides(c) = {}
  BY DEF DoubtedBesides
<1>5. ASSUME NEW ok, Conclude(c, ok)
      PROVE  /\ contested' \subseteq contested
             /\ settled' = settled \/ ok
             /\ ok => \/ settled' = settled
                      \/ /\ req.job \in WriteJobs
                         /\ settled' = [settled EXCEPT ![req.p] = <<req.v, client[c].n>>]
                      \/ /\ req.job = "RENAME"
                         /\ settled' = [settled EXCEPT ![req.q] = client[c].snap]
  BY <1>4, <1>5 DEF Conclude, WriteJobs
<1>6. ASSUME NEW ok, Conclude(c, ok), req.job \notin Changing PROVE settled' = settled
  BY <1>5, <1>6 DEF Changing, WriteJobs
<1>7. ASSUME client' = [client EXCEPT ![c].req = NoReq]
      PROVE  /\ client'[c].req = NoReq /\ client'[c].id = client[c].id
             /\ client'[c].snap = client[c].snap /\ client'[c].result = client[c].result
  BY <1>0, <1>7 DEF ClientState
<1>8. CASE m.status # "Success"
  <2>1. client' = [client EXCEPT ![c].req = NoReq] /\ jobs' = jobs /\ Conclude(c, FALSE)
    BY <1>2, <1>8
  <2>2. Concludes(c, req, m)
    BY <1>5, <1>7, <2>1 DEF Concludes
  <2> QED BY <1>1, <1>2, <1>3, <1>7, <2>1, <2>2
<1>9. CASE m.status = "Success" /\ ReceiveSuccess(c, m)
  <2>0. PICK n, i : n = Counted(req, client[c].n, m) /\ i = Following(req)
    OBVIOUS
  <2>1. PICK got, job, next, res :
          /\ got = client[c].got \o m.data
          /\ job = IF req.job \in WriteJobs THEN "WRITE_CHUNK" ELSE "READ_CHUNK"
          /\ next = Request(c, req.id, job, req.p, req.q, i, req.v)
          /\ res = Result(req, m, got)
    OBVIOUS
  <2>2. {"WRITE_FILE", "READ_FILE"} \cup ChunkJobs = WriteJobs \cup ReadJobs
    BY DEF ChunkJobs, WriteJobs, ReadJobs
  <2>3. \/ /\ req.job \in {"WRITE_FILE", "READ_FILE"} \cup ChunkJobs /\ i < n
           /\ jobs' = Append(jobs, next)
           /\ client' = [client EXCEPT ![c].req = next, ![c].got = got, ![c].n = n]
           /\ settled' = settled /\ contested' = contested
        \/ /\ req.job \in {"WRITE_FILE", "READ_FILE"} \cup ChunkJobs => i = n
           /\ client' = [client EXCEPT ![c].req = NoReq, ![c].result = res]
           /\ jobs' = jobs /\ Conclude(c, TRUE)
        \/ /\ Conclude(c, FALSE)
           /\ client' = [client EXCEPT ![c].req = NoReq]
           /\ jobs' = jobs
    BY <1>9, <2>0, <2>1 DEF ReceiveSuccess, Following, Counted, WriteJobs
  <2>4. CASE /\ req.job \in {"WRITE_FILE", "READ_FILE"} \cup ChunkJobs /\ i < n
             /\ jobs' = Append(jobs, next)
             /\ client' = [client EXCEPT ![c].req = next, ![c].got = got, ![c].n = n]
             /\ settled' = settled /\ contested' = contested
    <3>1. client' = [client EXCEPT ![c] = [client[c] EXCEPT !.req = next, !.got = got, !.n = n]]
      BY <2>4
    <3>2. /\ client'[c].req = next /\ client'[c].n = n /\ client'[c].got = got
          /\ client'[c].id = client[c].id /\ client'[c].snap = client[c].snap
          /\ client'[c].result = client[c].result
      BY <1>0, <3>1 DEF ClientState
    <3>3. /\ next.c = c /\ next.id = req.id /\ next.x = i /\ next.job = job
          /\ next.p = req.p /\ next.q = req.q /\ next.v = req.v
          /\ DOMAIN next = {"c", "id", "job", "p", "q", "x", "v"}
      BY <2>1 DEF Request
    <3>4. next \in Req
      <4>1. client'[c].req \in Req \cup {NoReq}
        BY <1>0 DEF ClientState
      <4>2. DOMAIN NoReq = {"job"}
        BY DEF NoReq
      <4> QED BY <3>2, <3>3, <4>1, <4>2
    <3>5. GoesOn(c, req, m, next)
      BY <1>9, <2>0, <2>1, <2>2, <2>4, <3>2, <3>3 DEF GoesOn
    <3> QED BY <1>1, <1>2, <1>3, <3>2, <3>4, <3>5
  <2>5. CASE /\ req.job \in {"WRITE_FILE", "READ_FILE"} \cup ChunkJobs => i = n
             /\ client' = [client EXCEPT ![c].req = NoReq, ![c].result = res]
             /\ jobs' = jobs /\ Conclude(c, TRUE)
    <3>1. client' = [client EXCEPT ![c] = [client[c] EXCEPT !.req = NoReq, !.result = res]]
      BY <2>5
    <3>2. /\ client'[c].req = NoReq /\ client'[c].result = res
          /\ client'[c].id = client[c].id /\ client'[c].snap = client[c].snap
      BY <1>0, <3>1 DEF ClientState
    <3>3. req.job \in WriteJobs => Following(req) = client[c].n
      BY <2>0, <2>2, <2>5 DEF Counted, WriteJobs
    <3>4. req.job \in ReadJobs => Following(req) = Counted(req, client[c].n, m)
      BY <2>0, <2>2, <2>5
    <3>5. settled' = settled \/ Known(c, req)
      BY <1>5, <2>5, <3>3 DEF Known
    <3>6. Concludes(c, req, m)
      BY <1>5, <1>6, <1>9, <2>1, <2>5, <3>2, <3>4, <3>5 DEF Concludes
    <3> QED BY <1>1, <1>2, <1>3, <3>2, <3>6
  <2>6. CASE /\ Conclude(c, FALSE)
             /\ client' = [client EXCEPT ![c].req = NoReq]
             /\ jobs' = jobs
    <3>1. Concludes(c, req, m)
      BY <1>5, <1>6, <1>7, <2>6 DEF Concludes
    <3> QED BY <1>1, <1>2, <1>3, <1>7, <2>6, <3>1
  <2> QED BY <2>3, <2>4, <2>5, <2>6
<1> QED BY <1>2, <1>8, <1>9

\* A client gives up.
LEMMA TimeoutFacts ==
    ASSUME Typed, NEW c \in Client, ClientTimeout(c)
    PROVE  /\ client'[c].req = NoReq /\ client'[c].id = client[c].id
           /\ client'[c].snap = client[c].snap /\ client'[c].result = client[c].result
           /\ UNCHANGED <<replies, jobs, work, store, tables, available, sid, objects,
                          storageVars, faults, restarts, history>>
<1>1. client \in [Client -> ClientState]
  BY DEF Typed, ClientTyped
<1>2. client' = [client EXCEPT ![c].req = NoReq]
  BY DEF ClientTimeout
<1> QED BY <1>1, <1>2 DEF ClientTimeout, ClientState

\* The worker answers req, or waits on its behalf.
Replies(req) ==
    /\ work' = Idle /\ inbox' = inbox
    /\ \E m : ResponseTo(m, req)
              /\ replies' = [replies EXCEPT ![req.c] = replies[req.c] \cup {m}]
Waits(req) == work' # Idle /\ work'.req = req /\ replies' = replies

\* It touches no other entry, and enters a write or a read at its start.
WritesStep(req) ==
    /\ \A k \in DOMAIN pending_writes' :
          k # key(req) => k \in DOMAIN pending_writes /\ pending_writes'[k] = pending_writes[k]
    /\ key(req) \in DOMAIN pending_writes' =>
          LET w == pending_writes'[key(req)]
              v == pending_writes[key(req)]
          IN  \/ /\ key(req) \in DOMAIN pending_writes
                 /\ w.path = v.path /\ w.obj = v.obj /\ w.count = v.count /\ w.replicas = v.replicas
                 /\ work = Idle => w.next = v.next
              \/ req.job = "WRITE_FILE" /\ w.path = req.p /\ w.count = req.x /\ w.next = 0
ReadsStep(req) ==
    /\ \A k \in DOMAIN pending_reads' :
          k # key(req) => k \in DOMAIN pending_reads /\ pending_reads'[k] = pending_reads[k]
    /\ key(req) \in DOMAIN pending_reads' =>
          LET r == pending_reads'[key(req)]
              v == pending_reads[key(req)]
              m == meta[req.p]
          IN  \/ /\ key(req) \in DOMAIN pending_reads
                 /\ r.obj = v.obj /\ r.replicas = v.replicas
              \/ /\ req.job = "READ_FILE"
                 /\ r.obj = m.obj /\ r.replicas = m.replicas

\* Only a request that changes files touches any, those it names.
Touches(req, p) == req.job \in Changing /\ p \in {req.p, req.q}
FilesStep(req) ==
    \A p \in DOMAIN meta : ~Touches(req, p) => p \in DOMAIN meta' /\ meta'[p] = meta[p]

\* Messages to storage nodes are about the file of the request.
SendsFor(req, m) ==
    /\ \A o : About(m, o) => req.job \in Changing /\ req.p \in DOMAIN meta /\ meta[req.p].obj = o
    /\ m.job = "PUT" => req.job = "WRITE_CHUNK" /\ m.id = req.id /\ m.i = req.x /\ work = Idle
InboxStep(req) ==
    \A s \in Storage : \/ inbox'[s] = inbox[s]
                       \/ \E m \in StorageRequests : inbox'[s] = Append(inbox[s], m) /\ SendsFor(req, m)
AnswersStep ==
    \A s \in Storage : \A i \in 1..Len(answers'[s]) :
        \E j \in 1..Len(answers[s]) : answers'[s][i] = answers[s][j]

WorkStep(req) ==
    /\ Serving(req) /\ UNCHANGED <<client, node, restarts, history>>
    /\ Replies(req) \/ Waits(req)
    /\ WritesStep(req) /\ ReadsStep(req) /\ FilesStep(req) /\ InboxStep(req) /\ AnswersStep

\* Where nothing changes.
LEMMA NothingChanges ==
    ASSUME NEW req
    PROVE  /\ pending_writes' = pending_writes => WritesStep(req)
           /\ pending_reads' = pending_reads => ReadsStep(req)
           /\ meta' = meta => FilesStep(req)
           /\ inbox' = inbox => InboxStep(req)
           /\ answers' = answers => AnswersStep
<1>1. ASSUME pending_writes' = pending_writes PROVE WritesStep(req)
  BY <1>1 DEF WritesStep
<1>2. ASSUME pending_reads' = pending_reads PROVE ReadsStep(req)
  BY <1>2 DEF ReadsStep
<1>3. ASSUME meta' = meta PROVE FilesStep(req)
  BY <1>3 DEF FilesStep
<1>4. ASSUME inbox' = inbox PROVE InboxStep(req)
  BY <1>4 DEF InboxStep
<1>5. ASSUME answers' = answers PROVE AnswersStep
  BY <1>5 DEF AnswersStep
<1> QED BY <1>1, <1>2, <1>3, <1>4, <1>5

\* The entry of the request the worker is at is that of a file.
LEMMA ServedEntry ==
    ASSUME Typed, Ids, NEW c, EntryInv(c), NEW req, Serving(req), key(req) \in DOMAIN pending_writes
    PROVE  /\ req.job \in WriteJobs /\ pending_writes[key(req)].path = req.p
           /\ req.p \in DOMAIN meta /\ meta[req.p].obj = pending_writes[key(req)].obj
<1>1. req \in Active(c) /\ Underway(key(req))
  <2>1. CASE work # Idle
    BY <2>1, ActiveFacts DEF Serving, Underway
  <2>2. CASE work = Idle
    <3>1. jobs \in Seq(Req) /\ jobs # << >> /\ req = jobs[1]
      BY <2>2 DEF Serving, Typed, JobsTyped
    <3>2. 1 \in 1..Len(jobs)
      BY <3>1
    <3> QED BY <3>1, <3>2, ActiveFacts DEF Underway
  <2> QED BY <2>1, <2>2
<1>2. req.job \in WriteJobs /\ pending_writes[key(req)].path = req.p
  BY <1>1 DEF EntryInv
<1>3. BoundAt(key(req))
  BY <1>1 DEF Ids, BoundInv
<1> QED BY <1>2, <1>3 DEF BoundAt

\* The worker answers a request at once, and only the store has changed.
LEMMA StoreShape ==
    ASSUME NEW req, Serving(req), work' = Idle, Replying(req),
           UNCHANGED <<client, tables, storageVars, restarts, history>>, FilesStep(req)
    PROVE  WorkStep(req)
<1>1. PICK status, type, n, data : Send(req, status, type, n, data)
  BY DEF Replying
<1>2. Replies(req)
  BY <1>1, SentResponse DEF Replies, storageVars
<1> QED BY <1>2, NothingChanges DEF WorkStep, tables, storageVars

\* The request that a handler takes.
LEMMA TakenServed == ASSUME NEW job, Taking(job) PROVE Serving(Head(jobs)) /\ Head(jobs).job = job
BY DEF Taking, Serving

\* The store's change is one of the files it names.
LEMMA FilesChanged ==
    ASSUME NEW req, NEW files, NEW d, StoreChange(req, files, d),
           \A p \in DOMAIN meta : ~Touches(req, p) => p \in DOMAIN files /\ files[p] = meta[p]
    PROVE  FilesStep(req) /\ Replying(req)
<1>1. meta' = files \/ meta' = meta
  BY ChangeCases
<1>2. FilesStep(req)
  BY <1>1 DEF FilesStep
<1> QED BY <1>2, ReplyingCases

\* CREATE_FILE, RENAME, MKDIR, LIST and STAT
LEMMA NamesShape ==
    ASSUME Typed, HandleCreateFile \/ HandleRename \/ HandleMakeDir \/ HandleList \/ HandleStat
    PROVE  WorkStep(Head(jobs))
<1>1. PICK req : req = Head(jobs)
  OBVIOUS
<1>2. ASSUME NEW w PROVE \A p \in DOMAIN meta : p # req.p => p \in DOMAIN Set(meta, req.p, w)
                                                              /\ Set(meta, req.p, w)[p] = meta[p]
  BY DEF Set
<1>3. ASSUME NEW w PROVE \A p \in DOMAIN meta : p # req.p /\ p # req.q =>
                            /\ p \in DOMAIN Set(Drop(meta, req.p), req.q, w)
                            /\ Set(Drop(meta, req.p), req.q, w)[p] = meta[p]
  BY DEF Set, Drop
<1>4. CASE HandleCreateFile
  <2>1. req.job \in Changing /\ Serving(req)
    BY <1>1, <1>4, TakenServed DEF HandleCreateFile, Changing
  <2>2. FilesStep(req) /\ Replying(req)
    <3>1. Refuse(req, "AlreadyExists") \/ StoreChange(req, Set(meta, req.p, NewFile(objects + 1)), dirs)
      BY <1>1, <1>4 DEF HandleCreateFile
    <3>2. CASE Refuse(req, "AlreadyExists")
      BY <3>2, ReplyingCases, NothingChanges DEF Refuse, store
    <3>3. CASE StoreChange(req, Set(meta, req.p, NewFile(objects + 1)), dirs)
      BY <1>2, <2>1, <3>3, FilesChanged DEF Touches
    <3> QED BY <3>1, <3>2, <3>3
  <2> QED BY <1>1, <1>4, <2>1, <2>2, StoreShape DEF HandleCreateFile, Taking
<1>5. CASE HandleRename
  <2>1. req.job \in Changing /\ Serving(req)
    BY <1>1, <1>5, TakenServed DEF HandleRename, Changing
  <2>2. FilesStep(req) /\ Replying(req)
    <3>1. \/ Refuse(req, "ServerError")
          \/ respond(req, "Success") /\ UNCHANGED store
          \/ Refuse(req, "AlreadyExists")
          \/ StoreChange(req, Set(Drop(meta, req.p), req.q, meta[req.p]), dirs)
          \/ StoreChange(req, meta, (dirs \ {req.p}) \cup {req.q})
      BY <1>1, <1>5 DEF HandleRename
    <3>2. CASE Refuse(req, "ServerError") \/ Refuse(req, "AlreadyExists")
      BY <3>2, ReplyingCases, NothingChanges DEF Refuse, store
    <3>3. CASE respond(req, "Success") /\ UNCHANGED store
      BY <3>3, ReplyingCases, NothingChanges DEF store
    <3>4. CASE StoreChange(req, Set(Drop(meta, req.p), req.q, meta[req.p]), dirs)
      BY <1>3, <2>1, <3>4, FilesChanged DEF Touches
    <3>5. CASE StoreChange(req, meta, (dirs \ {req.p}) \cup {req.q})
      BY <3>5, FilesChanged
    <3> QED BY <3>1, <3>2, <3>3, <3>4, <3>5
  <2> QED BY <1>1, <1>5, <2>1, <2>2, StoreShape DEF HandleRename, Taking
<1>6. CASE HandleMakeDir
  <2>1. Serving(req)
    BY <1>1, <1>6, TakenServed DEF HandleMakeDir
  <2>2. FilesStep(req) /\ Replying(req)
    <3>1. \/ Refuse(req, "AlreadyExists") \/ Refuse(req, "ServerError")
          \/ StoreChange(req, meta, dirs \cup {req.p})
      BY <1>1, <1>6 DEF HandleMakeDir
    <3>2. CASE Refuse(req, "ServerError") \/ Refuse(req, "AlreadyExists")
      BY <3>2, ReplyingCases, NothingChanges DEF Refuse, store
    <3>3. CASE StoreChange(req, meta, dirs \cup {req.p})
      BY <3>3, FilesChanged
    <3> QED BY <3>1, <3>2, <3>3
  <2> QED BY <1>1, <1>6, <2>1, <2>2, StoreShape DEF HandleMakeDir, Taking
<1>7. CASE HandleList \/ HandleStat
  <2>1. Serving(req) /\ work' = Idle /\ UNCHANGED <<client, tables, storageVars, restarts, history>>
    BY <1>1, <1>7, TakenServed DEF HandleList, HandleStat, Taking
  <2>2. Replying(req)
    BY <1>1, <1>7, ReplyingCases DEF HandleList, HandleStat, Replying
  <2>3. FilesStep(req)
    BY <1>7, NothingChanges DEF HandleList, HandleStat, store
  <2> QED BY <1>1, <2>1, <2>2, <2>3, StoreShape
<1> QED BY <1>4, <1>5, <1>6, <1>7

\* The table of writes: an entry is made, goes or stays.
LEMMA WritesSet ==
    ASSUME NEW req, NEW w, pending_writes' = Set(pending_writes, key(req), w),
           req.job = "WRITE_FILE", w.path = req.p, w.count = req.x, w.next = 0
    PROVE  WritesStep(req)
BY DEF WritesStep, Set

\* An entry is erased.
LEMMA WritesDrop ==
    ASSUME NEW req, pending_writes' = Drop(pending_writes, key(req)) PROVE WritesStep(req)
BY DEF WritesStep, Drop

\* WRITE_FILE
LEMMA WriteFileShape == ASSUME Typed, HandleWriteFile PROVE WorkStep(Head(jobs))
<1>1. PICK req, m : req = Head(jobs) /\ m = Target(req.p)
  OBVIOUS
<1>2. /\ Serving(req) /\ work' = Idle /\ req.job = "WRITE_FILE"
      /\ UNCHANGED <<client, pending_reads, storageVars, restarts, history>>
  BY <1>1, TakenServed DEF HandleWriteFile, Taking
<1>3. req.job \in Changing
  BY <1>2 DEF Changing
<1>4. ASSUME NEW w, meta' = Set(meta, req.p, w) PROVE FilesStep(req)
  BY <1>3, <1>4 DEF Set, FilesStep, Touches
<1>5. ASSUME NEW x, EnterWrite(req, x) PROVE WritesStep(req) /\ Replying(req)
  <2>1. Replying(req)
    BY <1>5, ReplyingCases DEF EnterWrite
  <2>2. PICK w : w = [path |-> req.p, obj |-> x.obj, count |-> req.x, next |-> 0,
                      replicas |-> x.replicas]
    OBVIOUS
  <2>3. w.path = req.p /\ w.count = req.x /\ w.next = 0
    BY <2>2
  <2>4. pending_writes' = pending_writes \/ pending_writes' = Set(pending_writes, key(req), w)
    BY <1>5, <2>2 DEF EnterWrite
  <2> QED BY <1>2, <2>1, <2>3, <2>4, WritesSet, NothingChanges
<1>6. WritesStep(req) /\ FilesStep(req) /\ Replying(req)
  <2>1. \/ Refuse(req, "ServerError") /\ UNCHANGED pending_writes
        \/ StoreChange(req, Set(meta, req.p, [m EXCEPT !.size = 0]), dirs) /\ UNCHANGED pending_writes
        \/ EnterWrite(req, m) /\ UNCHANGED store
        \/ \E x : meta' = Set(meta, req.p, x) /\ EnterWrite(req, x)
        \/ respond(req, "ServerError") /\ UNCHANGED <<store, pending_writes>>
    BY <1>1 DEF HandleWriteFile
  <2>2. CASE Refuse(req, "ServerError") /\ UNCHANGED pending_writes
    BY <2>2, ReplyingCases, NothingChanges DEF Refuse, store
  <2>3. CASE StoreChange(req, Set(meta, req.p, [m EXCEPT !.size = 0]), dirs) /\ UNCHANGED pending_writes
    <3>1. meta' = Set(meta, req.p, [m EXCEPT !.size = 0]) \/ meta' = meta
      BY <2>3, ChangeCases
    <3> QED BY <1>4, <2>3, <3>1, ReplyingCases, NothingChanges
  <2>4. CASE EnterWrite(req, m) /\ UNCHANGED store
    BY <1>5, <2>4, NothingChanges DEF store
  <2>5. CASE \E x : meta' = Set(meta, req.p, x) /\ EnterWrite(req, x)
    BY <1>4, <1>5, <2>5
  <2>6. CASE respond(req, "ServerError") /\ UNCHANGED <<store, pending_writes>>
    BY <2>6, ReplyingCases, NothingChanges DEF store
  <2> QED BY <2>1, <2>2, <2>3, <2>4, <2>5, <2>6
<1>7. PICK status, type, n, data : Send(req, status, type, n, data)
  BY <1>6 DEF Replying
<1>8. Replies(req)
  BY <1>2, <1>7, SentResponse DEF Replies, storageVars
<1> QED BY <1>1, <1>2, <1>6, <1>8, NothingChanges DEF WorkStep, storageVars

\* READ_FILE
LEMMA ReadFileShape == ASSUME Typed, HandleReadFile PROVE WorkStep(Head(jobs))
<1>1. PICK req : req = Head(jobs)
  OBVIOUS
<1>2. /\ Serving(req) /\ work' = Idle /\ req.job = "READ_FILE"
      /\ UNCHANGED <<client, store, pending_writes, storageVars, restarts, history>>
  BY <1>1, TakenServed DEF HandleReadFile, Taking
<1>3. PICK w : w = [path |-> req.p, obj |-> meta[req.p].obj, count |-> meta[req.p].size, next |-> 0,
                    replicas |-> meta[req.p].replicas]
  OBVIOUS
<1>4. \/ respond(req, "ServerError") /\ pending_reads' = pending_reads
      \/ Reply(req, "Success", 0, << >>) /\ pending_reads' = pending_reads
      \/ /\ pending_reads' = Set(pending_reads, key(req), w)
         /\ Reply(req, "Success", meta[req.p].size, << >>)
  BY <1>1, <1>3 DEF HandleReadFile
<1>5. Replying(req)
  BY <1>4, ReplyingCases
<1>6. ReadsStep(req)
  <2>1. ASSUME pending_reads' = Set(pending_reads, key(req), w) PROVE ReadsStep(req)
    BY <1>2, <1>3, <2>1 DEF ReadsStep, Set
  <2> QED BY <1>4, <2>1, NothingChanges
<1>7. PICK status, type, n, data : Send(req, status, type, n, data)
  BY <1>5 DEF Replying
<1>8. Replies(req)
  BY <1>2, <1>7, SentResponse DEF Replies, storageVars
<1> QED BY <1>1, <1>2, <1>6, <1>8, NothingChanges DEF WorkStep, storageVars, store

\* What is sent to both replicas is about the file of the request.
LEMMA BothShape ==
    ASSUME NEW r, NEW msg \in StorageRequests, NEW req, SendBoth(r, msg), SendsFor(req, msg)
    PROVE  InboxStep(req)
<1>1. ASSUME NEW s \in Storage
      PROVE  inbox'[s] = inbox[s] \/ inbox'[s] = Append(inbox[s], msg)
  BY DEF SendBoth
<1> QED BY <1>1 DEF InboxStep

\* WRITE_CHUNK
LEMMA WriteChunkShape ==
    ASSUME Typed, Ids, NEW c, EntryInv(c), HandleWriteChunk
    PROVE  WorkStep(Head(jobs))
<1>1. PICK req, k, w : req = Head(jobs) /\ k = key(req) /\ w = pending_writes[k]
  OBVIOUS
<1>2. /\ Serving(req) /\ work = Idle /\ req.job = "WRITE_CHUNK" /\ req \in Req
      /\ UNCHANGED <<client, store, pending_reads, node, answers, restarts, history>>
  BY <1>1, TakenServed, TakingTyped DEF HandleWriteChunk, Taking
<1>3. \/ /\ pending_writes' = Drop(pending_writes, k)
         /\ respond(req, "InputError")
         /\ UNCHANGED <<work, inbox>>
      \/ /\ k \in DOMAIN pending_writes
         /\ SendBoth(w.replicas, StorageRequest(req.id, "PUT", w.obj, req.x,
                          req.x + 1 = w.count, << <<req.v, req.x>> >>))
         /\ Wait("PUT", req, req.id, w.replicas)
         /\ UNCHANGED <<pending_writes, replies>>
  BY <1>1 DEF HandleWriteChunk
<1>4. CASE /\ pending_writes' = Drop(pending_writes, k)
           /\ respond(req, "InputError")
           /\ UNCHANGED <<work, inbox>>
  <2>1. Replying(req)
    BY <1>4, ReplyingCases
  <2>2. PICK status, type, n, data : Send(req, status, type, n, data)
    BY <2>1 DEF Replying
  <2>3. Replies(req)
    BY <1>2, <1>4, <2>2, SentResponse DEF Replies
  <2> QED BY <1>1, <1>2, <1>4, <2>3, WritesDrop, NothingChanges DEF WorkStep, store
<1>5. CASE /\ k \in DOMAIN pending_writes
           /\ SendBoth(w.replicas, StorageRequest(req.id, "PUT", w.obj, req.x,
                            req.x + 1 = w.count, << <<req.v, req.x>> >>))
           /\ Wait("PUT", req, req.id, w.replicas)
           /\ UNCHANGED <<pending_writes, replies>>
  <2>1. PICK final, data : final = (req.x + 1 = w.count) /\ data = << <<req.v, req.x>> >>
    OBVIOUS
  <2>2. PICK msg : msg = StorageRequest(req.id, "PUT", w.obj, req.x, final, data)
    OBVIOUS
  <2>3. msg \in StorageRequests
    <3>1. <<req.v, req.x>> \in Chunk
      BY <1>2, ReqFacts DEF WriteJobs, Chunk
    <3>2. data \in Seq(Chunk) /\ data[1] \in Chunk /\ final \in BOOLEAN
      BY <2>1, <3>1
    <3>3. req.id \in Nat /\ req.x \in 0..MaxChunks
      BY <1>2, ReqFacts
    <3>4. w.obj \in Object
      BY <1>1, <1>5, PendingFacts DEF Typed
    <3> QED BY <2>2, <3>2, <3>3, <3>4, StorageRequestTyped DEF StorageJobs
  <2>4. SendsFor(req, msg)
    <3>1. msg.job = "PUT" /\ msg.id = req.id /\ msg.i = req.x /\ msg.o = w.obj
      BY <2>2 DEF StorageRequest
    <3>2. req.p \in DOMAIN meta /\ meta[req.p].obj = w.obj
      BY <1>1, <1>2, <1>5, ServedEntry
    <3>3. req.job \in Changing
      BY <1>2 DEF Changing
    <3> QED BY <1>2, <3>1, <3>2, <3>3 DEF SendsFor, About
  <2>5. SendBoth(w.replicas, msg)
    BY <1>5, <2>1, <2>2
  <2>6. InboxStep(req)
    BY <2>3, <2>4, <2>5, BothShape
  <2>7. work' # Idle /\ work'.req = req
    <3>1. work' = [kind |-> "PUT", req |-> req, id |-> req.id, left |-> w.replicas, ok |-> TRUE]
      BY <1>5 DEF Wait
    <3>2. DOMAIN work' = {"kind", "req", "id", "left", "ok"} /\ DOMAIN Idle = {"kind"}
      BY <3>1 DEF Idle
    <3> QED BY <3>1, <3>2
  <2> QED BY <1>1, <1>2, <1>5, <2>6, <2>7, NothingChanges DEF WorkStep, Waits, store
<1> QED BY <1>3, <1>4, <1>5

\* The worker asks for a chunk, or gives up.
LEMMA AskShape ==
    ASSUME Typed, NEW req \in Req, NEW left \in Seq(Storage), AskNext(req, left),
           key(req) \in DOMAIN pending_reads
    PROVE  (Replies(req) \/ Waits(req)) /\ ReadsStep(req) /\ InboxStep(req)
<1>1. \/ /\ pending_reads' = Drop(pending_reads, key(req))
         /\ work' = Idle
         /\ respond(req, "ServerError")
         /\ UNCHANGED inbox
      \/ \E i \in 1..Len(left) : \E final, data :
           /\ final = FALSE /\ data = << >> /\ sid' = sid + 1
           /\ inbox' = [inbox EXCEPT ![left[i]] = Append(inbox[left[i]],
                  StorageRequest(sid', "GET", pending_reads[key(req)].obj, req.x, final, data))]
           /\ Wait("GET", req, sid', SubSeq(left, i, Len(left)))
           /\ UNCHANGED <<pending_reads, replies>>
  BY DEF AskNext
<1>2. CASE /\ pending_reads' = Drop(pending_reads, key(req))
           /\ work' = Idle
           /\ respond(req, "ServerError")
           /\ UNCHANGED inbox
  <2>1. Replying(req)
    BY <1>2, ReplyingCases
  <2>2. PICK status, type, n, data : Send(req, status, type, n, data)
    BY <2>1 DEF Replying
  <2>3. Replies(req)
    BY <1>2, <2>2, SentResponse DEF Replies
  <2>4. ReadsStep(req)
    BY <1>2 DEF ReadsStep, Drop
  <2> QED BY <1>2, <2>3, <2>4, NothingChanges
<1>3. ASSUME NEW i \in 1..Len(left), NEW final, NEW data, final = FALSE, data = << >>, sid' = sid + 1,
             inbox' = [inbox EXCEPT ![left[i]] = Append(inbox[left[i]],
                  StorageRequest(sid', "GET", pending_reads[key(req)].obj, req.x, final, data))],
             Wait("GET", req, sid', SubSeq(left, i, Len(left))),
             UNCHANGED <<pending_reads, replies>>
      PROVE  Waits(req) /\ ReadsStep(req) /\ InboxStep(req)
  <2>1. work' # Idle /\ work'.req = req
    <3>1. work' = [kind |-> "GET", req |-> req, id |-> sid', left |-> SubSeq(left, i, Len(left)), ok |-> TRUE]
      BY <1>3 DEF Wait
    <3>2. DOMAIN work' = {"kind", "req", "id", "left", "ok"} /\ DOMAIN Idle = {"kind"}
      BY <3>1 DEF Idle
    <3> QED BY <3>1, <3>2
  <2>2. PICK n, msg : n = sid' /\ msg = StorageRequest(n, "GET", pending_reads[key(req)].obj, req.x, final, data)
    OBVIOUS
  <2>3. msg \in StorageRequests
    <3>1. data \in Seq(Chunk) /\ final \in BOOLEAN
      <4>1. << >> \in Seq(Chunk) /\ FALSE \in BOOLEAN
        OBVIOUS
      <4>2. data = << >>
        BY <1>3
      <4>3. final = FALSE
        BY <1>3
      <4> QED BY <4>1, <4>2, <4>3
    <3>3. req.x \in 0..MaxChunks
      BY ReqFacts
    <3>4. sid \in Nat
      BY DEF Typed, WorkTyped
    <3>5. n \in Nat
      BY <1>3, <2>2, <3>4
    <3>2. pending_reads[key(req)].obj \in Object
      BY PendingFacts DEF Typed
    <3> QED BY <2>2, <3>1, <3>2, <3>3, <3>5, StorageRequestTyped DEF StorageJobs
  <2>4. SendsFor(req, msg)
    BY <2>2 DEF StorageRequest, SendsFor, About
  <2>5. \A s \in Storage : inbox'[s] = inbox[s] \/ inbox'[s] = Append(inbox[s], msg)
    BY <1>3, <2>2 DEF Typed, StorageTyped
  <2>6. InboxStep(req)
    BY <2>3, <2>4, <2>5 DEF InboxStep
  <2> QED BY <1>3, <2>1, <2>6, NothingChanges DEF Waits
<1> QED BY <1>1, <1>2, <1>3

\* READ_CHUNK
LEMMA ReadChunkShape == ASSUME Typed, HandleReadChunk PROVE WorkStep(Head(jobs))
<1>1. PICK req, k : req = Head(jobs) /\ k = key(req)
  OBVIOUS
<1>2. /\ Serving(req) /\ work = Idle /\ req.job = "READ_CHUNK" /\ req \in Req
      /\ UNCHANGED <<client, store, pending_writes, node, answers, restarts, history>>
  BY <1>1, TakenServed, TakingTyped DEF HandleReadChunk, Taking
<1>3. \/ /\ pending_reads' = Drop(pending_reads, k)
         /\ respond(req, "InputError")
         /\ UNCHANGED <<work, inbox>>
      \/ k \in DOMAIN pending_reads /\ AskNext(req, pending_reads[k].replicas)
  BY <1>1 DEF HandleReadChunk
<1>4. CASE /\ pending_reads' = Drop(pending_reads, k)
           /\ respond(req, "InputError")
           /\ UNCHANGED <<work, inbox>>
  <2>1. Replying(req)
    BY <1>4, ReplyingCases
  <2>2. PICK status, type, n, data : Send(req, status, type, n, data)
    BY <2>1 DEF Replying
  <2>3. Replies(req)
    BY <1>2, <1>4, <2>2, SentResponse DEF Replies
  <2>4. ReadsStep(req)
    BY <1>1, <1>4 DEF ReadsStep, Drop
  <2> QED BY <1>1, <1>2, <1>4, <2>3, <2>4, NothingChanges DEF WorkStep, store
<1>5. CASE k \in DOMAIN pending_reads /\ AskNext(req, pending_reads[k].replicas)
  <2>1. pending_reads[k].replicas \in Seq(Storage)
    BY <1>5, PendingFacts, PairFacts DEF Typed
  <2>2. (Replies(req) \/ Waits(req)) /\ ReadsStep(req) /\ InboxStep(req)
    BY <1>1, <1>2, <1>5, <2>1, AskShape
  <2> QED BY <1>1, <1>2, <2>2, NothingChanges DEF WorkStep, store
<1> QED BY <1>3, <1>4, <1>5

\* REMOVE
LEMMA RemoveShape == ASSUME Typed, HandleRemove PROVE WorkStep(Head(jobs))
<1>1. PICK req, m : req = Head(jobs) /\ m = meta[req.p]
  OBVIOUS
<1>2. /\ Serving(req) /\ work = Idle /\ req.job = "REMOVE" /\ req.job \in Changing /\ req \in Req
      /\ UNCHANGED <<client, tables, node, answers, restarts, history>>
  BY <1>1, TakenServed, TakingTyped DEF HandleRemove, Taking, Changing
<1>3. \/ Refuse(req, "ServerError") /\ UNCHANGED <<work, inbox>>
      \/ StoreChange(req, meta, dirs \ {req.p}) /\ UNCHANGED <<work, inbox>>
      \/ StoreChange(req, Drop(meta, req.p), dirs) /\ UNCHANGED <<work, inbox>>
      \/ \E final, data, id :
         /\ req.p \in DOMAIN meta /\ final = FALSE /\ data = << >> /\ id = sid + 1
         /\ SendBoth(m.replicas, StorageRequest(id, "DELETE", m.obj, 0, final, data))
         /\ Wait("DELETE", req, id, m.replicas)
         /\ UNCHANGED <<replies, store>>
  BY <1>1 DEF HandleRemove
<1>4. CASE /\ UNCHANGED <<work, inbox>>
           /\ \/ Refuse(req, "ServerError") \/ StoreChange(req, meta, dirs \ {req.p})
              \/ StoreChange(req, Drop(meta, req.p), dirs)
  <2>1. FilesStep(req) /\ Replying(req)
    <3>1. CASE Refuse(req, "ServerError")
      BY <3>1, ReplyingCases, NothingChanges DEF Refuse, store
    <3>2. CASE StoreChange(req, meta, dirs \ {req.p})
      BY <3>2, FilesChanged
    <3>3. CASE StoreChange(req, Drop(meta, req.p), dirs)
      <4>1. \A p \in DOMAIN meta : p # req.p => p \in DOMAIN Drop(meta, req.p) /\ Drop(meta, req.p)[p] = meta[p]
        BY DEF Drop
      <4> QED BY <1>2, <3>3, <4>1, FilesChanged DEF Touches
    <3> QED BY <1>4, <3>1, <3>2, <3>3
  <2> QED BY <1>1, <1>2, <1>4, <2>1, StoreShape DEF storageVars
<1>5. ASSUME NEW final, NEW data, NEW id, req.p \in DOMAIN meta, final = FALSE, data = << >>, id = sid + 1,
             SendBoth(m.replicas, StorageRequest(id, "DELETE", m.obj, 0, final, data)),
             Wait("DELETE", req, id, m.replicas), UNCHANGED <<replies, store>>
      PROVE  WorkStep(req)
  <2>1. PICK msg : msg = StorageRequest(id, "DELETE", m.obj, 0, final, data)
    OBVIOUS
  <2>2. msg \in StorageRequests
    <3>1. data \in Seq(Chunk) /\ final \in BOOLEAN
      <4>1. << >> \in Seq(Chunk) /\ FALSE \in BOOLEAN
        OBVIOUS
      <4>2. data = << >>
        BY <1>5
      <4>3. final = FALSE
        BY <1>5
      <4> QED BY <4>1, <4>2, <4>3
    <3>3. 0 \in 0..MaxChunks
      BY Bounds
    <3>4. sid \in Nat
      BY DEF Typed, WorkTyped
    <3>5. id \in Nat
      BY <1>5, <3>4
    <3>2. m.obj \in Object
      BY <1>1, <1>5, MetaFacts DEF Typed
    <3> QED BY <2>1, <3>1, <3>2, <3>3, <3>5, StorageRequestTyped DEF StorageJobs
  <2>3. SendsFor(req, msg)
    BY <1>1, <1>2, <1>5, <2>1 DEF StorageRequest, SendsFor, About
  <2>4. SendBoth(m.replicas, msg)
    BY <1>5, <2>1
  <2>5. InboxStep(req)
    BY <2>2, <2>3, <2>4, BothShape
  <2>6. work' # Idle /\ work'.req = req
    <3>1. work' = [kind |-> "DELETE", req |-> req, id |-> id, left |-> m.replicas, ok |-> TRUE]
      BY <1>5 DEF Wait
    <3>2. DOMAIN work' = {"kind", "req", "id", "left", "ok"} /\ DOMAIN Idle = {"kind"}
      BY <3>1 DEF Idle
    <3> QED BY <3>1, <3>2
  <2> QED BY <1>2, <1>5, <2>5, <2>6, NothingChanges DEF WorkStep, Waits, store, tables
<1> QED BY <1>1, <1>3, <1>4, <1>5

\* The end of WRITE_CHUNK ...
LEMMA FinishPutShape ==
    ASSUME Typed, Ids, KindInv, NEW c, EntryInv(c), work # Idle, jobs' = jobs, work.kind = "PUT",
           NEW ok, FinishPut(ok), NEW req, req = work.req
    PROVE  WritesStep(req) /\ FilesStep(req) /\ Replying(req)
<1>1. PICK k, w : k = key(req) /\ w = pending_writes[k]
  OBVIOUS
<1>2. /\ k \in DOMAIN pending_writes /\ Serving(req) /\ req.job = "WRITE_CHUNK" /\ req.job \in Changing
  BY <1>1 DEF Typed, WaitInv, Awaited, Serving, KindInv, Changing
<1>3. w.path = req.p
  BY <1>1, <1>2, ServedEntry
<1>4. \/ pending_writes' = Drop(pending_writes, k)
      \/ pending_writes' = [pending_writes EXCEPT ![k].next = @ + 1]
  BY <1>1 DEF FinishPut
<1>5. WritesStep(req)
  <2>1. CASE pending_writes' = Drop(pending_writes, k)
    BY <1>1, <2>1, WritesDrop
  <2>2. CASE pending_writes' = [pending_writes EXCEPT ![k].next = @ + 1]
    <3>1. pending_writes' = [pending_writes EXCEPT ![k] = [w EXCEPT !.next = @ + 1]]
      BY <1>1, <2>2
    <3>2. w \in Pending
      BY <1>1, <1>2, PendingFacts DEF Typed
    <3>3. /\ DOMAIN pending_writes' = DOMAIN pending_writes
          /\ pending_writes'[k] = [w EXCEPT !.next = @ + 1]
          /\ \A x \in DOMAIN pending_writes : x # k => pending_writes'[x] = pending_writes[x]
      BY <1>2, <3>1 DEF Typed, TableTyped
    <3>4. /\ pending_writes'[k].path = w.path /\ pending_writes'[k].obj = w.obj
          /\ pending_writes'[k].count = w.count /\ pending_writes'[k].replicas = w.replicas
      BY <3>2, <3>3 DEF Pending
    <3> QED BY <1>1, <1>2, <3>3, <3>4 DEF WritesStep
  <2> QED BY <1>4, <2>1, <2>2
<1>6. FilesStep(req) /\ Replying(req)
  <2>1. \/ respond(req, "ServerError") /\ UNCHANGED store
        \/ respond(req, "Success") /\ UNCHANGED store
        \/ Refuse(req, "AlreadyExists")
        \/ StoreChange(req, Set(meta, req.p, Completed(w)), dirs)
    BY <1>1, <1>3 DEF FinishPut
  <2>2. CASE StoreChange(req, Set(meta, req.p, Completed(w)), dirs)
    <3>1. \A p \in DOMAIN meta : p # req.p => /\ p \in DOMAIN Set(meta, req.p, Completed(w))
                                              /\ Set(meta, req.p, Completed(w))[p] = meta[p]
      BY DEF Set
    <3> QED BY <1>2, <2>2, <3>1, FilesChanged DEF Touches
  <2>3. CASE Refuse(req, "AlreadyExists")
    BY <2>3, ReplyingCases, NothingChanges DEF Refuse, store
  <2>4. CASE (respond(req, "ServerError") \/ respond(req, "Success")) /\ UNCHANGED store
    BY <2>4, ReplyingCases, NothingChanges DEF store
  <2> QED BY <2>1, <2>2, <2>3, <2>4
<1> QED BY <1>5, <1>6

\* ... and what else the wait for a storage node ends in.
LEMMA ProceedShape ==
    ASSUME Typed, Ids, KindInv, NEW c, EntryInv(c), work # Idle, NEW ok, NEW data, Proceed(ok, data),
           UNCHANGED <<client, jobs, node, restarts, history>>, AnswersStep, NEW req, req = work.req
    PROVE  WorkStep(req)
<1>0. req \in Req /\ Serving(req) /\ work \in Work
  BY WorkFacts DEF Typed, Serving
<1>1. PICK rest : rest = StillLeft(ok)
  OBVIOUS
<1>2. \/ /\ work.kind \in {"PUT", "DELETE"} /\ work' = [work EXCEPT !.left = rest, !.ok = AllOk(ok)]
         /\ UNCHANGED <<replies, store, tables, inbox>>
      \/ /\ work.kind = "PUT" /\ FinishPut(AllOk(ok)) /\ work' = Idle
         /\ UNCHANGED <<pending_reads, inbox>>
      \/ /\ work.kind = "DELETE" /\ FinishDelete(AllOk(ok)) /\ work' = Idle
         /\ UNCHANGED <<tables, inbox>>
      \/ /\ work.kind = "GET" /\ FinishGet(data) /\ work' = Idle
         /\ UNCHANGED <<store, pending_writes, inbox>>
      \/ /\ work.kind = "GET" /\ AskNext(req, rest)
         /\ UNCHANGED <<store, pending_writes>>
  BY <1>1 DEF Proceed
<1>3. ASSUME Replying(req), work' = Idle, inbox' = inbox PROVE Replies(req)
  BY <1>3, SentResponse DEF Replying, Replies
<1>4. CASE /\ work.kind \in {"PUT", "DELETE"} /\ work' = [work EXCEPT !.left = rest, !.ok = AllOk(ok)]
           /\ UNCHANGED <<replies, store, tables, inbox>>
  <2>1. work'.req = req /\ work' # Idle
    <3>1. DOMAIN work' = {"kind", "req", "id", "left", "ok"} /\ DOMAIN Idle = {"kind"} /\ work'.req = req
      BY <1>0, <1>4 DEF Work, Idle
    <3> QED BY <3>1
  <2> QED BY <1>0, <1>4, <2>1, NothingChanges DEF WorkStep, Waits, store, tables
<1>5. CASE /\ work.kind = "PUT" /\ FinishPut(AllOk(ok)) /\ work' = Idle
           /\ UNCHANGED <<pending_reads, inbox>>
  <2>1. WritesStep(req) /\ FilesStep(req) /\ Replying(req)
    BY <1>5, FinishPutShape
  <2> QED BY <1>0, <1>3, <1>5, <2>1, NothingChanges DEF WorkStep
<1>6. CASE /\ work.kind = "DELETE" /\ FinishDelete(AllOk(ok)) /\ work' = Idle
           /\ UNCHANGED <<tables, inbox>>
  <2>1. req.job \in Changing
    BY <1>6 DEF KindInv, Changing
  <2>2. Refuse(req, "ServerError") \/ StoreChange(req, Drop(meta, req.p), dirs)
    BY <1>6 DEF FinishDelete
  <2>3. FilesStep(req) /\ Replying(req)
    <3>1. CASE Refuse(req, "ServerError")
      BY <3>1, ReplyingCases, NothingChanges DEF Refuse, store
    <3>2. CASE StoreChange(req, Drop(meta, req.p), dirs)
      <4>1. \A p \in DOMAIN meta : p # req.p => p \in DOMAIN Drop(meta, req.p) /\ Drop(meta, req.p)[p] = meta[p]
        BY DEF Drop
      <4> QED BY <2>1, <3>2, <4>1, FilesChanged DEF Touches
    <3> QED BY <2>2, <3>1, <3>2
  <2> QED BY <1>0, <1>3, <1>6, <2>3, NothingChanges DEF WorkStep, tables
<1>7. CASE /\ work.kind = "GET" /\ FinishGet(data) /\ work' = Idle
           /\ UNCHANGED <<store, pending_writes, inbox>>
  <2>1. Replying(req)
    BY <1>7, ReplyingCases DEF FinishGet
  <2>2. key(req) \in DOMAIN pending_reads
    BY <1>7 DEF Typed, WaitInv, Awaited
  <2>3. ReadsStep(req)
    <3>1. PICK k, w : k = key(req) /\ w = pending_reads[k]
      OBVIOUS
    <3>2. \/ pending_reads' = Drop(pending_reads, k)
          \/ pending_reads' = [pending_reads EXCEPT ![k].next = @ + 1]
      BY <1>7, <3>1 DEF FinishGet
    <3>3. CASE pending_reads' = [pending_reads EXCEPT ![k].next = @ + 1]
      <4>1. pending_reads' = [pending_reads EXCEPT ![k] = [w EXCEPT !.next = @ + 1]]
        BY <3>1, <3>3
      <4>2. w \in Pending
        BY <2>2, <3>1, PendingFacts DEF Typed
      <4>3. /\ DOMAIN pending_reads' = DOMAIN pending_reads
            /\ pending_reads'[k] = [w EXCEPT !.next = @ + 1]
            /\ \A x \in DOMAIN pending_reads : x # k => pending_reads'[x] = pending_reads[x]
        BY <2>2, <3>1, <4>1 DEF Typed, TableTyped
      <4>4. pending_reads'[k].obj = w.obj /\ pending_reads'[k].replicas = w.replicas
        BY <4>2, <4>3 DEF Pending
      <4> QED BY <2>2, <3>1, <4>3, <4>4 DEF ReadsStep
    <3>4. CASE pending_reads' = Drop(pending_reads, k)
      BY <3>1, <3>4 DEF ReadsStep, Drop
    <3> QED BY <3>2, <3>3, <3>4
  <2> QED BY <1>0, <1>3, <1>7, <2>1, <2>3, NothingChanges DEF WorkStep, store
<1>8. CASE /\ work.kind = "GET" /\ AskNext(req, rest)
           /\ UNCHANGED <<store, pending_writes>>
  <2>1. key(req) \in DOMAIN pending_reads
    BY <1>8 DEF Typed, WaitInv, Awaited
  <2>2. rest \in Seq(Storage)
    BY <1>1, WorkFacts, HeadTailProperties DEF Typed, StillLeft
  <2>3. (Replies(req) \/ Waits(req)) /\ ReadsStep(req) /\ InboxStep(req)
    BY <1>0, <1>8, <2>1, <2>2, AskShape
  <2> QED BY <1>0, <1>8, <2>3, NothingChanges DEF WorkStep, store
<1> QED BY <1>2, <1>4, <1>5, <1>6, <1>7, <1>8

\* The answer that the worker takes was there.
LEMMA AnswerTaken == ASSUME Typed, WorkerReceive PROVE AnswersStep
<1>1. PICK s, i : /\ s = Head(work.left) /\ i \in 1..Len(answers[s])
                  /\ answers' = [answers EXCEPT ![s] = Erased(answers[s], i)]
  BY DEF WorkerReceive
<1>2. s \in Storage
  BY <1>1, WorkFacts, HeadTailProperties DEF Typed, WorkerReceive
<1>3. ASSUME NEW x \in Storage, NEW h \in 1..Len(answers'[x])
      PROVE  \E j \in 1..Len(answers[x]) : answers'[x][h] = answers[x][j]
  <2>1. CASE x = s
    <3>1. PICK q, q1 : q = answers[x] /\ q1 = answers'[x]
      OBVIOUS
    <3>2. q1 = Erased(q, i) /\ q \in Seq(Answer) /\ i \in 1..Len(q) /\ h \in 1..Len(q1)
      BY <1>1, <1>2, <1>3, <2>1, <3>1 DEF Typed, StorageTyped
    <3>3. \E j \in 1..Len(q) : q1[h] = q[j]
      BY <3>2, ErasedElements
    <3> QED BY <3>1, <3>3
  <2>2. CASE x # s
    <3>1. answers'[x] = answers[x]
      BY <1>1, <1>3, <2>2 DEF Typed, StorageTyped
    <3> QED BY <1>3, <3>1
  <2> QED BY <2>1, <2>2
<1> QED BY <1>3 DEF AnswersStep

\* Every step of the worker serves a request.
LEMMA WorkerShape ==
    ASSUME Typed, Ids, KindInv, NEW c, EntryInv(c), WorkerHandle \/ WorkerReceive \/ WorkerTimeout
    PROVE  \E req \in Req : WorkStep(req)
<1>1. CASE WorkerHandle
  <2>1. WorkStep(Head(jobs))
    BY <1>1, NamesShape, WriteFileShape, WriteChunkShape, ReadFileShape, ReadChunkShape, RemoveShape
       DEF WorkerHandle
  <2>2. Head(jobs) \in Req
    BY <2>1, ServingFacts DEF WorkStep
  <2> QED BY <2>1, <2>2
<1>2. CASE WorkerReceive
  <2>1. work # Idle /\ UNCHANGED <<client, jobs, node, restarts, history>>
    BY <1>2 DEF WorkerReceive
  <2>2. \E ok, data : Proceed(ok, data)
    BY <1>2 DEF WorkerReceive
  <2>3. PICK ok, data : Proceed(ok, data)
    BY <2>2
  <2>5. AnswersStep
    BY <1>2, AnswerTaken
  <2>6. work.req \in Req
    BY <2>1, WorkFacts DEF Typed
  <2> QED BY <2>1, <2>3, <2>5, <2>6, ProceedShape
<1>3. CASE WorkerTimeout
  <2>1. work # Idle /\ UNCHANGED <<client, jobs, node, restarts, history>> /\ answers' = answers
        /\ Proceed(FALSE, << >>)
    BY <1>3 DEF WorkerTimeout
  <2>2. PICK ok, data : Proceed(ok, data)
    BY <2>1
  <2>3. work.req \in Req /\ AnswersStep
    BY <2>1, WorkFacts, NothingChanges DEF Typed
  <2> QED BY <2>1, <2>2, <2>3, ProceedShape
<1> QED BY <1>1, <1>2, <1>3

-----------------------------------------------------------------------------
(* Acknowledged writes: what is under way *)

\* The request the worker is at comes before those in the queue, after those
\* that are answered, and is the client's if that is in the operation.
LEMMA ServedFirst ==
    ASSUME Typed, NEW c \in Client, Client = {c}, QueueInv(c), NEW req, Serving(req)
    PROVE  /\ req \in Req /\ req.id \in Nat /\ req.c = c /\ req.id <= client[c].id
           /\ \A i \in 1..Len(jobs') : /\ req.id < jobs'[i].id
                                       /\ \E j \in 1..Len(jobs) : jobs'[i] = jobs[j]
           /\ \A i, j \in 1..Len(jobs') : i < j => jobs'[i].id < jobs'[j].id
           /\ \A m \in replies[c] : m.id < req.id
           /\ client[c].req # NoReq /\ client[c].req.id = req.id => client[c].req = req
           /\ work # Idle => work.req = req
           /\ work = Idle => \E i \in 1..Len(jobs) : jobs[i] = req
           /\ req \in Active(c)
<1>1. /\ jobs \in Seq(Req) /\ client[c].id \in Nat
      /\ \A i \in 1..Len(jobs) : jobs[i] \in Req /\ jobs[i].id \in Nat
      /\ client[c].req # NoReq => client[c].req.id = client[c].id
      /\ work # Idle => work.req \in Req /\ work.req.id \in Nat
  BY AckTypes DEF QueueInv
<1>2. CASE work # Idle
  <2>1. req = work.req /\ jobs' = jobs
    BY <1>2 DEF Serving
  <2>2. req \in Active(c)
    BY <1>2, <2>1, ActiveFacts
  <2>3. req.c = c
    BY <1>1, <1>2, <2>1, OneKey
  <2> QED BY <1>1, <1>2, <2>1, <2>2, <2>3 DEF QueueInv
<1>3. CASE work = Idle
  <2>1. jobs # << >> /\ req = Head(jobs) /\ jobs' = Tail(jobs)
    BY <1>3 DEF Serving
  <2>2. PICK n \in Nat : n = Len(jobs)
    BY <1>1, LenProperties
  <2>3. n >= 1 /\ jobs[1] = req
    BY <1>1, <2>1, <2>2
  <2>4. Len(jobs') = n - 1 /\ \A i \in 1..(n - 1) : jobs'[i] = jobs[i + 1]
    BY <1>1, <2>1, <2>2, HeadTailProperties
  <2>5. \A i \in 1..(n - 1) : i + 1 \in 1..n /\ 1 < i + 1
    BY <2>3
  <2>6. \A i \in 1..Len(jobs') : req.id < jobs'[i].id /\ \E j \in 1..Len(jobs) : jobs'[i] = jobs[j]
    BY <2>2, <2>3, <2>4, <2>5 DEF QueueInv
  <2>7. \A i, j \in 1..Len(jobs') : i < j => jobs'[i].id < jobs'[j].id
    <3>1. SUFFICES ASSUME NEW i \in 1..(n - 1), NEW j \in 1..(n - 1), i < j
                   PROVE  jobs'[i].id < jobs'[j].id
      BY <2>4
    <3>2. i + 1 < j + 1
      BY <3>1
    <3> QED BY <2>2, <2>4, <2>5, <3>2 DEF QueueInv
  <2>8. 1 \in 1..Len(jobs)
    BY <2>2, <2>3
  <2>9. req \in Active(c)
    BY <2>3, <2>8, ActiveFacts
  <2>10. req \in Req /\ req.id \in Nat /\ req.c = c
    BY <1>1, <2>3, <2>8, OneKey
  <2>11. client[c].req # NoReq /\ client[c].req.id = req.id => client[c].req = req
    BY <1>1, <2>3, <2>8 DEF QueueInv
  <2>12. req.id <= client[c].id /\ \A m \in replies[c] : m.id < req.id
    BY <2>3, <2>8 DEF QueueInv
  <2> QED BY <1>3, <2>3, <2>6, <2>7, <2>8, <2>9, <2>10, <2>11, <2>12
<1> QED BY <1>2, <1>3

\* What is under way after a step of the worker was so before.
LEMMA StillActive ==
    ASSUME Typed, NEW c \in Client, Client = {c}, QueueInv(c), NEW req, WorkStep(req), NEW r \in Active(c)'
    PROVE  r \in Active(c) /\ (r = req \/ r.id # req.id)
<1>1. Serving(req) /\ client' = client /\ (work' # Idle => work'.req = req)
  BY DEF WorkStep, Replies, Waits
<1>2. \/ \E i \in 1..Len(jobs') : r = jobs'[i]
      \/ r = req
      \/ client[c].req # NoReq /\ r = client[c].req
  BY <1>1, ActiveFacts
<1>3. CASE \E i \in 1..Len(jobs') : r = jobs'[i]
  <2>1. PICK i \in 1..Len(jobs') : r = jobs'[i]
    BY <1>3
  <2>2. PICK j \in 1..Len(jobs) : jobs'[i] = jobs[j]
    BY <1>1, ServedFirst
  <2>3. req.id < r.id /\ req.id \in Nat /\ r.id \in Nat
    BY <1>1, <2>1, <2>2, ServedFirst, AckTypes
  <2>4. r \in Active(c)
    BY <2>1, <2>2, ActiveFacts
  <2> QED BY <2>3, <2>4
<1>4. CASE r = req
  BY <1>1, <1>4, ServedFirst
<1>5. CASE client[c].req # NoReq /\ r = client[c].req
  BY <1>1, <1>5, ServedFirst, ActiveFacts
<1> QED BY <1>2, <1>3, <1>4, <1>5

\* The responses under way to c, old and new.
LEMMA RepliesStep ==
    ASSUME Typed, NEW c \in Client, Client = {c}, QueueInv(c), NEW req, WorkStep(req)
    PROVE  /\ work' # Idle => replies'[c] = replies[c]
           /\ work' = Idle => \E m : ResponseTo(m, req) /\ replies'[c] = replies[c] \cup {m}
<1>1. Serving(req) /\ (Replies(req) \/ Waits(req))
  BY DEF WorkStep
<1>2. req.c = c
  BY <1>1, ServedFirst
<1> QED BY <1>1, <1>2 DEF Replies, Waits, Typed, RepliesTyped

\* The order of a process is kept by the worker.
LEMMA WorkQueue ==
    ASSUME Typed, NEW c \in Client, Client = {c}, QueueInv(c), NEW req, WorkStep(req)
    PROVE  QueueInv(c)'
<1>1. Serving(req) /\ client' = client /\ (work' # Idle => work'.req = req)
  BY DEF WorkStep, Replies, Waits
<1>2. /\ req.id \in Nat /\ req.id <= client[c].id
      /\ \A i \in 1..Len(jobs') : /\ req.id < jobs'[i].id
                                  /\ \E j \in 1..Len(jobs) : jobs'[i] = jobs[j]
      /\ \A i, j \in 1..Len(jobs') : i < j => jobs'[i].id < jobs'[j].id
      /\ \A m \in replies[c] : m.id < req.id
      /\ client[c].req # NoReq /\ client[c].req.id = req.id => client[c].req = req
  BY <1>1, ServedFirst
<1>3. /\ client[c].id \in Nat /\ \A m \in replies[c] : m.id \in Nat
      /\ \A i \in 1..Len(jobs) : jobs[i].id \in Nat
  BY AckTypes
<1>4. \A i \in 1..Len(jobs') : jobs'[i].id \in Nat /\ jobs'[i].id <= client[c].id
  BY <1>2, <1>3 DEF QueueInv
<1>5. work' # Idle =>
         work'.req.id <= client'[c].id /\ \A i \in 1..Len(jobs') : work'.req.id < jobs'[i].id
  BY <1>1, <1>2
<1>6. ASSUME NEW m \in replies'[c]
      PROVE  /\ m.id <= client[c].id /\ (work' # Idle => m.id < work'.req.id)
             /\ \A i \in 1..Len(jobs') : m.id < jobs'[i].id
             /\ \A l \in replies'[c] : l.id = m.id => l = m
             /\ client[c].req # NoReq /\ m.id = client[c].id => Answers(m, client[c].req)
  <2>1. CASE work' # Idle
    <3>1. replies'[c] = replies[c]
      BY <2>1, RepliesStep
    <3>2. \A i \in 1..Len(jobs') : m.id < jobs'[i].id
      BY <1>2, <1>6, <3>1 DEF QueueInv
    <3> QED BY <1>1, <1>2, <1>6, <3>1, <3>2 DEF QueueInv
  <2>2. CASE work' = Idle
    <3>1. PICK a : ResponseTo(a, req) /\ replies'[c] = replies[c] \cup {a}
      BY <2>2, RepliesStep
    <3>2. a.id = req.id
      BY <3>1 DEF ResponseTo
    <3>3. CASE m = a
      <4>1. \A l \in replies'[c] : l.id = m.id => l = m
        BY <1>2, <1>3, <3>1, <3>2, <3>3
      <4>2. ASSUME client[c].req # NoReq, m.id = client[c].id PROVE Answers(m, client[c].req)
        <5>1. client[c].req = req
          BY <1>2, <3>2, <3>3, <4>2 DEF QueueInv
        <5> QED BY <3>1, <3>3, <5>1 DEF ResponseTo, Answers
      <4> QED BY <1>2, <2>2, <3>2, <3>3, <4>1, <4>2
    <3>4. CASE m # a
      <4>1. m \in replies[c] /\ m.id < req.id
        BY <1>2, <1>6, <3>1, <3>4
      <4>2. \A l \in replies'[c] : l.id = m.id => l = m
        BY <1>2, <1>3, <3>1, <3>2, <4>1 DEF QueueInv
      <4>3. \A i \in 1..Len(jobs') : m.id < jobs'[i].id
        BY <1>2, <4>1 DEF QueueInv
      <4> QED BY <2>2, <4>1, <4>2, <4>3 DEF QueueInv
    <3> QED BY <3>3, <3>4
  <2> QED BY <2>1, <2>2
<1>7. ASSUME client[c].req # NoReq
      PROVE  /\ client[c].req.id = client[c].id
             /\ \A i \in 1..Len(jobs') : jobs'[i].id = client[c].id => jobs'[i] = client[c].req
             /\ work' # Idle /\ work'.req.id = client[c].id => work'.req = client[c].req
  BY <1>1, <1>2, <1>7 DEF QueueInv
<1> QED BY <1>1, <1>2, <1>4, <1>5, <1>6, <1>7 DEF QueueInv

\* No entry is younger than the request the worker is at.
LEMMA EntriesOlder ==
    ASSUME Typed, NEW c \in Client, Client = {c}, QueueInv(c), EntryInv(c), NEW req, Serving(req),
           NEW k \in DOMAIN pending_writes \cup DOMAIN pending_reads
    PROVE  k \in Keys /\ k[2] \in Nat /\ k[2] <= req.id
<1>1. k \in Keys /\ k[2] \in Nat
  BY AckTypes, OneKey DEF Keys
<1>2. (work # Idle => work.req = req) /\ (work = Idle => \E i \in 1..Len(jobs) : jobs[i] = req)
  BY ServedFirst
<1> QED BY <1>1, <1>2 DEF EntryInv

\* The entries of a process are those of its conversations.
LEMMA WorkEntry ==
    ASSUME Typed, Typed', NEW c \in Client, Client = {c}, QueueInv(c), EntryInv(c), NEW req, WorkStep(req)
    PROVE  EntryInv(c)'
<1>1. /\ Serving(req) /\ client' = client /\ (work' # Idle => work'.req = req)
      /\ WritesStep(req) /\ ReadsStep(req)
  BY DEF WorkStep, Replies, Waits
<1>2. /\ req \in Req /\ req.id \in Nat /\ req.id <= client[c].id /\ req \in Active(c)
      /\ \A i \in 1..Len(jobs') : req.id < jobs'[i].id /\ \E j \in 1..Len(jobs) : jobs'[i] = jobs[j]
      /\ client[c].req # NoReq /\ client[c].req.id = req.id => client[c].req = req
  BY <1>1, ServedFirst
<1>3. key(req)[2] = req.id /\ client[c].id \in Nat /\ \A i \in 1..Len(jobs) : jobs[i].id \in Nat
  BY <1>2, AckTypes DEF key
<1>4. ASSUME NEW k \in DOMAIN pending_writes' \cup DOMAIN pending_reads'
      PROVE  /\ k[2] <= client[c].id /\ k[2] <= req.id
             /\ \A i \in 1..Len(jobs') : k[2] <= jobs'[i].id
  <2>1. k = key(req) \/ k \in DOMAIN pending_writes \cup DOMAIN pending_reads
    BY <1>1, <1>4 DEF WritesStep, ReadsStep
  <2>2. k[2] \in Nat /\ k[2] <= req.id
    BY <1>1, <1>2, <1>3, <2>1, EntriesOlder
  <2>3. k[2] <= client[c].id
    BY <1>2, <1>3, <2>2
  <2>4. ASSUME NEW i \in 1..Len(jobs') PROVE k[2] <= jobs'[i].id
    <3>1. req.id < jobs'[i].id /\ jobs'[i].id \in Nat
      BY <1>2, <1>3
    <3> QED BY <1>2, <2>2, <3>1
  <2> QED BY <2>2, <2>3, <2>4
<1>5. ASSUME NEW r \in Active(c)'
      PROVE  /\ key(r) \in DOMAIN pending_writes' =>
                   r.job \in WriteJobs /\ pending_writes'[key(r)].path = r.p
             /\ key(r) \in DOMAIN pending_reads' => r.job \in ReadJobs
  <2>1. r \in Active(c) /\ (r = req \/ r.id # req.id)
    BY <1>5, StillActive
  <2>2. CASE key(r) # key(req)
    BY <1>1, <2>1, <2>2 DEF WritesStep, ReadsStep, EntryInv
  <2>3. CASE key(r) = key(req)
    <3>1. r = req
      BY <2>1, <2>3 DEF key
    <3>2. ASSUME key(req) \in DOMAIN pending_writes'
          PROVE  req.job \in WriteJobs /\ pending_writes'[key(req)].path = req.p
      BY <1>1, <1>2, <3>2 DEF WritesStep, EntryInv, WriteJobs
    <3>3. ASSUME key(req) \in DOMAIN pending_reads' PROVE req.job \in ReadJobs
      BY <1>1, <1>2, <3>3 DEF ReadsStep, EntryInv, ReadJobs
    <3> QED BY <3>1, <3>2, <3>3
  <2> QED BY <2>2, <2>3
<1>6. ASSUME client[c].req # NoReq
      PROVE  /\ client[c].req.job = "WRITE_FILE" => client[c].req.x = client[c].n
             /\ key(client[c].req) \in DOMAIN pending_writes' =>
                   pending_writes'[key(client[c].req)].count = client[c].n
  <2>1. client[c].req.job = "WRITE_FILE" => client[c].req.x = client[c].n
    BY <1>6 DEF EntryInv
  <2>2. ASSUME key(client[c].req) \in DOMAIN pending_writes'
        PROVE  pending_writes'[key(client[c].req)].count = client[c].n
    <3>1. CASE key(client[c].req) # key(req)
      BY <1>1, <1>6, <2>2, <3>1 DEF WritesStep, EntryInv
    <3>2. CASE key(client[c].req) = key(req)
      <4>1. client[c].req = req
        BY <1>2, <1>6, <3>2 DEF key
      <4> QED BY <1>1, <1>6, <2>1, <2>2, <4>1 DEF WritesStep, EntryInv
    <3> QED BY <3>1, <3>2
  <2> QED BY <2>1, <2>2
<1> QED BY <1>1, <1>4, <1>5, <1>6 DEF EntryInv

\* The worker changes no history.
LEMMA WorkChange ==
    ASSUME Typed, NEW c \in Client, Client = {c}, QueueInv(c), ChangeInv(c), NEW req, WorkStep(req)
    PROVE  ChangeInv(c)'
<1>1. settled' = settled /\ contested' = contested
  BY DEF WorkStep, history
<1>2. \A r \in Active(c)' : r \in Active(c)
  BY StillActive
<1> QED BY <1>1, <1>2 DEF ChangeInv

\* What a path holds stays there unless the worker serves a request that
\* changes it.
LEMMA StillSame ==
    ASSUME NEW s \in Storage, NEW o, Still(s, o), inbox'[s] = inbox[s] PROVE Still(s, o)'
BY DEF Still

\* A message about another object is sent.
LEMMA StillMore ==
    ASSUME NEW s \in Storage, NEW o, Still(s, o), inbox[s] \in Seq(StorageRequests),
           NEW m \in StorageRequests, inbox'[s] = Append(inbox[s], m), ~About(m, o)
    PROVE  Still(s, o)'
<1>1. PICK n \in Nat : n = Len(inbox[s])
  BY LenProperties
<1>2. Len(inbox'[s]) = n + 1 /\ inbox'[s][n + 1] = m /\ \A i \in 1..n : inbox'[s][i] = inbox[s][i]
  BY <1>1, AppendProperties
<1>3. \A i \in 1..(n + 1) : i \in 1..n \/ i = n + 1
  OBVIOUS
<1> QED BY <1>1, <1>2, <1>3 DEF Still

\* Nothing about another file's object is sent.
LEMMA WorkStill ==
    ASSUME Typed, NEW req, InboxStep(req), NEW s \in Storage, NEW o, Still(s, o),
           req.job \in Changing /\ req.p \in DOMAIN meta => meta[req.p].obj # o
    PROVE  Still(s, o)'
<1>1. inbox[s] \in Seq(StorageRequests)
  BY DEF Typed, StorageTyped
<1>2. CASE inbox'[s] = inbox[s]
  BY <1>2, StillSame
<1>3. CASE \E m \in StorageRequests : inbox'[s] = Append(inbox[s], m) /\ SendsFor(req, m)
  <2>1. PICK m \in StorageRequests : inbox'[s] = Append(inbox[s], m) /\ SendsFor(req, m)
    BY <1>3
  <2>2. ~About(m, o)
    BY <2>1 DEF SendsFor
  <2> QED BY <1>1, <2>1, <2>2, StillMore
<1> QED BY <1>2, <1>3 DEF InboxStep

\* So does what a path holds, unless the request changes the path.
LEMMA WorkStored ==
    ASSUME Typed, Ids, NEW req, WorkStep(req), NEW p, NEW v \in Nat \X Nat, Stored(p, v), ~Touches(req, p)
    PROVE  Stored(p, v)'
<1>1. node' = node /\ InboxStep(req) /\ p \in DOMAIN meta' /\ meta'[p] = meta[p]
  BY DEF WorkStep, FilesStep, Stored
<1>2. p \in DOMAIN meta /\ meta[p].size = v[2]
  BY DEF Stored
<1>3. req.job \in Changing /\ req.p \in DOMAIN meta => meta[req.p].obj # meta[p].obj
  BY <1>2 DEF Ids, ObjectIdentity, Touches
<1>4. ASSUME v[2] > 0, NEW i \in 1..2 PROVE StoredAt(meta[p].replicas[i], meta[p].obj, v)'
  <2>1. PICK s, o : s = meta[p].replicas[i] /\ o = meta[p].obj
    OBVIOUS
  <2>2. s \in Storage
    <3>1. meta[p].replicas \in Pair
      <4>1. meta[p].size # 0 /\ StoreOk(meta, dirs)
        BY <1>2, <1>4 DEF Typed
      <4> QED BY <1>2, <4>1, MetaFacts
    <3> QED BY <1>4, <2>1, <3>1, PairFacts
  <2>3. StoredAt(s, o, v)
    BY <1>4, <2>1 DEF Stored
  <2>4. Still(s, o)'
    BY <1>1, <1>3, <2>1, <2>2, <2>3, WorkStill DEF StoredAt
  <2> QED BY <1>1, <2>1, <2>3, <2>4 DEF StoredAt
<1> QED BY <1>1, <1>2, <1>4 DEF Stored

\* What the operations of a process left is kept by the worker.
LEMMA WorkSafe ==
    ASSUME Typed, Ids, NEW c \in Client, Client = {c}, QueueInv(c), ChangeInv(c), SafeInv,
           NEW req, WorkStep(req)
    PROVE  SafeInv'
<1>1. settled' = settled /\ Serving(req)
  BY DEF WorkStep, history
<1>2. req \in Active(c)
  BY <1>1, ServedFirst
<1>3. ASSUME NEW p \in Path, settled[p] # None PROVE Stored(p, settled[p])'
  <2>1. PICK v : v = settled[p]
    OBVIOUS
  <2>2. v \in Nat \X Nat /\ Stored(p, v)
    BY <1>3, <2>1 DEF Typed, HistoryTyped, Version, SafeInv
  <2>3. ~Touches(req, p)
    BY <1>2, <1>3 DEF ChangeInv, Touches
  <2>4. Stored(p, v)'
    BY <2>2, <2>3, WorkStored
  <2> QED BY <1>1, <2>1, <2>4
<1> QED BY <1>1, <1>3 DEF SafeInv

\* A file that is to be renamed is kept by the worker until then.
LEMMA WorkRename ==
    ASSUME Typed, Ids, NEW c \in Client, Client = {c}, QueueInv(c), RenameInv(c), NEW req, WorkStep(req)
    PROVE  RenameInv(c)'
<1>1. client' = client /\ Serving(req)
  BY DEF WorkStep
<1>2. \A r \in Active(c)' : r \in Active(c)
  BY StillActive
<1>3. ASSUME client[c].req # NoReq, client[c].req.job = "RENAME", client[c].snap # None,
             \E i \in 1..Len(jobs') : jobs'[i].id = client[c].id
      PROVE  /\ Stored(client[c].req.p, client[c].snap)'
             /\ \A r \in Active(c) : r.id # client[c].id /\ r.job \in Changing => client[c].req.p \notin {r.p, r.q}
  <2>1. PICK i \in 1..Len(jobs') : jobs'[i].id = client[c].id
    BY <1>3
  <2>2. req.id < client[c].id /\ (\E j \in 1..Len(jobs) : jobs[j].id = client[c].id) /\ req \in Active(c)
    BY <1>1, <2>1, ServedFirst
  <2>3. /\ Stored(client[c].req.p, client[c].snap)
        /\ \A r \in Active(c) : r.id # client[c].id /\ r.job \in Changing => client[c].req.p \notin {r.p, r.q}
    BY <1>3, <2>2 DEF RenameInv
  <2>4. req.id # client[c].id
    BY <1>1, <2>2, ServedFirst, AckTypes
  <2>5. PICK p, v : p = client[c].req.p /\ v = client[c].snap
    OBVIOUS
  <2>6. ~Touches(req, p) /\ Stored(p, v)
    BY <2>2, <2>3, <2>4, <2>5 DEF Touches
  <2>7. v \in Nat \X Nat
    BY <1>3, <2>5, ClientFacts DEF Typed, Version
  <2>8. Stored(p, v)'
    BY <2>6, <2>7, WorkStored
  <2> QED BY <1>1, <2>3, <2>5, <2>8
<1> QED BY <1>1, <1>2, <1>3 DEF RenameInv

\* A PUT is that of a chunk the client has sent.
LEMMA WorkPut ==
    ASSUME Typed, Typed', NEW c \in Client, Client = {c}, QueueInv(c), PutInv(c), NEW req, WorkStep(req)
    PROVE  PutInv(c)'
<1>1. client' = client /\ Serving(req) /\ InboxStep(req) /\ AnswersStep
  BY DEF WorkStep
<1>2. /\ req.id \in Nat /\ req.id <= client[c].id
      /\ \A i \in 1..Len(jobs') : req.id < jobs'[i].id /\ \E j \in 1..Len(jobs) : jobs'[i] = jobs[j]
      /\ client[c].req # NoReq /\ client[c].req.id = req.id => client[c].req = req
      /\ client[c].req # NoReq => client[c].req.id = client[c].id
  BY <1>1, ServedFirst DEF QueueInv
<1>3. ASSUME NEW m, PutSeen(c, m) PROVE PutSeen(c, m)'
  BY <1>1, <1>2, <1>3 DEF PutSeen
<1>4. ASSUME NEW m, SendsFor(req, m), m.i \in Nat PROVE PutSeen(c, m)'
  <2>1. SUFFICES ASSUME m.job = "PUT"
                 PROVE  /\ m.id <= client[c].id
                        /\ client[c].req # NoReq /\ m.id = client[c].id =>
                              /\ client[c].req.job = "WRITE_CHUNK" /\ m.i <= client[c].req.x
                              /\ \A j \in 1..Len(jobs') : jobs'[j].id # client[c].id
    BY <1>1 DEF PutSeen
  <2>2. m.id = req.id /\ m.i = req.x /\ req.job = "WRITE_CHUNK"
    BY <1>4, <2>1 DEF SendsFor
  <2>3. ASSUME client[c].req # NoReq, m.id = client[c].id
        PROVE  /\ client[c].req.job = "WRITE_CHUNK" /\ m.i <= client[c].req.x
               /\ \A j \in 1..Len(jobs') : jobs'[j].id # client[c].id
    <3>1. client[c].req = req /\ req.id = client[c].id
      BY <1>2, <2>2, <2>3
    <3>2. m.i <= req.x
      BY <1>4, <2>2
    <3>3. \A j \in 1..Len(jobs') : req.id < jobs'[j].id /\ jobs'[j].id \in Nat
      BY <1>2, AckTypes
    <3>4. \A j \in 1..Len(jobs') : jobs'[j].id # req.id
      BY <1>2, <3>3
    <3> QED BY <2>2, <3>1, <3>2, <3>4
  <2> QED BY <1>2, <2>2, <2>3
<1>5. ASSUME NEW s \in Storage, NEW i \in 1..Len(inbox'[s]), NEW a, a = inbox'[s][i]
      PROVE  PutSeen(c, a)'
  <2>1. CASE inbox'[s] = inbox[s]
    <3>1. PutSeen(c, a)
      BY <1>5, <2>1 DEF PutInv
    <3> QED BY <1>3, <3>1
  <2>2. CASE \E m \in StorageRequests : inbox'[s] = Append(inbox[s], m) /\ SendsFor(req, m)
    <3>1. PICK m \in StorageRequests : inbox'[s] = Append(inbox[s], m) /\ SendsFor(req, m)
      BY <2>2
    <3>2. inbox[s] \in Seq(StorageRequests)
      BY DEF Typed, StorageTyped
    <3>3. PICK n \in Nat : n = Len(inbox[s])
      BY <3>2, LenProperties
    <3>4. Len(inbox'[s]) = n + 1 /\ inbox'[s][n + 1] = m /\ \A j \in 1..n : inbox'[s][j] = inbox[s][j]
      BY <3>1, <3>2, <3>3, AppendProperties
    <3>5. CASE i = n + 1
      <4>1. a = m /\ m.i \in Nat
        BY <1>5, <3>4, <3>5 DEF StorageRequests
      <4> QED BY <1>4, <3>1, <4>1
    <3>6. CASE i \in 1..n
      <4>1. PutSeen(c, a)
        BY <1>5, <3>3, <3>4, <3>6 DEF PutInv
      <4> QED BY <1>3, <4>1
    <3> QED BY <1>5, <3>4, <3>5, <3>6
  <2> QED BY <1>1, <2>1, <2>2 DEF InboxStep
<1>6. ASSUME NEW s \in Storage, NEW i \in 1..Len(answers'[s]), NEW a, a = answers'[s][i]
      PROVE  PutSeen(c, a)'
  <2>1. PICK j \in 1..Len(answers[s]) : a = answers[s][j]
    BY <1>1, <1>6 DEF AnswersStep
  <2>2. PutSeen(c, a)
    BY <2>1 DEF PutInv
  <2> QED BY <1>3, <2>2
<1> QED BY <1>5, <1>6 DEF PutInv, PutSeen

-----------------------------------------------------------------------------
(* Acknowledged writes: storage nodes *)

\* A message that is taken off the queue takes nothing else away, and changes
\* what it is about.
Shifted(s, k) ==
    /\ Len(inbox'[s]) + k = Len(inbox[s])
    /\ \A i \in 1..Len(inbox'[s]) : i + k \in 1..Len(inbox[s]) /\ inbox'[s][i] = inbox[s][i + k]

\* What was not under way is not under way among what is left.
LEMMA ShiftedStill ==
    ASSUME Typed, Typed', NEW s \in Storage, NEW k \in Nat, Shifted(s, k), NEW o, Still(s, o)
    PROVE  Still(s, o)'
BY DEF Still, Shifted

\* What is so after a storage node handled a request ...
HandleFacts(s, m) ==
    /\ m \in StorageRequests /\ m = inbox[s][1] /\ 1 \in 1..Len(inbox[s]) /\ Shifted(s, 1)
    /\ \A o \in Object : ~About(m, o) => SameObject(node'[s], node[s], o)
    /\ \A i \in 1..Len(answers'[s]) :
          \/ i \in 1..Len(answers[s]) /\ answers'[s][i] = answers[s][i]
          \/ LET a == answers'[s][i] IN
             /\ a.id = m.id /\ a.job = m.job /\ a.i = m.i
             /\ \E out \in Outcomes(s, m) : /\ node'[s] = out.node /\ a.status = out.status
                                            /\ (m.job = "GET" => a.data = out.data)

\* A storage node handles its oldest request; the others do nothing.
LEMMA StorageHandled ==
    ASSUME Typed, Typed', NEW s \in Storage, StorageHandle(s)
    PROVE  /\ \E m : HandleFacts(s, m)
           /\ \A x \in Storage : x # s => inbox'[x] = inbox[x] /\ answers'[x] = answers[x]
                                          /\ node'[x] = node[x]
<1>0. PICK m \in StorageRequests, n \in Nat, l \in Nat, a \in Answer :
             /\ n = Len(inbox[s]) /\ n # 0 /\ m = inbox[s][1] /\ Len(inbox'[s]) = n - 1
             /\ \A i \in 1..(n - 1) : inbox'[s][i] = inbox[s][i + 1]
             /\ l = Len(answers[s]) /\ Len(answers'[s]) = l + 1
             /\ \A i \in 1..l : answers'[s][i] = answers[s][i]
             /\ answers'[s][l + 1] = a /\ a.id = m.id /\ a.job = m.job /\ a.i = m.i
             /\ \A o \in Object :
                  /\ OnDisk(node'[s], o) => OnDisk(node[s], o) \/ PutOf(m, o)
                  /\ m.job = "DELETE" /\ m.o = o /\ a.status = "Success" => ~OnDisk(node'[s], o)
                  /\ m.job = "GET" \/ m.o # o => SameObject(node'[s], node[s], o)
             /\ \A x \in Storage : x # s => inbox'[x] = inbox[x] /\ answers'[x] = answers[x]
                                            /\ node'[x] = node[x]
  BY StorageHandleFacts
<1>1. /\ n = Len(inbox[s]) /\ n # 0 /\ m = inbox[s][1] /\ Len(inbox'[s]) = n - 1
      /\ \A i \in 1..(n - 1) : inbox'[s][i] = inbox[s][i + 1]
      /\ l = Len(answers[s]) /\ Len(answers'[s]) = l + 1
      /\ \A i \in 1..l : answers'[s][i] = answers[s][i]
      /\ answers'[s][l + 1] = a /\ a.id = m.id /\ a.job = m.job /\ a.i = m.i
      /\ \A o \in Object : m.job = "GET" \/ m.o # o => SameObject(node'[s], node[s], o)
  BY <1>0
<1>2. \A x \in Storage : x # s => inbox'[x] = inbox[x] /\ answers'[x] = answers[x]
                                  /\ node'[x] = node[x]
  BY <1>0
<1>3. PICK out \in Outcomes(s, m) : node'[s] = out.node /\ a.status = out.status
                                     /\ (m.job = "GET" => a.data = out.data)
  BY <1>1, StorageHandleOutcome
<1>4. Shifted(s, 1) /\ 1 \in 1..Len(inbox[s])
  <2>1. \A i \in 1..(n - 1) : i + 1 \in 1..n
    BY <1>1
  <2>2. n - 1 + 1 = n /\ 1 \in 1..n
    BY <1>1
  <2> QED BY <1>1, <2>1, <2>2 DEF Shifted
<1>5. ASSUME NEW o \in Object, ~About(m, o) PROVE SameObject(node'[s], node[s], o)
  <2>1. m.job \in StorageJobs
    BY <1>1 DEF StorageRequests
  <2> QED BY <1>1, <1>5, <2>1 DEF About, StorageJobs
<1>6. ASSUME NEW i \in 1..Len(answers'[s])
      PROVE  \/ i \in 1..Len(answers[s]) /\ answers'[s][i] = answers[s][i]
             \/ /\ answers'[s][i].id = m.id /\ answers'[s][i].job = m.job /\ answers'[s][i].i = m.i
                /\ answers'[s][i].status = out.status
                /\ m.job = "GET" => answers'[s][i].data = out.data
  <2>1. i \in 1..l \/ i = l + 1
    BY <1>1, <1>6
  <2> QED BY <1>1, <1>3, <2>1
<1>7. HandleFacts(s, m)
  BY <1>1, <1>3, <1>4, <1>5, <1>6 DEF HandleFacts
<1> QED BY <1>2, <1>7

\* ... and after it started again.
RestartFacts(s, k) ==
    /\ Shifted(s, k)
    /\ \A o \in Object : /\ node'[s].next_chunks[o] = Absent
                         /\ Still(s, o) => node'[s].objects[o] = node[s].objects[o]

\* A storage node starts again; the others do nothing.
LEMMA StorageRestarted ==
    ASSUME Typed, Typed', NEW s \in Storage, StorageRestart(s)
    PROVE  /\ \E k \in Nat : RestartFacts(s, k)
           /\ answers' = answers /\ \A x \in Storage : x # s => inbox'[x] = inbox[x] /\ node'[x] = node[x]
<1>1. PICK n \in Nat, k \in Nat :
             /\ n = Len(inbox[s]) /\ k <= n /\ Len(inbox'[s]) = n - k
             /\ \A i \in 1..(n - k) : inbox'[s][i] = inbox[s][i + k]
  BY StorageRestartFacts
<1>2. \A x \in Storage : x # s => inbox'[x] = inbox[x] /\ node'[x] = node[x]
  BY StorageRestartFacts
<1>3. answers' = answers
  BY DEF StorageRestart
<1>4. Shifted(s, k)
  <2>1. \A i \in 1..(n - k) : i + k \in 1..n
    BY <1>1
  <2>2. n - k + k = n
    BY <1>1
  <2> QED BY <1>1, <2>1, <2>2 DEF Shifted
<1>5. ASSUME NEW o \in Object
      PROVE  /\ node'[s].next_chunks[o] = Absent
             /\ Still(s, o) => node'[s].objects[o] = node[s].objects[o]
  <2>1. /\ node'[s].next_chunks[o] = Absent
        /\ \/ node'[s].objects[o] = node[s].objects[o]
           \/ \E i \in 1..Len(inbox[s]) : inbox[s][i].job # "GET" /\ inbox[s][i].o = o
    BY StorageRestartFacts
  <2>2. \A i \in 1..Len(inbox[s]) : inbox[s][i].job \in StorageJobs
    <3>1. inbox[s] \in Seq(StorageRequests)
      BY DEF Typed, StorageTyped
    <3> QED BY <3>1, ElementOfSeq DEF StorageRequests
  <2> QED BY <2>1, <2>2 DEF Still, About, StorageJobs
<1>6. RestartFacts(s, k)
  BY <1>4, <1>5 DEF RestartFacts
<1> QED BY <1>2, <1>3, <1>6

\* The chunks of a write.
LEMMA StreamFacts ==
    ASSUME NEW v \in 1..MaxWrites, NEW n \in 0..MaxChunks
    PROVE  /\ <<v, n>> \in Chunk /\ Stream(v, n) \in Seq(Chunk \cup {Torn}) /\ Stream(v, n) # Absent
           /\ Append(Stream(v, n), <<v, n>>) = Stream(v, n + 1)
           /\ Stream(v, 1) = << <<v, 0>> >>
<1>1. n \in Nat /\ \A i \in 1..n : i - 1 \in 0..MaxChunks
  BY Bounds
<1>2. <<v, n>> \in Chunk /\ \A i \in 1..n : <<v, i - 1>> \in Chunk
  BY <1>1 DEF Chunk
<1>3. Stream(v, n) \in Seq(Chunk \cup {Torn}) /\ Len(Stream(v, n)) = n
  BY <1>1, <1>2 DEF Stream
<1>4. Stream(v, n) # Absent
  BY <1>3, ValuesAssumption
<1>5. Append(Stream(v, n), <<v, n>>) = Stream(v, n + 1)
  <2>1. n + 1 - 1 = n /\ \A i \in 1..(n + 1) : i \in 1..n \/ i = n + 1
    BY <1>1
  <2> QED BY <1>1, <1>3, <2>1 DEF Stream
<1>6. Stream(v, 1) = << <<v, 0>> >>
  <2>1. \A i \in 1..1 : i - 1 = 0 /\ i = 1
    OBVIOUS
  <2> QED BY <2>1 DEF Stream
<1> QED BY <1>2, <1>3, <1>4, <1>5, <1>6

\* A confirmed PUT has completed the prefix of the write.
LEMMA PutSucceeds ==
    ASSUME NEW n \in Node, NEW o \in Object, NEW v \in 1..MaxWrites, NEW i \in 0..MaxChunks,
           NEW final \in BOOLEAN, NEW out \in write_chunk(n, o, i, final, <<v, i>>),
           out.status = "Success",
           i > 0 => (n.next_chunks[o] = i => n.tmp[o] = Stream(v, i))
    PROVE  IF final THEN out.node.objects[o] = Stream(v, i + 1) ELSE out.node.tmp[o] = Stream(v, i + 1)
<1> DEFINE m == IF i = 0 THEN WithNext(n, o, 0) ELSE n
           c == <<v, i>>
           broken == WithTmp(m, o, Written(m, o, i, Torn))
           w1 == WithTmp(m, o, Written(m, o, i, c))
           w == WithNext(w1, o, i + 1)
           Failing(nodes, status) == {[node |-> y, status |-> status] : y \in nodes}
<1>1. m \in Node /\ i \in Nat
  BY NextTyped, Bounds
<1>2. Written(m, o, i, c) = Stream(v, i + 1) \/ ~InOrder(m, o, i)
  <2>1. CASE i = 0
    BY <2>1, StreamFacts DEF Written
  <2>2. CASE i # 0
    <3>1. m = n /\ i > 0
      BY <1>1, <2>2
    <3>2. InOrder(n, o, i) => n.tmp[o] = Stream(v, i)
      BY <3>1 DEF InOrder
    <3> QED BY <2>2, <3>1, <3>2, StreamFacts DEF Written
  <2> QED BY <2>1, <2>2
<1>3. w1.tmp[o] = Written(m, o, i, c) /\ w1.objects = m.objects
  BY <1>1 DEF WithTmp, Node
<1>4. w.tmp[o] = Written(m, o, i, c) /\ Finished(w, o).objects[o] = Written(m, o, i, c)
  <2>1. w.tmp = w1.tmp /\ w.objects = m.objects
    BY <1>3 DEF WithNext
  <2> HIDE DEF w, w1
  <2>2. m.objects \in [Object -> StoredFile]
    BY <1>1 DEF Node
  <2> QED BY <1>3, <2>1, <2>2 DEF Finished
<1>5. /\ InOrder(m, o, i)
      /\ IF final THEN out.node = Finished(w, o) ELSE out.node = w
  <2>1. ASSUME NEW N, NEW st, out \in Failing(N, st) PROVE st = "Success"
    BY <2>1
  <2>2. IF ~InOrder(m, o, i)
        THEN out \in Failing(abort_write(m, o), "InvalidRequest")
        ELSE \/ out \in Failing(abort_write(m, o), "NoSpace")
             \/ out \in Failing(abort_write(m, o) \cup abort_write(broken, o), "WriteError")
             \/ IF final THEN \/ out = [node |-> Finished(w, o), status |-> "Success"]
                              \/ out \in Failing(abort_write(w, o), "WriteError")
                ELSE out = [node |-> w, status |-> "Success"]
    BY DEF write_chunk
  <2> HIDE DEF m, broken, w, w1, Failing
  <2> QED BY <2>1, <2>2
<1> HIDE DEF m, w, w1
<1> QED BY <1>2, <1>4, <1>5

\* Storage nodes change nothing else.
LEMMA StorageOnly ==
    ASSUME NEW s, StorageHandle(s) \/ StorageRestart(s)
    PROVE  UNCHANGED <<clientVars, jobs, work, store, tables, history>>
BY DEF StorageHandle, StorageRestart

\* What no message is about stays as it is, but for what was in RAM.
LEMMA StorageStill ==
    ASSUME Typed, Typed', NEW s \in Storage, StorageHandle(s) \/ StorageRestart(s),
           NEW x \in Storage, NEW o \in Object, Still(x, o)
    PROVE  /\ Still(x, o)' /\ node'[x].objects[o] = node[x].objects[o]
           /\ \/ node'[x].next_chunks[o] = Absent
              \/ /\ node'[x].next_chunks[o] = node[x].next_chunks[o]
                 /\ node'[x].tmp[o] = node[x].tmp[o]
<1>1. CASE x # s
  <2>1. inbox'[x] = inbox[x] /\ node'[x] = node[x]
    BY <1>1, StorageHandled, StorageRestarted
  <2> QED BY <2>1, StillSame
<1>2. CASE x = s /\ StorageHandle(s)
  <2>1. PICK m : HandleFacts(s, m)
    BY <1>2, StorageHandled
  <2>2. ~About(m, o) /\ Shifted(s, 1)
    BY <1>2, <2>1 DEF Still, HandleFacts
  <2>3. SameObject(node'[s], node[s], o)
    BY <2>1, <2>2 DEF HandleFacts
  <2> QED BY <1>2, <2>2, <2>3, ShiftedStill DEF SameObject
<1>3. CASE x = s /\ StorageRestart(s)
  <2>1. PICK k \in Nat : RestartFacts(s, k)
    BY <1>3, StorageRestarted
  <2> QED BY <1>3, <2>1, ShiftedStill DEF RestartFacts
<1> QED BY <1>1, <1>2, <1>3

\* A stored prefix and a stored version stay stored.
LEMMA StoragePrefix ==
    ASSUME Typed, Typed', NEW s \in Storage, StorageHandle(s) \/ StorageRestart(s),
           NEW x \in Storage, NEW o \in Object, Still(x, o), NEW v, NEW j \in Nat, Prefix(x, o, v, j)
    PROVE  Prefix(x, o, v, j)'
<1>1. \/ node'[x].next_chunks[o] = Absent
      \/ /\ node'[x].next_chunks[o] = node[x].next_chunks[o]
         /\ node'[x].tmp[o] = node[x].tmp[o]
  BY StorageStill
<1> QED BY <1>1, ValuesAssumption DEF Prefix

\* What a path holds stays there, whatever storage nodes do.
LEMMA StorageStored ==
    ASSUME Typed, Typed', NEW s \in Storage, StorageHandle(s) \/ StorageRestart(s),
           NEW p, NEW v \in Nat \X Nat, Stored(p, v)
    PROVE  Stored(p, v)'
<1>1. meta' = meta /\ p \in DOMAIN meta /\ meta[p].size = v[2] /\ StoreOk(meta, dirs)
  BY StorageOnly DEF store, Stored, Typed
<1>2. ASSUME v[2] > 0, NEW i \in 1..2 PROVE StoredAt(meta[p].replicas[i], meta[p].obj, v)'
  <2>1. PICK x, o : x = meta[p].replicas[i] /\ o = meta[p].obj
    OBVIOUS
  <2>2. x \in Storage /\ o \in Object
    BY <1>1, <1>2, <2>1, MetaFacts, PairFacts
  <2>3. StoredAt(x, o, v)
    BY <1>2, <2>1 DEF Stored
  <2>4. Still(x, o)' /\ node'[x].objects[o] = node[x].objects[o]
    BY <2>2, <2>3, StorageStill DEF StoredAt
  <2> QED BY <1>1, <2>1, <2>3, <2>4 DEF StoredAt
<1> QED BY <1>1, <1>2 DEF Stored

\* What s has stored of a pending write stays stored.
LEMMA StorageDone ==
    ASSUME Typed, Typed', NEW s \in Storage, StorageHandle(s) \/ StorageRestart(s),
           NEW x \in Storage, NEW w \in Pending, NEW v, NEW j \in Nat, Done(x, w, v, j)
    PROVE  Done(x, w, v, j)'
<1>1. w.obj \in Object /\ Still(x, w.obj)
  BY DEF Pending, Done
<1>2. Still(x, w.obj)' /\ node'[x].objects[w.obj] = node[x].objects[w.obj]
  BY <1>1, StorageStill
<1>3. CASE j = w.count
  BY <1>2, <1>3 DEF Done
<1>4. CASE j # w.count
  <2>1. Prefix(x, w.obj, v, j)
    BY <1>4 DEF Done
  <2>2. Prefix(x, w.obj, v, j)'
    BY <1>1, <2>1, StoragePrefix
  <2> QED BY <1>2, <1>4, <2>2 DEF Done
<1> QED BY <1>3, <1>4

\* The chunk on its way to a storage node is stored before it is confirmed,
\* and nothing else gets in between.
LEMMA HandleSending ==
    ASSUME Typed, Typed', NEW s \in Storage, StorageHandle(s), work # Idle, work.kind = "PUT",
           NEW w \in Pending, NEW v \in 1..MaxWrites, NEW j \in 0..MaxChunks, j = work.req.x,
           Sending(s, w, v, j)
    PROVE  Sending(s, w, v, j)'
<1>1. PICK m : HandleFacts(s, m)
  BY StorageHandled
<1>2. PICK o : o = w.obj
  OBVIOUS
<1>3. work' = work /\ o \in Object /\ j \in Nat /\ j + 1 \in Nat
  BY <1>2, StorageOnly, Bounds DEF Pending
<1>4. /\ m = inbox[s][1] /\ 1 \in 1..Len(inbox[s])
      /\ \A i \in 1..Len(inbox'[s]) : i + 1 \in 1..Len(inbox[s]) /\ inbox'[s][i] = inbox[s][i + 1] /\ i + 1 > 1
  BY <1>1 DEF HandleFacts, Shifted
<1>5. ASSUME NEW a, Matches(a) PROVE a.job = "PUT" /\ a.i = j /\ a.id = work.id
  BY <1>5 DEF Matches
<1>6. /\ \A i \in 1..Len(inbox[s]) : Matches(inbox[s][i]) =>
            /\ inbox[s][i].o = o /\ inbox[s][i].final = (j + 1 = w.count)
            /\ inbox[s][i].data = << <<v, j>> >>
            /\ j > 0 => Prefix(s, o, v, j)
            /\ \A l \in 1..Len(inbox[s]) : l > i => ~About(inbox[s][l], o)
      /\ j > 0 => \A i \in 1..Len(inbox[s]) : About(inbox[s][i], o) => Matches(inbox[s][i])
      /\ \A i \in 1..Len(answers[s]) :
            Matches(answers[s][i]) /\ answers[s][i].status = "Success" => Done(s, w, v, j + 1)
      /\ (\E i \in 1..Len(work.left) : work.left[i] = s) \/ (work.ok => Done(s, w, v, j + 1))
  BY <1>2 DEF Sending
<1>7. ASSUME NEW i \in 1..Len(inbox'[s]), Matches(inbox'[s][i]), j > 0 PROVE Prefix(s, o, v, j)'
  <2>1. Matches(inbox[s][i + 1]) /\ i + 1 \in 1..Len(inbox[s]) /\ i + 1 > 1
    BY <1>4, <1>7
  <2>2. Prefix(s, o, v, j) /\ About(inbox[s][i + 1], o)
    BY <1>5, <1>6, <1>7, <2>1 DEF About
  <2>3. ~About(m, o)
    BY <1>4, <1>6, <1>7, <2>1, <2>2
  <2>4. SameObject(node'[s], node[s], o)
    BY <1>1, <1>3, <2>3 DEF HandleFacts
  <2> QED BY <2>2, <2>4 DEF SameObject, Prefix
<1>8. ASSUME NEW i \in 1..Len(inbox'[s]), Matches(inbox'[s][i])
      PROVE  /\ inbox'[s][i].o = o /\ inbox'[s][i].final = (j + 1 = w.count)
             /\ inbox'[s][i].data = << <<v, j>> >>
             /\ \A l \in 1..Len(inbox'[s]) : l > i => ~About(inbox'[s][l], o)
  <2>1. Matches(inbox[s][i + 1]) /\ i + 1 \in 1..Len(inbox[s]) /\ inbox'[s][i] = inbox[s][i + 1]
    BY <1>4, <1>8
  <2>2. ASSUME NEW l \in 1..Len(inbox'[s]), l > i PROVE ~About(inbox'[s][l], o)
    <3>1. l + 1 > i + 1
      BY <2>2
    <3> QED BY <1>4, <1>6, <2>1, <3>1
  <2> QED BY <1>6, <2>1, <2>2
<1>9. ASSUME j > 0, NEW i \in 1..Len(inbox'[s]), About(inbox'[s][i], o) PROVE Matches(inbox'[s][i])
  BY <1>4, <1>6, <1>9
<1>10. Done(s, w, v, j + 1) => Done(s, w, v, j + 1)'
  BY <1>3, StorageDone
<1>11. ASSUME NEW i \in 1..Len(answers'[s]), Matches(answers'[s][i]), answers'[s][i].status = "Success"
       PROVE  Done(s, w, v, j + 1)'
  <2>1. CASE i \in 1..Len(answers[s]) /\ answers'[s][i] = answers[s][i]
    BY <1>6, <1>10, <1>11, <2>1
  <2>2. CASE LET a == answers'[s][i] IN
             /\ a.id = m.id /\ a.job = m.job /\ a.i = m.i
             /\ \E out \in Outcomes(s, m) : node'[s] = out.node /\ a.status = out.status
    <3>1. PICK out \in Outcomes(s, m) : node'[s] = out.node /\ out.status = "Success"
      BY <1>11, <2>2
    <3>2. Matches(m)
      BY <1>11, <2>2 DEF Matches
    <3>3. /\ m.job = "PUT" /\ m.i = j /\ m.o = o /\ m.final = (j + 1 = w.count) /\ m.data = << <<v, j>> >>
          /\ j > 0 => Prefix(s, o, v, j)
          /\ \A l \in 1..Len(inbox[s]) : l > 1 => ~About(inbox[s][l], o)
      BY <1>4, <1>5, <1>6, <3>2
    <3>0. PICK n : n = node[s]
      OBVIOUS
    <3>4. PICK final \in BOOLEAN : final = (j + 1 = w.count)
      OBVIOUS
    <3>5. out \in write_chunk(n, o, j, final, <<v, j>>)
      BY <3>0, <3>1, <3>3, <3>4 DEF Outcomes
    <3>6. n \in Node /\ (j > 0 => (n.next_chunks[o] = j => n.tmp[o] = Stream(v, j)))
      BY <3>0, <3>3 DEF Typed, StorageTyped, Prefix
    <3>7. IF final THEN out.node.objects[o] = Stream(v, j + 1) ELSE out.node.tmp[o] = Stream(v, j + 1)
      BY <1>3, <3>1, <3>5, <3>6, PutSucceeds
    <3>8. Still(s, o)'
      BY <1>4, <3>3 DEF Still
    <3> QED BY <1>2, <3>1, <3>4, <3>7, <3>8 DEF Done, Prefix
  <2> QED BY <1>1, <1>11, <2>1, <2>2 DEF HandleFacts
<1>12. /\ \A i \in 1..Len(inbox'[s]) : Matches(inbox'[s][i]) =>
             /\ inbox'[s][i].o = o /\ inbox'[s][i].final = (j + 1 = w.count)
             /\ inbox'[s][i].data = << <<v, j>> >>
             /\ j > 0 => Prefix(s, o, v, j)'
             /\ \A l \in 1..Len(inbox'[s]) : l > i => ~About(inbox'[s][l], o)
       /\ j > 0 => \A i \in 1..Len(inbox'[s]) : About(inbox'[s][i], o) => Matches(inbox'[s][i])
       /\ \A i \in 1..Len(answers'[s]) :
             Matches(answers'[s][i]) /\ answers'[s][i].status = "Success" => Done(s, w, v, j + 1)'
       /\ (\E i \in 1..Len(work.left) : work.left[i] = s) \/ (work.ok => Done(s, w, v, j + 1)')
  BY <1>6, <1>7, <1>8, <1>9, <1>10, <1>11
<1> QED BY <1>2, <1>3, <1>12 DEF Sending, Matches

\* A restart loses requests, and with them the state of the write, but no
\* file of the node.
LEMMA RestartSending ==
    ASSUME Typed, Typed', NEW s \in Storage, StorageRestart(s),
           NEW w \in Pending, NEW v, NEW j \in Nat, Sending(s, w, v, j)
    PROVE  Sending(s, w, v, j)'
<1>1. PICK k \in Nat : RestartFacts(s, k)
  BY StorageRestarted
<1>2. work' = work /\ answers' = answers /\ w.obj \in Object /\ j + 1 \in Nat
  BY StorageOnly, StorageRestarted DEF Pending
<1>3. Prefix(s, w.obj, v, j)'
  BY <1>1, <1>2, ValuesAssumption DEF Prefix, RestartFacts
<1>4. /\ \A i \in 1..Len(inbox'[s]) : i + k \in 1..Len(inbox[s]) /\ inbox'[s][i] = inbox[s][i + k]
      /\ \A i, l \in 1..Len(inbox'[s]) : l > i => l + k > i + k
  BY <1>1 DEF RestartFacts, Shifted
<1>5. Done(s, w, v, j + 1) => Done(s, w, v, j + 1)'
  BY <1>2, StorageDone
<1>6. ASSUME NEW i \in 1..Len(inbox'[s]), Matches(inbox'[s][i])
      PROVE  /\ inbox'[s][i].o = w.obj /\ inbox'[s][i].final = (j + 1 = w.count)
             /\ inbox'[s][i].data = << <<v, j>> >>
             /\ \A l \in 1..Len(inbox'[s]) : l > i => ~About(inbox'[s][l], w.obj)
  BY <1>4, <1>6 DEF Sending
<1>7. ASSUME j > 0, NEW i \in 1..Len(inbox'[s]), About(inbox'[s][i], w.obj) PROVE Matches(inbox'[s][i])
  BY <1>4, <1>7 DEF Sending
<1>8. /\ \A i \in 1..Len(answers[s]) :
            Matches(answers[s][i]) /\ answers[s][i].status = "Success" => Done(s, w, v, j + 1)'
      /\ (\E i \in 1..Len(work.left) : work.left[i] = s) \/ (work.ok => Done(s, w, v, j + 1)')
  BY <1>5 DEF Sending
<1> QED BY <1>2, <1>3, <1>6, <1>7, <1>8 DEF Sending, Matches

\* What the process in Client relies on, while storage nodes come and go.
LEMMA StorageSend ==
    ASSUME Typed, Typed', KindInv, NEW c, SendInv(c), NEW s \in Storage, StorageHandle(s) \/ StorageRestart(s)
    PROVE  SendInv(c)'
<1>1. UNCHANGED <<client, work, pending_writes>>
  BY StorageOnly DEF clientVars, tables
<1>2. SUFFICES ASSUME work # Idle, work.kind = "PUT", client[c].req = work.req
               PROVE  LET w == pending_writes[key(work.req)] IN
                      \A i \in 1..2 : Sending(w.replicas[i], w, work.req.v, work.req.x)'
  BY <1>1 DEF SendInv
<1>3. PICK k, w, v, j : k = key(work.req) /\ w = pending_writes[k] /\ v = work.req.v /\ j = work.req.x
  OBVIOUS
<1>4. /\ w \in Pending /\ w.replicas[1] \in Storage /\ w.replicas[2] \in Storage
      /\ v \in 1..MaxWrites /\ j \in 0..MaxChunks /\ j \in Nat
  <2>1. k \in DOMAIN pending_writes
    BY <1>2, <1>3 DEF Typed, WaitInv, Awaited
  <2>2. w \in Pending
    BY <1>3, <2>1 DEF Typed, TableTyped
  <2>3. w.replicas \in Pair
    BY <2>2 DEF Pending
  <2>4. work.req \in Req /\ work.req.job = "WRITE_CHUNK"
    BY <1>2, WorkFacts DEF Typed, KindInv
  <2> QED BY <1>3, <2>2, <2>3, <2>4, PairFacts, ReqFacts, Bounds DEF WriteJobs
<1>5. ASSUME NEW i \in 1..2 PROVE Sending(w.replicas[i], w, v, j)'
  <2>1. PICK x : x = w.replicas[i]
    OBVIOUS
  <2>2. Sending(x, w, v, j) /\ x \in Storage
    BY <1>2, <1>3, <1>4, <2>1 DEF SendInv
  <2>3. CASE x = s
    <3>1. Sending(x, w, v, j)'
      BY <1>2, <1>3, <1>4, <2>2, <2>3, HandleSending, RestartSending
    <3> QED BY <2>1, <3>1
  <2>4. CASE x # s
    <3>1. inbox'[x] = inbox[x] /\ node'[x] = node[x] /\ answers'[x] = answers[x]
      BY <2>2, <2>4, StorageHandled, StorageRestarted
    <3>2. Sending(x, w, v, j)'
      BY <1>1, <2>2, <3>1 DEF Sending, Done, Still, Prefix, Matches
    <3> QED BY <2>1, <3>2
  <2> QED BY <2>3, <2>4
<1> QED BY <1>1, <1>3, <1>5

\* Both replicas keep the chunks they have acknowledged, or refuse the next.
LEMMA StorageReady ==
    ASSUME Typed, Typed', NEW c, ReadyInv(c), NEW s \in Storage, StorageHandle(s) \/ StorageRestart(s)
    PROVE  ReadyInv(c)'
<1>1. UNCHANGED <<client, work, pending_writes>>
  BY StorageOnly DEF clientVars, tables
<1>2. PICK k, w, v : k = key(client[c].req) /\ w = pending_writes[k] /\ v = client[c].req.v
  OBVIOUS
<1>3. ASSUME Writing(c), work = Idle, w.next > 0, NEW i \in 1..2
      PROVE  Still(w.replicas[i], w.obj)' /\ Prefix(w.replicas[i], w.obj, v, w.next)'
  <2>1. w \in Pending /\ w.obj \in Object /\ w.next \in Nat /\ w.replicas[i] \in Storage
    <3>1. w \in Pending
      BY <1>2, <1>3, PendingFacts DEF Typed, Writing
    <3> QED BY <1>3, <3>1, PairFacts, Bounds DEF Pending
  <2>2. PICK x, o, n : x = w.replicas[i] /\ o = w.obj /\ n = w.next
    OBVIOUS
  <2>3. Still(x, o) /\ Prefix(x, o, v, n)
    BY <1>2, <1>3, <2>2 DEF ReadyInv
  <2>4. Still(x, o)' /\ Prefix(x, o, v, n)'
    BY <2>1, <2>2, <2>3, StorageStill, StoragePrefix
  <2> QED BY <2>2, <2>4
<1> QED BY <1>1, <1>2, <1>3 DEF ReadyInv, Writing

\* An answer is of a request that was under way.
LEMMA StoragePut ==
    ASSUME Typed, Typed', NEW c, PutInv(c), NEW s \in Storage, StorageHandle(s) \/ StorageRestart(s)
    PROVE  PutInv(c)'
<1>1. UNCHANGED <<client, jobs>>
  BY StorageOnly DEF clientVars
<1>2. \A x \in Storage : x # s => inbox'[x] = inbox[x] /\ answers'[x] = answers[x]
  BY StorageHandled, StorageRestarted
<1>3. \E k \in Nat : Shifted(s, k)
  <2>1. CASE StorageHandle(s)
    BY <2>1, StorageHandled DEF HandleFacts
  <2>2. CASE StorageRestart(s)
    BY <2>2, StorageRestarted DEF RestartFacts
  <2> QED BY <2>1, <2>2
<1>4. ASSUME NEW x \in Storage, NEW i \in 1..Len(inbox'[x]) PROVE PutSeen(c, inbox'[x][i])
  <2>1. \E j \in 1..Len(inbox[x]) : inbox'[x][i] = inbox[x][j]
    BY <1>2, <1>3, <1>4 DEF Shifted
  <2> QED BY <2>1 DEF PutInv
<1>5. ASSUME NEW x \in Storage, NEW i \in 1..Len(answers'[x]) PROVE PutSeen(c, answers'[x][i])
  <2>1. CASE \E j \in 1..Len(answers[x]) : answers'[x][i] = answers[x][j]
    BY <2>1 DEF PutInv
  <2>2. CASE x = s /\ StorageHandle(s)
    <3>1. PICK m : HandleFacts(s, m)
      BY <2>2, StorageHandled
    <3>2. PutSeen(c, m)
      BY <3>1 DEF HandleFacts, PutInv
    <3>3. \/ \E j \in 1..Len(answers[x]) : answers'[x][i] = answers[x][j]
          \/ answers'[x][i].id = m.id /\ answers'[x][i].job = m.job /\ answers'[x][i].i = m.i
      BY <1>5, <2>2, <3>1 DEF HandleFacts
    <3> QED BY <2>1, <3>2, <3>3 DEF PutSeen
  <2>3. CASE x # s
    BY <1>2, <1>5, <2>1, <2>3
  <2>4. CASE StorageRestart(s)
    BY <1>5, <2>1, <2>4, StorageRestarted
  <2> QED BY <2>2, <2>3, <2>4
<1> QED BY <1>1, <1>4, <1>5 DEF PutInv, PutSeen

\* What a response says remains so.
LEMMA StorageMeans ==
    ASSUME Typed, Typed', NEW c \in Client, NEW s \in Storage, StorageHandle(s) \/ StorageRestart(s),
           client[c].req # NoReq, Means(c)
    PROVE  Means(c)'
<1>1. client' = client
  BY StorageOnly DEF clientVars
<1>2. PICK C, r : C = client[c] /\ r = C.req
  OBVIOUS
<1>3. r \in Req /\ r.v \in Nat /\ C.n \in Nat /\ (C.snap # None => C.snap \in Nat \X Nat)
  BY <1>2, AckTypes, ReqFacts, ClientFacts, Bounds DEF Typed, Version
<1>4. <<r.v, 0>> \in Nat \X Nat /\ <<r.v, C.n>> \in Nat \X Nat
  BY <1>3
<1>5. /\ r.job = "WRITE_FILE" /\ C.n = 0 => Stored(r.p, <<r.v, 0>>)
      /\ r.job = "WRITE_CHUNK" /\ r.x + 1 = C.n => Stored(r.p, <<r.v, C.n>>)
      /\ r.job = "RENAME" /\ C.snap # None => Stored(r.q, C.snap)
  BY <1>2 DEF Means
<1>6. PICK p, q, v0, v1, v2 : /\ p = r.p /\ q = r.q
                              /\ v0 = <<r.v, 0>> /\ v1 = <<r.v, C.n>> /\ v2 = C.snap
  OBVIOUS
<1>7. /\ Stored(p, v0) => Stored(p, v0)'
      /\ Stored(p, v1) => Stored(p, v1)'
      /\ v2 # None /\ Stored(q, v2) => Stored(q, v2)'
  BY <1>3, <1>4, <1>6, StorageStored
<1> QED BY <1>1, <1>2, <1>5, <1>6, <1>7 DEF Means

\* What the process in Client relies on, when a storage node takes a step.
LEMMA StorageAck ==
    ASSUME Typed, Typed', KindInv, NEW c \in Client, AckInv(c), NEW s \in Storage,
           StorageHandle(s) \/ StorageRestart(s)
    PROVE  AckInv(c)'
<1>1. UNCHANGED <<client, replies, jobs, work, pending_writes, pending_reads, settled, contested>>
  BY StorageOnly DEF clientVars, tables, history
<1>2. QueueInv(c)' /\ EntryInv(c)' /\ ChangeInv(c)'
  BY <1>1 DEF AckInv, QueueInv, EntryInv, ChangeInv, Active
<1>3. SafeInv'
  <2>1. ASSUME NEW p \in Path, settled[p] # None PROVE Stored(p, settled[p])'
    <3>1. PICK v : v = settled[p]
      OBVIOUS
    <3>2. v \in Nat \X Nat /\ Stored(p, v)
      BY <2>1, <3>1, Bounds DEF Typed, HistoryTyped, Version, AckInv, SafeInv
    <3>3. Stored(p, v)'
      BY <3>2, StorageStored
    <3> QED BY <1>1, <3>1, <3>3
  <2> QED BY <1>1, <2>1 DEF SafeInv
<1>4. ReplyInv(c)'
  <2>1. Typed /\ \A m \in replies[c] :
          client[c].req # NoReq /\ m.id = client[c].id /\ m.status = "Success" => Means(c)
    BY DEF AckInv, ReplyInv
  <2> QED BY <1>1, <2>1, StorageMeans DEF ReplyInv
<1>5. RenameInv(c)'
  <2>1. PICK C, p, v : C = client[c] /\ p = C.req.p /\ v = C.snap
    OBVIOUS
  <2>2. ASSUME C.req # NoReq, C.req.job = "RENAME", v # None, \E i \in 1..Len(jobs) : jobs[i].id = C.id
        PROVE  /\ Stored(p, v)'
               /\ \A r \in Active(c) : r.id # C.id /\ r.job \in Changing => p \notin {r.p, r.q}
    <3>1. /\ Stored(p, v)
          /\ \A r \in Active(c) : r.id # C.id /\ r.job \in Changing => p \notin {r.p, r.q}
      BY <2>1, <2>2 DEF AckInv, RenameInv
    <3>2. v \in Nat \X Nat
      BY <2>1, <2>2, ClientFacts, Bounds DEF Typed, Version
    <3> QED BY <3>1, <3>2, StorageStored
  <2>3. Active(c)' = Active(c)
    BY <1>1 DEF Active
  <2> QED BY <1>1, <2>1, <2>2, <2>3 DEF RenameInv
<1> QED BY <1>2, <1>3, <1>4, <1>5, StoragePut, StorageReady, StorageSend DEF AckInv

-----------------------------------------------------------------------------
(* Acknowledged writes: chunks on their way *)

\* A chunk is sent to both replicas of its entry.
LEMMA PutStarts ==
    ASSUME Typed, HandleWriteChunk, work' # Idle, NEW req, req = Head(jobs),
           NEW w, w = pending_writes[key(req)]
    PROVE  /\ req \in Req /\ req.job = "WRITE_CHUNK" /\ work = Idle /\ Serving(req)
           /\ key(req) \in DOMAIN pending_writes /\ w \in Pending /\ req.x = w.next
           /\ work' = [kind |-> "PUT", req |-> req, id |-> req.id, left |-> w.replicas, ok |-> TRUE]
           /\ \E m : /\ m.id = req.id /\ m.job = "PUT" /\ m.o = w.obj /\ m.i = req.x
                     /\ m.final = (req.x + 1 = w.count) /\ m.data = << <<req.v, req.x>> >>
                     /\ \A s \in Storage : s \in {w.replicas[1], w.replicas[2]} =>
                                               inbox'[s] = Append(inbox[s], m)
           /\ UNCHANGED <<client, pending_writes, answers, node, replies>>
<1>1. /\ Serving(req) /\ work = Idle /\ req.job = "WRITE_CHUNK" /\ req \in Req
      /\ UNCHANGED <<client, answers, node>>
  BY TakenServed, TakingTyped DEF HandleWriteChunk, Taking
<1>2. PICK final, data : final = (req.x + 1 = w.count) /\ data = << <<req.v, req.x>> >>
  OBVIOUS
<1>3. PICK m : m = StorageRequest(req.id, "PUT", w.obj, req.x, final, data)
  OBVIOUS
<1>4. /\ key(req) \in DOMAIN pending_writes /\ req.x = w.next
      /\ SendBoth(w.replicas, m) /\ Wait("PUT", req, req.id, w.replicas)
      /\ UNCHANGED <<pending_writes, replies>>
  BY <1>1, <1>2, <1>3 DEF HandleWriteChunk
<1>5. w \in Pending
  BY <1>4, PendingFacts DEF Typed
<1>6. /\ m.id = req.id /\ m.job = "PUT" /\ m.o = w.obj /\ m.i = req.x
      /\ m.final = final /\ m.data = data
  BY <1>3 DEF StorageRequest
<1>7. \A s \in Storage : s \in {w.replicas[1], w.replicas[2]} => inbox'[s] = Append(inbox[s], m)
  BY <1>4 DEF SendBoth
<1>8. work' = [kind |-> "PUT", req |-> req, id |-> req.id, left |-> w.replicas, ok |-> TRUE]
  BY <1>4 DEF Wait
<1> QED BY <1>1, <1>2, <1>4, <1>5, <1>6, <1>7, <1>8

\* When a chunk is sent, nothing else is on its way to its object.
LEMMA StartSend ==
    ASSUME Typed, Typed', NEW c \in Client, Client = {c}, AckInv(c), HandleWriteChunk, work' # Idle
    PROVE  SendInv(c)'
<1>1. PICK req, w, x, v : req = Head(jobs) /\ w = pending_writes[key(req)] /\ x = req.x /\ v = req.v
  OBVIOUS
<1>2. /\ req \in Req /\ req.job = "WRITE_CHUNK" /\ work = Idle /\ Serving(req)
      /\ key(req) \in DOMAIN pending_writes /\ w \in Pending /\ req.x = w.next
      /\ work' = [kind |-> "PUT", req |-> req, id |-> req.id, left |-> w.replicas, ok |-> TRUE]
      /\ UNCHANGED <<client, pending_writes, answers, node, replies>>
  BY <1>1, PutStarts
<1>3. PICK m : /\ m.id = req.id /\ m.job = "PUT" /\ m.o = w.obj /\ m.i = x
               /\ m.final = (x + 1 = w.count) /\ m.data = << <<v, x>> >>
               /\ \A s \in Storage : s \in {w.replicas[1], w.replicas[2]} =>
                                         inbox'[s] = Append(inbox[s], m)
  BY <1>1, PutStarts
<1>4. work'.req = req /\ work'.id = req.id /\ work'.kind = "PUT" /\ work'.left = w.replicas
  BY <1>2
<1>5. /\ w.replicas \in Pair /\ w.obj \in Object /\ Len(w.replicas) = 2
      /\ w.replicas[1] \in Storage /\ w.replicas[2] \in Storage
  BY <1>2, PairFacts DEF Pending
<1>6. x \in Nat /\ req.id \in Nat
  BY <1>1, <1>2, ReqFacts, Bounds
<1>7. ASSUME client[c].req = req, NEW s, s \in {w.replicas[1], w.replicas[2]} PROVE Sending(s, w, v, x)'
  <2>0. s \in Storage /\ \E i \in 1..Len(work'.left) : work'.left[i] = s
    BY <1>4, <1>5, <1>7
  <2>1. req # NoReq /\ client[c].req.id = client[c].id /\ \E j \in 1..Len(jobs) : jobs[j].id = client[c].id
    <3>1. req # NoReq /\ client[c].req.id = client[c].id
      BY <1>2, <1>7, ReqFacts DEF AckInv, QueueInv
    <3>2. \E j \in 1..Len(jobs) : jobs[j] = req
      BY <1>2, ServedFirst DEF AckInv
    <3> QED BY <1>7, <3>1, <3>2
  <2>2. ASSUME NEW a, PutSeen(c, a), a.id = req.id, a.job = "PUT", a.i = x PROVE FALSE
    BY <1>1, <1>7, <2>1, <2>2 DEF PutSeen
  <2>3. x > 0 => Still(s, w.obj) /\ Prefix(s, w.obj, v, x)
    BY <1>1, <1>2, <1>7, <2>1 DEF AckInv, ReadyInv, Writing, WriteJobs
  <2>4. inbox[s] \in Seq(StorageRequests) /\ inbox'[s] = Append(inbox[s], m)
    BY <1>3, <1>7, <2>0 DEF Typed, StorageTyped
  <2>5. PICK n \in Nat : n = Len(inbox[s])
    BY <2>4, LenProperties
  <2>6. Len(inbox'[s]) = n + 1 /\ inbox'[s][n + 1] = m /\ \A i \in 1..n : inbox'[s][i] = inbox[s][i]
    BY <2>4, <2>5, AppendProperties
  <2>7. \A i \in 1..Len(inbox[s]) : PutSeen(c, inbox[s][i])
    BY <2>0 DEF AckInv, PutInv
  <2>8. \A i \in 1..Len(answers[s]) : PutSeen(c, answers[s][i])
    BY <2>0 DEF AckInv, PutInv
  <2>9. \A i \in 1..Len(inbox'[s]) : i \in 1..n \/ i = n + 1
    BY <2>6
  <2>10. ASSUME NEW i \in 1..Len(inbox'[s]),
                inbox'[s][i].id = req.id /\ inbox'[s][i].job = "PUT" /\ inbox'[s][i].i = x
         PROVE  /\ inbox'[s][i].o = w.obj /\ inbox'[s][i].final = (x + 1 = w.count)
                /\ inbox'[s][i].data = << <<v, x>> >>
                /\ \A j \in 1..Len(inbox'[s]) : ~(j > i)
    <3>1. i = n + 1
      BY <2>2, <2>5, <2>6, <2>7, <2>9, <2>10
    <3>2. \A j \in 1..Len(inbox'[s]) : ~(j > i)
      BY <2>6, <3>1
    <3> QED BY <1>3, <2>6, <3>1, <3>2
  <2>11. ASSUME x > 0, NEW i \in 1..Len(inbox'[s]), About(inbox'[s][i], w.obj)
         PROVE  inbox'[s][i].id = req.id /\ inbox'[s][i].job = "PUT" /\ inbox'[s][i].i = x
    <3>1. i = n + 1
      BY <2>3, <2>5, <2>6, <2>9, <2>11 DEF Still
    <3> QED BY <1>3, <2>6, <3>1
  <2>12. ASSUME NEW i \in 1..Len(answers'[s]),
                answers'[s][i].id = req.id /\ answers'[s][i].job = "PUT" /\ answers'[s][i].i = x
         PROVE  FALSE
    BY <1>2, <2>2, <2>8, <2>12
  <2>13. x > 0 => Prefix(s, w.obj, v, x)'
    BY <1>2, <2>3 DEF Prefix
  <2> QED BY <1>1, <1>4, <2>0, <2>10, <2>11, <2>12, <2>13 DEF Sending, Matches
<1>8. client[c].req = req => \A i \in 1..2 : Sending(w.replicas[i], w, v, x)'
  BY <1>7
<1> QED BY <1>1, <1>2, <1>4, <1>8 DEF SendInv

\* A replica that has answered so far has stored the chunk, if all goes well.
Confirmed(c, rest, ok) ==
    client[c].req = work.req /\ AllOk(ok) =>
        LET w == pending_writes[key(work.req)] IN
        \A i \in 1..2 : \/ \E j \in 1..Len(rest) : rest[j] = w.replicas[i]
                        \/ Done(w.replicas[i], w, work.req.v, work.req.x + 1)

\* A replica has answered, or is waited for no longer: those that confirmed
\* have stored the chunk.
LEMMA PutAnswered ==
    ASSUME Typed, NEW c, SendInv(c), WorkerReceive \/ WorkerTimeout, work.kind = "PUT"
    PROVE  /\ work # Idle /\ UNCHANGED <<client, jobs, node, restarts, history>> /\ AnswersStep
           /\ \E ok \in BOOLEAN : \E data : Proceed(ok, data) /\ Confirmed(c, StillLeft(ok), ok)
<1>1. PICK s : s = Head(work.left)
  OBVIOUS
<1>2. work # Idle /\ UNCHANGED <<client, jobs, node, restarts, history>>
  BY DEF WorkerReceive, WorkerTimeout
<1>3. /\ work.left \in Seq(Storage) /\ work.left # << >> /\ s \in Storage /\ s = work.left[1]
      /\ work.ok \in BOOLEAN
  BY <1>1, <1>2, WorkFacts, HeadTailProperties DEF Typed
<1>4. PICK n \in Nat : n = Len(work.left)
  BY <1>3, LenProperties
<1>5. ASSUME NEW ok, work.ok /\ ok /\ client[c].req = work.req =>
                LET w == pending_writes[key(work.req)] IN
                \A i \in 1..2 : w.replicas[i] = s => Done(s, w, work.req.v, work.req.x + 1)
      PROVE  Confirmed(c, StillLeft(ok), ok)
  <2>1. SUFFICES ASSUME client[c].req = work.req, work.ok, ok,
                        NEW w, w = pending_writes[key(work.req)], NEW i \in 1..2, NEW x, x = w.replicas[i]
                 PROVE  \/ \E j \in 1..Len(Tail(work.left)) : Tail(work.left)[j] = x
                        \/ Done(x, w, work.req.v, work.req.x + 1)
    BY DEF Confirmed, StillLeft, AllOk
  <2>2. CASE x = s
    BY <1>5, <2>1, <2>2
  <2>3. CASE x # s /\ \E j \in 1..Len(work.left) : work.left[j] = x
    <3>1. PICK j \in 1..n : work.left[j] = x
      BY <1>4, <2>3
    <3>2. j # 1 /\ n # 0
      BY <1>3, <2>3, <3>1
    <3>3. Len(Tail(work.left)) = n - 1 /\ \A h \in 1..(n - 1) : Tail(work.left)[h] = work.left[h + 1]
      BY <1>3, <1>4, HeadTailProperties
    <3>4. j - 1 \in 1..(n - 1) /\ j - 1 + 1 = j
      BY <3>2
    <3> QED BY <3>1, <3>3, <3>4
  <2>4. CASE Done(x, w, work.req.v, work.req.x + 1)
    BY <2>4
  <2>5. Sending(x, w, work.req.v, work.req.x)
    BY <1>2, <2>1 DEF SendInv
  <2> QED BY <2>1, <2>2, <2>3, <2>4, <2>5 DEF Sending
<1>6. CASE WorkerReceive
  <2>1. PICK i \in 1..Len(answers[s]) :
          /\ Matches(answers[s][i])
          /\ answers' = [answers EXCEPT ![s] = Erased(answers[s], i)]
          /\ LET a == answers[s][i] IN
             Proceed(a.status = "Success" /\ (a.job = "GET" => a.data # << >>), a.data)
    BY <1>1, <1>6 DEF WorkerReceive
  <2>2. PICK ok \in BOOLEAN : LET a == answers[s][i] IN ok = (a.status = "Success" /\ (a.job = "GET" => a.data # << >>))
    OBVIOUS
  <2>3. PICK data : data = answers[s][i].data
    OBVIOUS
  <2>4. Proceed(ok, data)
    BY <2>1, <2>2, <2>3
  <2>5. ASSUME ok, client[c].req = work.req, NEW w, w = pending_writes[key(work.req)],
               NEW h \in 1..2, w.replicas[h] = s
        PROVE  Done(s, w, work.req.v, work.req.x + 1)
    <3>1. Sending(s, w, work.req.v, work.req.x)
      BY <1>2, <2>5 DEF SendInv
    <3>2. answers[s][i].status = "Success"
      BY <2>2, <2>5
    <3> QED BY <2>1, <3>1, <3>2 DEF Sending
  <2>6. Confirmed(c, StillLeft(ok), ok)
    BY <1>5, <2>5
  <2>7. AnswersStep
    BY <1>6, AnswerTaken
  <2> QED BY <1>2, <2>4, <2>6, <2>7
<1>7. CASE WorkerTimeout
  <2>1. PICK ok \in BOOLEAN : ok = FALSE
    OBVIOUS
  <2>2. PICK data : data = << >>
    OBVIOUS
  <2>3. Proceed(ok, data) /\ answers' = answers
    BY <1>7, <2>1, <2>2 DEF WorkerTimeout
  <2>4. Confirmed(c, StillLeft(ok), ok)
    BY <1>5, <2>1
  <2> QED BY <1>2, <2>3, <2>4, NothingChanges
<1> QED BY <1>6, <1>7

\* The wait for the other replica goes on.
LEMMA NextSend ==
    ASSUME Typed, Typed', NEW c, SendInv(c), WorkerReceive \/ WorkerTimeout, work.kind = "PUT", work' # Idle
    PROVE  SendInv(c)'
<1>1. work # Idle /\ UNCHANGED <<client, node>> /\ AnswersStep
  BY PutAnswered
<1>0. PICK ok \in BOOLEAN : (\E data : Proceed(ok, data)) /\ Confirmed(c, StillLeft(ok), ok)
  BY PutAnswered
<1>2. PICK rest : rest = StillLeft(ok)
  OBVIOUS
<1>3. work' = [work EXCEPT !.left = rest, !.ok = AllOk(ok)] /\ UNCHANGED <<pending_writes, inbox>>
  BY <1>0, <1>2 DEF Proceed, tables
<1>4. /\ work'.kind = "PUT" /\ work'.req = work.req /\ work'.id = work.id
      /\ work'.left = rest /\ work'.ok = AllOk(ok)
  BY <1>1, <1>3, WorkFacts DEF Typed, Work
<1>5. PICK w, v, x : w = pending_writes[key(work.req)] /\ v = work.req.v /\ x = work.req.x
  OBVIOUS
<1>6. ASSUME client[c].req = work.req, NEW i \in 1..2, NEW s, s = w.replicas[i], s \in Storage
      PROVE  Sending(s, w, v, x)'
  <2>1. Sending(s, w, v, x)
    BY <1>1, <1>5, <1>6 DEF SendInv
  <2>2. (\E j \in 1..Len(rest) : rest[j] = s) \/ (AllOk(ok) => Done(s, w, v, x + 1))
    BY <1>0, <1>2, <1>5, <1>6 DEF Confirmed
  <2>3. \A j \in 1..Len(answers'[s]) : \E h \in 1..Len(answers[s]) : answers'[s][j] = answers[s][h]
    BY <1>1, <1>6 DEF AnswersStep
  <2>4. \A j \in 1..Len(answers'[s]) : answers'[s][j].status = "Success" /\ Matches(answers'[s][j])
           => Done(s, w, v, x + 1)
    BY <2>1, <2>3 DEF Sending
  <2>5. Done(s, w, v, x + 1)' <=> Done(s, w, v, x + 1)
    BY <1>1, <1>3 DEF Done, Still, Prefix
  <2> QED BY <1>1, <1>3, <1>4, <2>1, <2>2, <2>4, <2>5 DEF Sending, Matches, Prefix
<1>7. /\ work.id = work.req.id
      /\ client[c].req = work.req => \A i \in 1..2 : Sending(w.replicas[i], w, v, x)'
  <2>1. w.replicas[1] \in Storage /\ w.replicas[2] \in Storage
    <3>1. key(work.req) \in DOMAIN pending_writes
      BY <1>1 DEF Typed, WaitInv, Awaited
    <3>2. w \in Pending
      BY <1>5, <3>1, PendingFacts DEF Typed
    <3> QED BY <3>2, PairFacts DEF Pending
  <2>2. work.id = work.req.id
    BY <1>1 DEF SendInv
  <2>3. \A i \in 1..2 : w.replicas[i] \in Storage
    BY <2>1
  <2> QED BY <1>6, <2>2, <2>3
<1> QED BY <1>1, <1>3, <1>4, <1>5, <1>7 DEF SendInv

\* The last replica has answered.
LEMMA PutEnds ==
    ASSUME Typed, NEW c, SendInv(c), WorkerReceive \/ WorkerTimeout, work.kind = "PUT", work' = Idle,
           NEW w, w = pending_writes[key(work.req)]
    PROVE  \E ok : /\ FinishPut(ok)
                   /\ client[c].req = work.req /\ ok =>
                         \A i \in 1..2 : Done(w.replicas[i], w, work.req.v, work.req.x + 1)
<1>1. work # Idle
  BY PutAnswered
<1>2. PICK ok \in BOOLEAN : (\E data : Proceed(ok, data)) /\ Confirmed(c, StillLeft(ok), ok)
  BY PutAnswered
<1>3. PICK rest : rest = StillLeft(ok)
  OBVIOUS
<1>4. work' # [work EXCEPT !.left = rest, !.ok = AllOk(ok)]
  <2>1. DOMAIN [work EXCEPT !.left = rest, !.ok = AllOk(ok)] = {"kind", "req", "id", "left", "ok"}
    BY <1>1, WorkFacts DEF Typed, Work
  <2>2. DOMAIN Idle = {"kind"}
    BY DEF Idle
  <2> QED BY <2>1, <2>2
<1>5. FinishPut(AllOk(ok)) /\ rest = << >>
  BY <1>2, <1>3, <1>4 DEF Proceed
<1>6. client[c].req = work.req /\ AllOk(ok) =>
         \A i \in 1..2 : Done(w.replicas[i], w, work.req.v, work.req.x + 1)
  BY <1>2, <1>3, <1>5 DEF Confirmed
<1> QED BY <1>5, <1>6

\* What the chunk under way relies on, at every step of the worker.
LEMMA WorkSend ==
    ASSUME Typed, Typed', KindInv, KindInv', NEW c \in Client, Client = {c}, AckInv(c),
           WorkerHandle \/ WorkerReceive \/ WorkerTimeout, NEW req, WorkStep(req)
    PROVE  SendInv(c)'
<1>1. CASE work' = Idle \/ work'.kind # "PUT"
  BY <1>1 DEF SendInv
<1>2. CASE work' # Idle /\ work'.kind = "PUT"
  <2>1. Serving(req) /\ req.job = "WRITE_CHUNK"
    BY <1>2 DEF WorkStep, Replies, Waits, KindInv
  <2>2. CASE WorkerHandle
    <3>1. HandleWriteChunk
      BY <2>1, <2>2 DEF WorkerHandle, Taking, Serving, HandleCreateFile, HandleWriteFile, HandleReadFile,
            HandleReadChunk, HandleRemove, HandleRename, HandleMakeDir, HandleList, HandleStat
    <3> QED BY <1>2, <3>1, StartSend
  <2>3. CASE WorkerReceive \/ WorkerTimeout
    <3>1. work # Idle
      BY <2>3 DEF WorkerReceive, WorkerTimeout
    <3>2. work.kind = "PUT"
      BY <2>1, <3>1 DEF Serving, KindInv
    <3> QED BY <1>2, <2>3, <3>2, NextSend DEF AckInv
  <2> QED BY <2>2, <2>3
<1> QED BY <1>1, <1>2

\* Between two chunks both replicas have what came before.
LEMMA WorkReady ==
    ASSUME Typed, Typed', KindInv, NEW c \in Client, Client = {c}, AckInv(c),
           WorkerHandle \/ WorkerReceive \/ WorkerTimeout, NEW req, WorkStep(req)
    PROVE  ReadyInv(c)'
<1>1. /\ client' = client /\ node' = node /\ Serving(req) /\ WritesStep(req)
      /\ work' = Idle => inbox' = inbox
  BY DEF WorkStep, Replies, Waits
<1>2. PICK R, k, w : R = client[c].req /\ k = key(R) /\ w = pending_writes'[k]
  OBVIOUS
<1>3. SUFFICES ASSUME R # NoReq, R.job \in WriteJobs, k \in DOMAIN pending_writes', work' = Idle, w.next > 0,
                      NEW i \in 1..2, NEW s, s = w.replicas[i]
               PROVE  Still(s, w.obj) /\ Prefix(s, w.obj, R.v, w.next)
  <2>1. ASSUME Writing(c)', work' = Idle, w.next > 0
        PROVE  \A i \in 1..2 : Still(w.replicas[i], w.obj) /\ Prefix(w.replicas[i], w.obj, R.v, w.next)
    BY <1>1, <1>2, <1>3, <2>1 DEF Writing
  <2>2. ASSUME NEW s, NEW o, NEW v, NEW j, work' = Idle, Still(s, o) /\ Prefix(s, o, v, j)
        PROVE  Still(s, o)' /\ Prefix(s, o, v, j)'
    BY <1>1, <2>2 DEF Still, Prefix
  <2> QED BY <1>1, <1>2, <2>1, <2>2 DEF ReadyInv
<1>4. /\ req \in Req /\ req.id \in Nat /\ req.id <= client[c].id
      /\ R.id = req.id => R = req
      /\ R.id = client[c].id /\ R.id \in Nat /\ R \in Req
      /\ work # Idle => work.req = req
  BY <1>1, <1>2, <1>3, ServedFirst, AckTypes DEF AckInv, QueueInv
<1>5. R = req /\ k = key(req)
  <2>1. CASE k = key(req)
    BY <1>2, <1>4, <2>1 DEF key
  <2>2. CASE k # key(req)
    <3>1. k \in DOMAIN pending_writes
      BY <1>1, <1>3, <2>2 DEF WritesStep
    <3>2. k[2] <= req.id /\ k[2] = R.id
      BY <1>1, <1>2, <3>1, EntriesOlder DEF AckInv, key
    <3> QED BY <1>2, <1>4, <3>2
  <2> QED BY <2>1, <2>2
<1>6. PICK u : u = pending_writes[k]
  OBVIOUS
<1>7. /\ k \in DOMAIN pending_writes /\ w.obj = u.obj /\ w.count = u.count /\ w.replicas = u.replicas
      /\ work = Idle => w.next = u.next
  BY <1>1, <1>2, <1>3, <1>5, <1>6 DEF WritesStep
<1>8. CASE work = Idle
  BY <1>2, <1>3, <1>6, <1>7, <1>8 DEF AckInv, ReadyInv, Writing
<1>9. CASE work # Idle
  <2>1. WorkerReceive \/ WorkerTimeout
    BY <1>9 DEF WorkerHandle, Taking, HandleCreateFile, HandleWriteFile, HandleWriteChunk, HandleReadFile,
          HandleReadChunk, HandleRemove, HandleRename, HandleMakeDir, HandleList, HandleStat
  <2>2. work.kind = "PUT" /\ work.req = req
    BY <1>3, <1>4, <1>5, <1>9 DEF KindInv, WriteJobs
  <2>3. PICK ok : /\ FinishPut(ok)
                  /\ client[c].req = work.req /\ ok =>
                        \A j \in 1..2 : Done(u.replicas[j], u, work.req.v, work.req.x + 1)
    BY <1>3, <1>5, <1>6, <2>1, <2>2, PutEnds DEF AckInv
  <2>4. pending_writes' # Drop(pending_writes, k)
    BY <1>3 DEF Drop
  <2>5. ok /\ u.next + 1 # u.count /\ pending_writes' = [pending_writes EXCEPT ![k].next = @ + 1]
    BY <1>5, <1>6, <2>2, <2>3, <2>4 DEF FinishPut
  <2>6. u \in Pending /\ u.next = req.x
    BY <1>5, <1>6, <1>7, <1>9, <2>2, PendingFacts DEF Typed, WaitInv, Awaited
  <2>7. w.next = req.x + 1
    BY <1>2, <1>6, <1>7, <2>5, <2>6 DEF Pending
  <2>8. Done(s, u, R.v, req.x + 1)
    BY <1>2, <1>3, <1>5, <1>7, <2>2, <2>3, <2>5
  <2> QED BY <1>7, <2>5, <2>6, <2>7, <2>8 DEF Done
<1> QED BY <1>8, <1>9

\* A response says what the worker sent.
LEMMA SentStatus ==
    ASSUME Typed, NEW c \in Client, Client = {c}, QueueInv(c), NEW req, Serving(req),
           NEW status, NEW type, NEW n, NEW data, Send(req, status, type, n, data),
           NEW m \in replies'[c], m.id = req.id
    PROVE  m.status = status /\ m.type = type /\ m.n = n /\ m.data = data
<1>1. PICK a : /\ a.status = status /\ a.type = type /\ a.n = n /\ a.data = data
               /\ replies' = [replies EXCEPT ![req.c] = replies[req.c] \cup {a}]
  BY SentResponse
<1>2. req.c = c /\ req.id \in Nat /\ \A l \in replies[c] : l.id < req.id
  BY ServedFirst
<1>3. replies'[c] = replies[c] \cup {a}
  BY <1>1, <1>2 DEF Typed, RepliesTyped
<1> QED BY <1>1, <1>2, <1>3

\* A response of success is neither a refusal nor a failure.
LEMMA RespondStatus ==
    ASSUME Typed, NEW c \in Client, Client = {c}, QueueInv(c), NEW req, Serving(req),
           NEW m \in replies'[c], m.id = req.id, m.status = "Success"
    PROVE  /\ \A status : status # "Success" => ~respond(req, status) /\ ~Refuse(req, status)
           /\ \A f, d : StoreChange(req, f, d) => meta' = f /\ dirs' = d
<1>1. ASSUME NEW status, respond(req, status) PROVE status = "Success"
  <2>1. PICK type, n, data : type = "NONE" /\ n = 0 /\ data = << >>
    OBVIOUS
  <2>2. Send(req, status, type, n, data)
    BY <1>1, <2>1 DEF respond, Reply
  <2> QED BY <2>2, SentStatus
<1>2. ASSUME NEW status, status # "Success" PROVE ~respond(req, status) /\ ~Refuse(req, status)
  BY <1>1, <1>2 DEF Refuse
<1>3. ASSUME NEW f, NEW d, StoreChange(req, f, d) PROVE meta' = f /\ dirs' = d
  BY <1>2, <1>3 DEF StoreChange
<1> QED BY <1>2, <1>3

\* A file of no chunks is stored by WRITE_FILE alone ...
LEMMA EmptyStored ==
    ASSUME Typed, NEW c \in Client, Client = {c}, QueueInv(c), HandleWriteFile, NEW req, req = Head(jobs),
           req.x = 0, NEW m \in replies'[c], m.id = req.id, m.status = "Success", NEW v
    PROVE  Stored(req.p, <<v, 0>>)'
<1>1. Serving(req) /\ req \in Req /\ req.p \in Path
  BY TakenServed, TakingTyped, ReqFacts DEF HandleWriteFile
<1>2. PICK t : t = Target(req.p)
  OBVIOUS
<1>3. Refuse(req, "ServerError") \/ StoreChange(req, Set(meta, req.p, [t EXCEPT !.size = 0]), dirs)
  BY <1>2 DEF HandleWriteFile
<1>4. meta' = Set(meta, req.p, [t EXCEPT !.size = 0])
  <2>1. ~Refuse(req, "ServerError")
    BY <1>1, RespondStatus
  <2> QED BY <1>1, <1>3, <2>1, RespondStatus
<1>5. "size" \in DOMAIN t
  <2>1. DOMAIN NewFile(objects + 1) = {"obj", "size", "replicas"}
    BY DEF NewFile
  <2>2. req.p \in DOMAIN meta => DOMAIN meta[req.p] = {"obj", "size", "replicas"}
    BY MetaFacts DEF Typed, Metadata
  <2> QED BY <1>2, <2>1, <2>2 DEF Target
<1>6. req.p \in DOMAIN meta' /\ meta'[req.p].size = 0
  BY <1>4, <1>5 DEF Set
<1>7. ~(0 > 0)
  OBVIOUS
<1>8. PICK p, x : p = req.p /\ x = <<v, 0>>
  OBVIOUS
<1>9. x[2] = 0
  BY <1>8
<1>10. Stored(p, x)'
  BY <1>6, <1>7, <1>8, <1>9 DEF Stored
<1> QED BY <1>8, <1>10

\* ... any other with its last chunk ...
LEMMA FileStored ==
    ASSUME Typed, KindInv, NEW c \in Client, Client = {c}, AckInv(c), WorkerReceive \/ WorkerTimeout,
           work.kind = "PUT", work' = Idle, inbox' = inbox, NEW req, Serving(req), client[c].req = req,
           NEW n, n = req.x + 1, n = client[c].n,
           NEW m \in replies'[c], m.id = req.id, m.status = "Success", NEW v, v = req.v
    PROVE  Stored(req.p, <<v, n>>)'
<1>1. PICK k, w : k = key(req) /\ w = pending_writes[k]
  OBVIOUS
<1>2. /\ work # Idle /\ work.req = req /\ node' = node /\ req \in Active(c) /\ req # NoReq
      /\ req \in Req /\ req.x \in Nat
  BY PutAnswered, ServedFirst, ReqFacts, Bounds DEF AckInv, Serving
<1>3. PICK ok : /\ FinishPut(ok)
                /\ ok => \A i \in 1..2 : Done(w.replicas[i], w, v, n)
  BY <1>1, <1>2, PutEnds DEF AckInv
<1>4. /\ k \in DOMAIN pending_writes /\ w \in Pending /\ w.next = req.x
      /\ w.path = req.p /\ w.count = n
  <2>1. k \in DOMAIN pending_writes /\ w.next = req.x
    BY <1>1, <1>2 DEF Typed, WaitInv, Awaited
  <2>2. w.path = req.p
    BY <1>1, <1>2, <2>1 DEF AckInv, EntryInv
  <2>3. w.count = n
    BY <1>1, <1>2, <2>1 DEF AckInv, EntryInv
  <2> QED BY <1>1, <2>1, <2>2, <2>3, PendingFacts DEF Typed
<1>5. ok /\ StoreChange(req, Set(meta, req.p, Completed(w)), dirs)
  <2>1. ~respond(req, "ServerError") /\ ~Refuse(req, "AlreadyExists")
    BY RespondStatus DEF AckInv
  <2>2. w.next + 1 = w.count
    BY <1>4
  <2> QED BY <1>1, <1>2, <1>3, <1>4, <2>1, <2>2 DEF FinishPut
<1>6. meta' = Set(meta, req.p, Completed(w))
  BY <1>5, RespondStatus DEF AckInv
<1>7. /\ req.p \in DOMAIN meta' /\ meta'[req.p].size = n
      /\ meta'[req.p].obj = w.obj /\ meta'[req.p].replicas = w.replicas
  BY <1>4, <1>6 DEF Set, Completed
<1>8. ASSUME NEW i \in 1..2 PROVE Still(w.replicas[i], w.obj) /\ node[w.replicas[i]].objects[w.obj] = Stream(v, n)
  BY <1>3, <1>4, <1>5 DEF Done
<1>9. PICK p, x : p = req.p /\ x = <<v, n>>
  OBVIOUS
<1>10. x[1] = v /\ x[2] = n
  BY <1>9
<1>11. \A i \in 1..2 : Still(w.replicas[i], w.obj)'
  BY <1>8 DEF Still
<1>12. Stored(p, x)'
  BY <1>2, <1>7, <1>8, <1>9, <1>10, <1>11 DEF Stored, StoredAt
<1> QED BY <1>9, <1>12

\* ... and RENAME takes along what was there.
LEMMA RenameStored ==
    ASSUME Typed, NEW c \in Client, Client = {c}, AckInv(c), HandleRename, NEW req, req = Head(jobs),
           client[c].req = req, client[c].id = req.id, NEW v, v = client[c].snap, v # None,
           NEW m \in replies'[c], m.id = req.id, m.status = "Success"
    PROVE  Stored(req.q, v)'
<1>1. Serving(req) /\ req.job = "RENAME" /\ req \in Req /\ work = Idle /\ UNCHANGED <<node, inbox>>
  BY TakenServed, TakingTyped DEF HandleRename, Taking, storageVars
<1>2. req # NoReq /\ \E i \in 1..Len(jobs) : jobs[i].id = req.id
  <2>1. \E i \in 1..Len(jobs) : jobs[i] = req
    BY <1>1, ServedFirst DEF AckInv
  <2> QED BY <1>1, <2>1, ReqFacts
<1>3. Stored(req.p, v)
  BY <1>1, <1>2 DEF AckInv, RenameInv
<1>4. req.p \in DOMAIN meta /\ req.p \notin dirs
  BY <1>3 DEF Stored, Typed, StoreOk
<1>5. \/ req.q = req.p /\ meta' = meta
      \/ meta' = Set(Drop(meta, req.p), req.q, meta[req.p])
  <2>1. ~Refuse(req, "ServerError") /\ ~Refuse(req, "AlreadyExists")
    BY <1>1, RespondStatus DEF AckInv
  <2>2. \/ req.q = req.p /\ UNCHANGED store
        \/ StoreChange(req, Set(Drop(meta, req.p), req.q, meta[req.p]), dirs)
    BY <1>4, <2>1 DEF HandleRename
  <2> QED BY <1>1, <2>2, RespondStatus DEF AckInv, store
<1>6. req.q \in DOMAIN meta' /\ meta'[req.q] = meta[req.p]
  BY <1>4, <1>5 DEF Set
<1>7. ASSUME v[2] > 0, NEW i \in 1..2
      PROVE  Still(meta[req.p].replicas[i], meta[req.p].obj)
             /\ node[meta[req.p].replicas[i]].objects[meta[req.p].obj] = Stream(v[1], v[2])
  BY <1>3, <1>7 DEF Stored, StoredAt
<1>8. PICK q, t : q = req.q /\ t = meta[req.p]
  OBVIOUS
<1>9. v[2] > 0 => \A i \in 1..2 : Still(t.replicas[i], t.obj)'
  BY <1>1, <1>7, <1>8 DEF Still
<1>10. t.size = v[2]
  BY <1>3, <1>8 DEF Stored
<1>11. Stored(q, v)'
  BY <1>1, <1>6, <1>7, <1>8, <1>9, <1>10 DEF Stored, StoredAt
<1> QED BY <1>8, <1>11

\* What a new response says is so.
LEMMA WorkReply ==
    ASSUME Typed, Typed', KindInv, NEW c \in Client, Client = {c}, AckInv(c),
           WorkerHandle \/ WorkerReceive \/ WorkerTimeout, NEW req, WorkStep(req)
    PROVE  ReplyInv(c)'
<1>1. client' = client /\ Serving(req) /\ (work' = Idle => inbox' = inbox)
  BY DEF WorkStep, Replies, Waits
<1>2. PICK C : C = client[c]
  OBVIOUS
<1>3. SUFFICES ASSUME NEW m \in replies'[c], C.req # NoReq, m.id = C.id, m.status = "Success"
               PROVE  Means(c)'
  BY <1>1, <1>2 DEF ReplyInv
<1>4. /\ C.req.id = C.id /\ C.id \in Nat /\ req \in Req /\ req.id \in Nat /\ req.id <= C.id
      /\ C.req.id = req.id => C.req = req
      /\ \A l \in replies[c] : l.id < req.id /\ l.id \in Nat
      /\ work # Idle => work.req = req
      /\ work = Idle => req = Head(jobs)
  <2>1. work = Idle => req = Head(jobs)
    BY <1>1 DEF Serving
  <2> QED BY <1>1, <1>2, <1>3, <2>1, ServedFirst, AckTypes DEF AckInv, QueueInv
<1>5. C.req = req /\ m.id = req.id /\ work' = Idle
  <2>1. m \notin replies[c]
    <3>1. m \in replies[c] => m.id < req.id /\ m.id \in Nat
      BY <1>4
    <3> QED BY <1>3, <1>4, <3>1
  <2>2. work' = Idle
    BY <1>3, <2>1, RepliesStep DEF AckInv
  <2>3. PICK a : ResponseTo(a, req) /\ replies'[c] = replies[c] \cup {a}
    BY <2>2, RepliesStep DEF AckInv
  <2>4. m.id = req.id
    BY <1>3, <2>1, <2>3 DEF ResponseTo
  <2> QED BY <1>3, <1>4, <2>2, <2>4
<1>6. PICK v, n, x : v = req.v /\ n = C.n /\ x = C.snap
  OBVIOUS
<1>7. req.job = "WRITE_FILE" /\ n = 0 => Stored(req.p, <<v, 0>>)'
  <2>1. SUFFICES ASSUME req.job = "WRITE_FILE", n = 0 PROVE Stored(req.p, <<v, 0>>)'
    OBVIOUS
  <2>2. work = Idle
    BY <1>4, <2>1 DEF KindInv
  <2>3. HandleWriteFile
    BY <1>4, <2>1, <2>2 DEF WorkerHandle, WorkerReceive, WorkerTimeout, Taking, HandleCreateFile,
          HandleWriteChunk, HandleReadFile, HandleReadChunk, HandleRemove, HandleRename, HandleMakeDir,
          HandleList, HandleStat
  <2>4. req.x = 0
    BY <1>2, <1>3, <1>5, <1>6, <2>1 DEF AckInv, EntryInv
  <2> QED BY <1>3, <1>4, <1>5, <2>2, <2>3, <2>4, EmptyStored DEF AckInv
<1>8. req.job = "WRITE_CHUNK" /\ req.x + 1 = n => Stored(req.p, <<v, n>>)'
  <2>1. SUFFICES ASSUME req.job = "WRITE_CHUNK", req.x + 1 = n PROVE Stored(req.p, <<v, n>>)'
    OBVIOUS
  <2>2. CASE work = Idle
    <3>1. HandleWriteChunk
      BY <1>4, <2>1, <2>2 DEF WorkerHandle, WorkerReceive, WorkerTimeout, Taking, HandleCreateFile,
            HandleWriteFile, HandleReadFile, HandleReadChunk, HandleRemove, HandleRename, HandleMakeDir,
            HandleList, HandleStat
    <3>2. ~respond(req, "InputError")
      BY <1>1, <1>3, <1>5, RespondStatus DEF AckInv
    <3>3. Wait("PUT", req, req.id, pending_writes[key(req)].replicas)
      BY <1>4, <2>2, <3>1, <3>2 DEF HandleWriteChunk
    <3>4. DOMAIN work' = {"kind", "req", "id", "left", "ok"}
      BY <3>3 DEF Wait
    <3>5. DOMAIN Idle = {"kind"}
      BY DEF Idle
    <3> QED BY <1>5, <3>4, <3>5
  <2>3. CASE work # Idle
    <3>1. WorkerReceive \/ WorkerTimeout
      BY <2>3 DEF WorkerHandle, Taking, HandleCreateFile, HandleWriteFile, HandleWriteChunk, HandleReadFile,
            HandleReadChunk, HandleRemove, HandleRename, HandleMakeDir, HandleList, HandleStat
    <3>2. work.kind = "PUT"
      BY <1>4, <2>1, <2>3 DEF KindInv
    <3> QED BY <1>1, <1>2, <1>3, <1>5, <1>6, <2>1, <3>1, <3>2, FileStored
  <2> QED BY <2>2, <2>3
<1>9. req.job = "RENAME" /\ x # None => Stored(req.q, x)'
  <2>1. SUFFICES ASSUME req.job = "RENAME", x # None PROVE Stored(req.q, x)'
    OBVIOUS
  <2>2. work = Idle
    BY <1>4, <2>1 DEF KindInv
  <2>3. HandleRename
    BY <1>4, <2>1, <2>2 DEF WorkerHandle, WorkerReceive, WorkerTimeout, Taking, HandleCreateFile,
          HandleWriteFile, HandleWriteChunk, HandleReadFile, HandleReadChunk, HandleRemove, HandleMakeDir,
          HandleList, HandleStat
  <2> QED BY <1>2, <1>3, <1>4, <1>5, <1>6, <2>1, <2>2, <2>3, RenameStored
<1>10. PICK p, q, x0, x1 : p = req.p /\ q = req.q /\ x0 = <<v, 0>> /\ x1 = <<v, n>>
  OBVIOUS
<1> QED BY <1>1, <1>2, <1>5, <1>6, <1>7, <1>8, <1>9, <1>10 DEF Means

\* What the process in Client relies on, when the worker takes a step.
LEMMA WorkAck ==
    ASSUME Typed, Typed', Ids, KindInv, KindInv', NEW c \in Client, Client = {c}, AckInv(c),
           WorkerHandle \/ WorkerReceive \/ WorkerTimeout
    PROVE  AckInv(c)'
<1>1. PICK req \in Req : WorkStep(req)
  BY WorkerShape DEF AckInv
<1>2. QueueInv(c)' /\ EntryInv(c)' /\ ChangeInv(c)'
  BY <1>1, WorkQueue, WorkEntry, WorkChange DEF AckInv
<1>3. SafeInv' /\ PutInv(c)' /\ RenameInv(c)'
  BY <1>1, WorkSafe, WorkPut, WorkRename DEF AckInv
<1>4. ReadyInv(c)' /\ SendInv(c)' /\ ReplyInv(c)'
  BY <1>1, WorkReady, WorkSend, WorkReply
<1> QED BY <1>2, <1>3, <1>4 DEF AckInv

-----------------------------------------------------------------------------
(* Acknowledged writes: the client *)

\* Where neither files nor messages change.
LEMMA SameStored ==
    ASSUME UNCHANGED <<meta, node, inbox>>, NEW p, NEW v, Stored(p, v) PROVE Stored(p, v)'
BY DEF Stored, StoredAt, Still

\* The client begins an operation; its id is new.
LEMMA BeginAck ==
    ASSUME Typed, Typed', NEW c \in Client, Client = {c}, AckInv(c), Issue(c)
    PROVE  AckInv(c)'
<1>1. PICK req \in Req :
             /\ client[c].req = NoReq /\ req.id = client[c].id + 1 /\ req.job \notin ChunkJobs
             /\ jobs' = Append(jobs, req)
             /\ client'[c].id = req.id /\ client'[c].req = req /\ client'[c].snap = settled[req.p]
             /\ req.job = "WRITE_FILE" => req.x = client'[c].n
             /\ req.job \in Changing => settled' = [settled EXCEPT ![req.p] = None, ![req.q] = None]
             /\ req.job \notin Changing => settled' = settled
             /\ contested = {} => contested' = {}
             /\ UNCHANGED <<replies, work, store, tables, storageVars>>
  BY BeginFacts
<1>2. PICK a \in Nat : a = client[c].id
  BY AckTypes
<1>3. UNCHANGED <<replies, work, meta, pending_writes, pending_reads, node, inbox, answers>>
  BY <1>1 DEF store, tables, storageVars
<1>4. /\ jobs \in Seq(Req) /\ \A i \in 1..Len(jobs) : jobs[i].id \in Nat /\ jobs[i].id <= a
      /\ work # Idle => work.req.id \in Nat /\ work.req.id <= a
      /\ \A m \in replies[c] : m.id \in Nat /\ m.id <= a
      /\ req.id = a + 1 /\ req # NoReq /\ req.p \in Path /\ req.q \in Path
  BY <1>1, <1>2, AckTypes, ReqFacts DEF AckInv, QueueInv
<1>5. PICK n \in Nat : n = Len(jobs)
  BY <1>4, LenProperties
<1>6. Len(jobs') = n + 1 /\ jobs'[n + 1] = req /\ \A i \in 1..n : jobs'[i] = jobs[i]
  BY <1>1, <1>4, <1>5, AppendProperties
<1>7. \A i \in 1..(n + 1) : i \in 1..n \/ i = n + 1
  BY <1>5
<1>8. \A i \in 1..n : jobs'[i].id \in Nat /\ jobs'[i].id <= a
  BY <1>4, <1>5, <1>6
<1>9. \A i \in 1..Len(jobs') : jobs'[i].id \in Nat /\ jobs'[i].id <= a + 1 /\ (jobs'[i].id = a + 1 => jobs'[i] = req)
  BY <1>4, <1>6, <1>7, <1>8
<1>10. QueueInv(c)'
  <2>1. ASSUME NEW i \in 1..Len(jobs'), NEW j \in 1..Len(jobs'), i < j PROVE jobs'[i].id < jobs'[j].id
    <3>1. i \in 1..n /\ jobs'[i].id <= a
      BY <1>6, <1>8, <2>1
    <3>2. CASE j = n + 1
      BY <1>4, <1>6, <1>8, <3>1, <3>2
    <3>3. CASE j \in 1..n
      BY <1>5, <1>6, <2>1, <3>1, <3>3 DEF AckInv, QueueInv
    <3> QED BY <1>6, <1>7, <3>2, <3>3
  <2>2. work # Idle => \A i \in 1..Len(jobs') : work.req.id < jobs'[i].id
    <3>1. ASSUME work # Idle, NEW i \in 1..n PROVE work.req.id < jobs'[i].id
      BY <1>5, <1>6, <3>1 DEF AckInv, QueueInv
    <3>2. work # Idle => work.req.id < req.id
      BY <1>4
    <3> QED BY <1>6, <1>7, <3>1, <3>2
  <2>3. ASSUME NEW m \in replies[c] PROVE \A i \in 1..Len(jobs') : m.id < jobs'[i].id
    <3>1. ASSUME NEW i \in 1..n PROVE m.id < jobs'[i].id
      BY <1>5, <1>6, <2>3 DEF AckInv, QueueInv
    <3>2. m.id < req.id
      BY <1>4
    <3> QED BY <1>6, <1>7, <3>1, <3>2
  <2>4. /\ \A m \in replies[c] : /\ m.id <= a + 1 /\ m.id # a + 1
                                 /\ work # Idle => m.id < work.req.id
                                 /\ \A l \in replies[c] : l.id = m.id => l = m
        /\ work # Idle => work.req.id <= a + 1 /\ work.req.id # a + 1
    <3>1. \A m \in replies[c] : m.id <= a + 1 /\ m.id # a + 1
      BY <1>4
    <3>2. work # Idle => work.req.id <= a + 1 /\ work.req.id # a + 1
      BY <1>4
    <3> QED BY <3>1, <3>2 DEF AckInv, QueueInv
  <2> QED BY <1>1, <1>3, <1>4, <1>9, <2>1, <2>2, <2>3, <2>4 DEF QueueInv
<1>11. ASSUME NEW r PROVE r \in Active(c)' <=> r \in Active(c) \/ r = req
  <2>1. (\E i \in 1..Len(jobs') : r = jobs'[i]) <=> (\E i \in 1..Len(jobs) : r = jobs[i]) \/ r = req
    <3>1. n + 1 \in 1..(n + 1) /\ \A i \in 1..n : i \in 1..(n + 1)
      BY <1>5
    <3> QED BY <1>5, <1>6, <1>7, <3>1
  <2> QED BY <1>1, <1>3, <1>4, <2>1, ActiveFacts
<1>12. \A k \in DOMAIN pending_writes \cup DOMAIN pending_reads : k[2] \in Nat /\ k[2] <= a /\ k # key(req)
  <2>1. ASSUME NEW k \in DOMAIN pending_writes \cup DOMAIN pending_reads PROVE k[2] \in Nat /\ k[2] <= a
    <3>1. k \in Keys
      BY AckTypes
    <3> QED BY <1>1, <1>2, <2>1, <3>1, OneKey DEF AckInv, EntryInv
  <2>2. key(req)[2] = a + 1
    BY <1>4 DEF key
  <2> QED BY <1>2, <2>1, <2>2
<1>13. EntryInv(c)'
  <2>1. ASSUME NEW k \in DOMAIN pending_writes \cup DOMAIN pending_reads
        PROVE  /\ k[2] <= a + 1 /\ (work # Idle => k[2] <= work.req.id)
               /\ \A i \in 1..Len(jobs') : k[2] <= jobs'[i].id
    <3>1. k[2] <= a + 1
      BY <1>2, <1>12
    <3>2. ASSUME NEW i \in 1..n PROVE k[2] <= jobs'[i].id
      BY <1>5, <1>6 DEF AckInv, EntryInv
    <3> QED BY <1>4, <1>6, <1>7, <3>1, <3>2 DEF AckInv, EntryInv
  <2>2. ASSUME NEW r \in Active(c)'
        PROVE  /\ key(r) \in DOMAIN pending_writes => r.job \in WriteJobs /\ pending_writes[key(r)].path = r.p
               /\ key(r) \in DOMAIN pending_reads => r.job \in ReadJobs
    BY <1>11, <1>12, <2>2 DEF AckInv, EntryInv
  <2> QED BY <1>1, <1>3, <1>4, <1>12, <2>1, <2>2 DEF EntryInv
<1>14. \A p \in Path : settled'[p] = None \/ settled'[p] = settled[p]
  BY <1>1 DEF Typed, HistoryTyped
<1>15. ChangeInv(c)'
  <2>1. ASSUME NEW r \in Active(c)', r.job \in Changing PROVE settled'[r.p] = None /\ settled'[r.q] = None
    <3>1. CASE r = req
      BY <1>1, <1>4, <2>1, <3>1 DEF Typed, HistoryTyped
    <3>2. CASE r \in Active(c)
      <4>1. settled[r.p] = None /\ settled[r.q] = None
        BY <2>1, <3>2 DEF AckInv, ChangeInv
      <4>2. r \in Req
        BY <1>1, <3>2, ActiveFacts, AckTypes
      <4> QED BY <1>14, <4>1, <4>2, ReqFacts
    <3> QED BY <1>11, <2>1, <3>1, <3>2
  <2> QED BY <1>1, <2>1 DEF AckInv, ChangeInv
<1>16. SafeInv'
  <2>1. ASSUME NEW p \in Path, NEW v, v = settled'[p], v # None PROVE Stored(p, v)'
    <3>1. Stored(p, v)
      BY <1>14, <2>1 DEF AckInv, SafeInv
    <3> QED BY <1>3, <3>1, SameStored
  <2> QED BY <2>1 DEF SafeInv
<1>17. PutInv(c)'
  <2>1. ASSUME NEW m, PutSeen(c, m), m.id \in Nat PROVE PutSeen(c, m)'
    <3>1. m.job = "PUT" => m.id <= a
      BY <1>2, <2>1 DEF PutSeen
    <3>2. m.job = "PUT" => m.id <= a + 1 /\ m.id # a + 1
      BY <1>2, <2>1, <3>1
    <3> QED BY <1>1, <1>2, <3>2 DEF PutSeen
  <2>2. ASSUME NEW s \in Storage, NEW i \in 1..Len(inbox'[s]), NEW m, m = inbox'[s][i] PROVE PutSeen(c, m)'
    <3>1. m.id \in Nat
      <4>1. inbox[s] \in Seq(StorageRequests)
        BY <2>2 DEF Typed, StorageTyped
      <4> QED BY <1>3, <2>2, <4>1 DEF StorageRequests
    <3>2. PutSeen(c, m)
      BY <1>3, <2>2 DEF AckInv, PutInv
    <3> QED BY <2>1, <3>1, <3>2
  <2>3. ASSUME NEW s \in Storage, NEW i \in 1..Len(answers'[s]), NEW m, m = answers'[s][i] PROVE PutSeen(c, m)'
    <3>1. m.id \in Nat
      <4>1. answers[s] \in Seq(Answer) /\ i \in 1..Len(answers[s])
        BY <1>3, <2>3 DEF Typed, StorageTyped
      <4>2. m \in Answer
        BY <1>3, <2>3, <4>1
      <4> QED BY <4>2 DEF Answer
    <3>2. PutSeen(c, m)
      BY <1>3, <2>3 DEF AckInv, PutInv
    <3> QED BY <2>1, <3>1, <3>2
  <2> QED BY <2>2, <2>3 DEF PutInv, PutSeen
<1>18. ReadyInv(c)'
  <2>1. key(req) \notin DOMAIN pending_writes'
    BY <1>3, <1>12
  <2> QED BY <1>1, <2>1 DEF ReadyInv, Writing
<1>19. SendInv(c)'
  <2>1. work # Idle => work.req # req
    BY <1>2, <1>4
  <2>2. work # Idle /\ work.kind = "PUT" => work.id = work.req.id
    BY DEF AckInv, SendInv
  <2> QED BY <1>1, <1>3, <2>1, <2>2 DEF SendInv
<1>20. ReplyInv(c)'
  <2>1. \A m \in replies[c] : m.id # a + 1
    BY <1>2, <1>4
  <2> QED BY <1>1, <1>3, <1>4, <2>1 DEF ReplyInv
<1>21. RenameInv(c)'
  <2>1. PICK p, v : p = req.p /\ v = settled[p]
    OBVIOUS
  <2>2. v # None => Stored(p, v)
    BY <1>4, <2>1 DEF AckInv, SafeInv
  <2>3. v # None => Stored(p, v)'
    BY <1>3, <2>2, SameStored
  <2>4. ASSUME v # None, NEW r \in Active(c)', r.id # req.id, r.job \in Changing PROVE p \notin {r.p, r.q}
    <3>1. r \in Active(c)
      BY <1>11, <2>4
    <3> QED BY <2>1, <2>4, <3>1 DEF AckInv, ChangeInv
  <2> QED BY <1>1, <2>1, <2>3, <2>4 DEF RenameInv
<1> QED BY <1>10, <1>13, <1>15, <1>16, <1>17, <1>18, <1>19, <1>20, <1>21 DEF AckInv

\* When the client takes the response of its operation, nothing else of it is
\* under way, nor anything older.
LEMMA AnsweredAlone ==
    ASSUME Typed, NEW c \in Client, QueueInv(c), client[c].req # NoReq,
           NEW m \in replies[c], m.id = client[c].req.id
    PROVE  /\ jobs = << >> /\ work = Idle /\ m.id = client[c].id
           /\ \A l \in replies[c] \ {m} : l.id < client[c].id
<1>1. PICK a \in Nat : a = client[c].id
  BY AckTypes
<1>2. /\ m.id = a /\ jobs \in Seq(Req) /\ \A i \in 1..Len(jobs) : jobs[i].id \in Nat
      /\ work # Idle => work.req.id \in Nat
      /\ \A l \in replies[c] : l.id \in Nat
  BY <1>1, AckTypes DEF QueueInv
<1>3. \A i \in 1..Len(jobs) : jobs[i].id <= a /\ a < jobs[i].id
  BY <1>1, <1>2 DEF QueueInv
<1>4. jobs = << >>
  <2>1. PICK n \in Nat : n = Len(jobs)
    BY <1>2, LenProperties
  <2>2. n = 0
    <3>1. n >= 1 => 1 \in 1..n
      BY <2>1
    <3>2. 1 \notin 1..n
      BY <1>1, <1>2, <1>3, <2>1
    <3> QED BY <2>1, <3>1, <3>2
  <2> QED BY <1>2, <2>1, <2>2, EmptySeq
<1>5. work = Idle
  <2>1. work # Idle => work.req.id <= a /\ a < work.req.id
    BY <1>1, <1>2 DEF QueueInv
  <2> QED BY <1>1, <1>2, <2>1
<1>6. ASSUME NEW l \in replies[c] \ {m} PROVE l.id < a
  <2>1. l.id <= a /\ l.id # a
    BY <1>1, <1>2, <1>6 DEF QueueInv
  <2> QED BY <1>1, <1>2, <1>6, <2>1
<1> QED BY <1>1, <1>2, <1>4, <1>5, <1>6

\* The client goes on with its operation ...
LEMMA GoOnAck ==
    ASSUME Typed, Typed', NEW c \in Client, Client = {c}, AckInv(c), NEW req \in Req, req = client[c].req,
           NEW m \in replies[c], Answers(m, req), replies'[c] = replies[c] \ {m},
           NEW r \in Req, GoesOn(c, req, m, r), client'[c].id = client[c].id,
           UNCHANGED <<work, store, tables, storageVars>>
    PROVE  AckInv(c)'
<1>1. UNCHANGED <<work, meta, pending_writes, pending_reads, node, inbox, answers, settled, contested>>
  BY DEF store, tables, storageVars, GoesOn
<1>2. PICK a \in Nat : a = client[c].id
  BY AckTypes
<1>3. /\ req # NoReq /\ r # NoReq /\ client'[c].req = r /\ r.id = a /\ req.id = a
      /\ r.p = req.p /\ r.q = req.q /\ r.v = req.v /\ key(r) = key(req)
      /\ jobs = << >> /\ work = Idle /\ \A l \in replies'[c] : l.id < a /\ l.id \in Nat
      /\ jobs' = Append(jobs, r)
  BY <1>2, AnsweredAlone, AckTypes, ReqFacts DEF Answers, GoesOn, key, AckInv, QueueInv
<1>4. jobs' = <<r>> /\ Len(jobs') = 1 /\ jobs'[1] = r /\ \A i \in 1..1 : i = 1
  BY <1>3
<1>5. \A x \in Active(c)' : x = r
  BY <1>1, <1>3, <1>4, ActiveFacts
<1>6. req \in Active(c)
  BY <1>3, ActiveFacts
<1>7. /\ \/ r.job = "WRITE_CHUNK" /\ req.job \in WriteJobs
         \/ r.job = "READ_CHUNK" /\ req.job \in ReadJobs
      /\ req.job = "WRITE_CHUNK" => r.x = req.x + 1
  <2>1. "WRITE_CHUNK" \in ChunkJobs
    BY DEF ChunkJobs
  <2> QED BY <2>1 DEF GoesOn, WriteJobs, ReadJobs, Following
<1>8. QueueInv(c)'
  <2>1. \A l \in replies'[c] : l.id <= a /\ l.id # a /\ l.id < r.id
    BY <1>3
  <2>2. \A l \in replies'[c] : \A h \in replies'[c] : h.id = l.id => h = l
    BY DEF AckInv, QueueInv
  <2> QED BY <1>1, <1>2, <1>3, <1>4, <2>1, <2>2 DEF QueueInv
<1>9. EntryInv(c)'
  <2>1. \A k \in DOMAIN pending_writes \cup DOMAIN pending_reads : k[2] <= a
    BY <1>2 DEF AckInv, EntryInv
  <2>2. /\ key(r) \in DOMAIN pending_writes => r.job \in WriteJobs /\ pending_writes[key(r)].path = r.p
        /\ key(r) \in DOMAIN pending_reads => r.job \in ReadJobs
    BY <1>3, <1>6, <1>7 DEF AckInv, EntryInv, WriteJobs, ReadJobs
  <2>3. key(r) \in DOMAIN pending_writes => pending_writes[key(r)].count = client'[c].n
    <3>1. SUFFICES ASSUME key(r) \in DOMAIN pending_writes PROVE client'[c].n = pending_writes[key(req)].count
      BY <1>3
    <3>2. req.job \in WriteJobs /\ pending_writes[key(req)].count = client[c].n
      BY <1>3, <1>6, <3>1 DEF AckInv, EntryInv
    <3>3. client'[c].n = client[c].n
      BY <3>2 DEF GoesOn, Counted, WriteJobs
    <3> QED BY <3>2, <3>3
  <2> QED BY <1>1, <1>2, <1>3, <1>4, <1>5, <1>7, <2>1, <2>2, <2>3 DEF EntryInv
<1>10. ChangeInv(c)'
  <2>1. r.job \in Changing => settled[r.p] = None /\ settled[r.q] = None
    BY <1>3, <1>6, <1>7 DEF AckInv, ChangeInv, Changing, WriteJobs
  <2> QED BY <1>1, <1>5, <2>1 DEF AckInv, ChangeInv
<1>11. SafeInv'
  <2>1. ASSUME NEW p \in Path, NEW v, v = settled[p], v # None PROVE Stored(p, v)'
    <3>1. Stored(p, v)
      BY <2>1 DEF AckInv, SafeInv
    <3> QED BY <1>1, <3>1, SameStored
  <2> QED BY <1>1, <2>1 DEF SafeInv
<1>12. PutInv(c)'
  <2>1. ASSUME NEW l, PutSeen(c, l), l.i \in Nat PROVE PutSeen(c, l)'
    <3>1. SUFFICES ASSUME l.job = "PUT", l.id = a PROVE r.job = "WRITE_CHUNK" /\ l.i <= r.x /\ l.i # r.x
      BY <1>2, <1>3, <2>1 DEF PutSeen
    <3>2. req.job = "WRITE_CHUNK" /\ l.i <= req.x /\ req.x \in Nat
      BY <1>2, <1>3, <2>1, <3>1, ReqFacts, Bounds DEF PutSeen
    <3>3. r.job = "WRITE_CHUNK" /\ r.x = req.x + 1
      BY <1>7, <3>2 DEF ReadJobs
    <3> QED BY <2>1, <3>2, <3>3
  <2>2. ASSUME NEW s \in Storage, NEW i \in 1..Len(inbox'[s]), NEW l, l = inbox'[s][i] PROVE PutSeen(c, l)'
    <3>1. l.i \in Nat
      <4>1. inbox[s] \in Seq(StorageRequests) /\ i \in 1..Len(inbox[s])
        BY <1>1, <2>2 DEF Typed, StorageTyped
      <4>2. l \in StorageRequests
        BY <1>1, <2>2, <4>1
      <4> QED BY <4>2, Bounds DEF StorageRequests
    <3>2. PutSeen(c, l)
      BY <1>1, <2>2 DEF AckInv, PutInv
    <3> QED BY <2>1, <3>1, <3>2
  <2>3. ASSUME NEW s \in Storage, NEW i \in 1..Len(answers'[s]), NEW l, l = answers'[s][i] PROVE PutSeen(c, l)'
    <3>1. l.i \in Nat
      <4>1. answers[s] \in Seq(Answer) /\ i \in 1..Len(answers[s])
        BY <1>1, <2>3 DEF Typed, StorageTyped
      <4>2. l \in Answer
        BY <1>1, <2>3, <4>1
      <4> QED BY <4>2, Bounds DEF Answer
    <3>2. PutSeen(c, l)
      BY <1>1, <2>3 DEF AckInv, PutInv
    <3> QED BY <2>1, <3>1, <3>2
  <2> QED BY <2>2, <2>3 DEF PutInv, PutSeen
<1>13. ReadyInv(c)'
  <2>1. PICK w, v : w = pending_writes[key(req)] /\ v = req.v
    OBVIOUS
  <2>2. ASSUME r.job \in WriteJobs, key(r) \in DOMAIN pending_writes, w.next > 0, NEW i \in 1..2
        PROVE  Still(w.replicas[i], w.obj) /\ Prefix(w.replicas[i], w.obj, v, w.next)
    <3>1. Writing(c)
      BY <1>3, <1>7, <2>2 DEF Writing, WriteJobs
    <3> QED BY <1>3, <2>1, <2>2, <3>1 DEF AckInv, ReadyInv
  <2>3. ASSUME NEW s, NEW o, NEW j, Still(s, o) /\ Prefix(s, o, v, j) PROVE Still(s, o)' /\ Prefix(s, o, v, j)'
    BY <1>1, <2>3 DEF Still, Prefix
  <2> QED BY <1>1, <1>3, <2>1, <2>2, <2>3 DEF ReadyInv, Writing
<1>14. SendInv(c)' /\ ReplyInv(c)' /\ RenameInv(c)'
  <2>1. \A l \in replies'[c] : l.id # a
    BY <1>2, <1>3
  <2>2. r.job # "RENAME"
    BY <1>7
  <2> QED BY <1>1, <1>2, <1>3, <2>1, <2>2 DEF SendInv, ReplyInv, RenameInv
<1> QED BY <1>8, <1>9, <1>10, <1>11, <1>12, <1>13, <1>14 DEF AckInv

\* ... or leaves it, for whatever reason.
LEMMA LeaveAck ==
    ASSUME Typed, Typed', NEW c \in Client, AckInv(c), client'[c].req = NoReq, client'[c].id = client[c].id,
           replies'[c] \subseteq replies[c], contested' = {}, SafeInv',
           \A r \in Active(c)' : r \in Active(c) /\
               (r.job \in Changing => settled'[r.p] = None /\ settled'[r.q] = None),
           UNCHANGED <<jobs, work, store, tables, storageVars>>
    PROVE  AckInv(c)'
<1>1. UNCHANGED <<jobs, work, meta, pending_writes, pending_reads, node, inbox, answers>>
  BY DEF store, tables, storageVars
<1>2. QueueInv(c)'
  BY <1>1 DEF AckInv, QueueInv
<1>3. EntryInv(c)'
  BY <1>1 DEF AckInv, EntryInv
<1>4. ChangeInv(c)'
  BY DEF ChangeInv
<1>5. PutInv(c)'
  <2>1. ASSUME NEW m, PutSeen(c, m) PROVE PutSeen(c, m)'
    BY <2>1 DEF PutSeen
  <2> QED BY <1>1, <2>1 DEF AckInv, PutInv, PutSeen
<1>6. ReadyInv(c)' /\ SendInv(c)' /\ ReplyInv(c)' /\ RenameInv(c)'
  <2>1. work # Idle => work.req # NoReq
    BY AckTypes, ReqFacts
  <2> QED BY <1>1, <2>1 DEF AckInv, ReadyInv, Writing, SendInv, ReplyInv, RenameInv
<1> QED BY <1>2, <1>3, <1>4, <1>5, <1>6 DEF AckInv

\* What the client knows at the end of a successful operation is so.
LEMMA KnownStored ==
    ASSUME Typed, NEW c \in Client, SafeInv, NEW req \in Req, req = client[c].req, Means(c),
           Known(c, req), NEW p \in Path, settled'[p] # None
    PROVE  \E v : v = settled'[p] /\ Stored(p, v)
<1>1. settled \in [Path -> Version] /\ req.p \in Path /\ req.q \in Path
  BY ReqFacts DEF Typed, HistoryTyped
<1>2. CASE req.job \in WriteJobs /\ Following(req) = client[c].n
           /\ settled' = [settled EXCEPT ![req.p] = <<req.v, client[c].n>>]
  <2>1. Stored(req.p, <<req.v, client[c].n>>)
    <3>1. req.job = "WRITE_FILE" => client[c].n = 0
      BY <1>2 DEF Following, ChunkJobs
    <3>2. req.job = "WRITE_CHUNK" => req.x + 1 = client[c].n
      BY <1>2 DEF Following, ChunkJobs
    <3> QED BY <1>2, <3>1, <3>2 DEF Means, WriteJobs
  <2>2. p # req.p => settled'[p] = settled[p]
    BY <1>1, <1>2
  <2>3. settled'[req.p] = <<req.v, client[c].n>>
    BY <1>1, <1>2
  <2> QED BY <2>1, <2>2, <2>3 DEF SafeInv
<1>3. CASE req.job = "RENAME" /\ settled' = [settled EXCEPT ![req.q] = client[c].snap]
  <2>1. p # req.q => settled'[p] = settled[p]
    BY <1>1, <1>3
  <2>2. settled'[req.q] = client[c].snap
    BY <1>1, <1>3
  <2>3. p = req.q => Stored(req.q, client[c].snap)
    BY <1>3, <2>2 DEF Means
  <2> QED BY <2>1, <2>2, <2>3 DEF SafeInv
<1> QED BY <1>2, <1>3 DEF Known

\* A client takes a response.
LEMMA ReceiveAck ==
    ASSUME Typed, Typed', NEW c \in Client, Client = {c}, AckInv(c), ClientReceive(c)
    PROVE  AckInv(c)'
<1>1. PICK req : req = client[c].req
  OBVIOUS
<1>2. /\ req \in Req /\ req # NoReq /\ client'[c].id = client[c].id
      /\ UNCHANGED <<work, store, tables, storageVars>>
  BY <1>1, ReceiveFacts, ReqFacts
<1>3. PICK m \in replies[c] :
        /\ Answers(m, req) /\ replies'[c] = replies[c] \ {m}
        /\ Concludes(c, req, m) \/ \E r \in Req : GoesOn(c, req, m, r)
  BY <1>1, ReceiveFacts
<1>4. ASSUME NEW r \in Req, GoesOn(c, req, m, r) PROVE AckInv(c)'
  BY <1>1, <1>2, <1>3, <1>4, GoOnAck
<1>5. ASSUME Concludes(c, req, m) PROVE AckInv(c)'
  <2>1. m.id = req.id /\ req.id = client[c].id /\ jobs = << >> /\ work = Idle
    BY <1>1, <1>2, <1>3, AnsweredAlone DEF Answers, AckInv, QueueInv
  <2>2. /\ client'[c].req = NoReq /\ jobs' = jobs /\ contested' = {} /\ work' = work
        /\ UNCHANGED <<meta, node, inbox>>
    BY <1>2, <1>5 DEF Concludes, AckInv, ChangeInv, store, storageVars
  <2>3. Active(c)' = {}
    <3>1. ASSUME NEW r \in Active(c)' PROVE FALSE
      BY <2>1, <2>2, <3>1, ActiveFacts
    <3> QED BY <3>1
  <2>4. m.status = "Success" => Means(c)
    BY <1>1, <1>2, <1>3, <2>1 DEF AckInv, ReplyInv
  <2>5. ASSUME NEW p \in Path, settled'[p] # None PROVE \E v : v = settled'[p] /\ Stored(p, v)
    <3>1. CASE settled' = settled
      BY <2>5, <3>1 DEF AckInv, SafeInv
    <3>2. CASE m.status = "Success" /\ Known(c, req)
      BY <1>1, <1>2, <2>4, <2>5, <3>2, KnownStored DEF AckInv
    <3> QED BY <1>5, <3>1, <3>2 DEF Concludes
  <2>6. SafeInv'
    <3>1. ASSUME NEW p \in Path, NEW v, v = settled'[p], v # None PROVE Stored(p, v)'
      <4>1. Stored(p, v)
        BY <2>5, <3>1
      <4> QED BY <2>2, <4>1, SameStored
    <3> QED BY <3>1 DEF SafeInv
  <2> QED BY <1>2, <1>3, <2>2, <2>3, <2>6, LeaveAck
<1> QED BY <1>3, <1>4, <1>5

\* A client gives up.
LEMMA TimeoutAck ==
    ASSUME Typed, Typed', NEW c \in Client, AckInv(c), ClientTimeout(c)
    PROVE  AckInv(c)'
<1>1. /\ client'[c].req = NoReq /\ client'[c].id = client[c].id
      /\ UNCHANGED <<replies, jobs, work, store, tables, storageVars, settled, contested, meta, node, inbox>>
  BY TimeoutFacts DEF history, store, storageVars
<1>2. ASSUME NEW r \in Active(c)' PROVE r \in Active(c)
  BY <1>1, <1>2, ActiveFacts
<1>3. SafeInv'
  <2>1. ASSUME NEW p \in Path, NEW v, v = settled[p], v # None PROVE Stored(p, v)'
    <3>1. Stored(p, v)
      BY <2>1 DEF AckInv, SafeInv
    <3> QED BY <1>1, <3>1, SameStored
  <2> QED BY <1>1, <2>1 DEF SafeInv
<1>4. contested' = {}
  BY <1>1 DEF AckInv, ChangeInv
<1>5. ASSUME NEW r \in Active(c)'
      PROVE  r \in Active(c) /\ (r.job \in Changing => settled'[r.p] = None /\ settled'[r.q] = None)
  BY <1>1, <1>2, <1>5 DEF AckInv, ChangeInv
<1> QED BY <1>1, <1>3, <1>4, <1>5, LeaveAck

\* The metadata node dies: the requests that are left keep their order, and
\* the responses of a storage node are all there or none.
LEMMA MetadataRestartAck ==
    ASSUME Typed, Typed', NEW c \in Client, AckInv(c), MetadataRestart
    PROVE  AckInv(c)'
<1>1. /\ UNCHANGED <<client, replies, meta, node, inbox, settled, contested>>
      /\ work' = Idle /\ pending_writes' = << >> /\ pending_reads' = << >>
  BY DEF MetadataRestart, clientVars, store, history
<1>2. PICK k \in Nat : \A i \in 1..Len(jobs') :
        i + k \in 1..Len(jobs) /\ jobs'[i] = jobs[i + k] /\ jobs[i + k] \in Req
  <2>1. jobs \in Seq(Req) /\ jobs' \in Seq(Req)
    BY DEF Typed, JobsTyped
  <2>2. Behind(jobs', jobs)
    BY <2>1, BehindFacts DEF MetadataRestart
  <2> QED BY <2>1, <2>2, BehindMember
<1>3. DOMAIN pending_writes' = {} /\ DOMAIN pending_reads' = {}
  BY <1>1, EmptySeq
<1>4. ASSUME NEW s \in Storage PROVE answers'[s] = answers[s] \/ answers'[s] = << >>
  BY DEF MetadataRestart
<1>5. ASSUME NEW i \in 1..Len(jobs') PROVE \E j \in 1..Len(jobs) : jobs'[i] = jobs[j]
  BY <1>2
<1>6. ASSUME NEW r \in Active(c)' PROVE r \in Active(c)
  BY <1>1, <1>5, <1>6, ActiveFacts
<1>7. QueueInv(c)'
  <2>1. ASSUME NEW i \in 1..Len(jobs'), NEW j \in 1..Len(jobs'), i < j PROVE jobs'[i].id < jobs'[j].id
    <3>1. i + k \in 1..Len(jobs) /\ j + k \in 1..Len(jobs) /\ jobs'[i] = jobs[i + k] /\ jobs'[j] = jobs[j + k]
      BY <1>2
    <3>2. i + k < j + k
      <4>1. i \in Int /\ j \in Int
        OBVIOUS
      <4> QED BY <2>1, <4>1
    <3> QED BY <3>1, <3>2 DEF AckInv, QueueInv
  <2> QED BY <1>1, <1>5, <2>1 DEF AckInv, QueueInv
<1>8. EntryInv(c)'
  BY <1>1, <1>3 DEF AckInv, EntryInv
<1>9. ChangeInv(c)'
  BY <1>1, <1>6 DEF AckInv, ChangeInv
<1>10. SafeInv'
  <2>1. ASSUME NEW p \in Path, NEW v, v = settled[p], v # None PROVE Stored(p, v)'
    <3>1. Stored(p, v)
      BY <2>1 DEF AckInv, SafeInv
    <3> QED BY <1>1, <3>1, SameStored
  <2> QED BY <1>1, <2>1 DEF SafeInv
<1>11. PutInv(c)'
  <2>1. ASSUME NEW m, PutSeen(c, m) PROVE PutSeen(c, m)'
    BY <1>1, <1>5, <2>1 DEF PutSeen
  <2>2. ASSUME NEW s \in Storage, NEW i \in 1..Len(inbox'[s]) PROVE PutSeen(c, inbox[s][i])
    BY <1>1, <2>2 DEF AckInv, PutInv
  <2>3. ASSUME NEW s \in Storage, NEW i \in 1..Len(answers'[s]), NEW m, m = answers'[s][i]
        PROVE  PutSeen(c, m)
    <3>1. answers'[s] = answers[s]
      BY <1>4, <2>3
    <3> QED BY <2>3, <3>1 DEF AckInv, PutInv
  <2>4. ASSUME NEW s \in Storage, NEW i \in 1..Len(inbox'[s]), NEW m, m = inbox'[s][i]
        PROVE  PutSeen(c, m)'
    BY <1>1, <2>1, <2>2, <2>4
  <2>5. ASSUME NEW s \in Storage, NEW i \in 1..Len(answers'[s]), NEW m, m = answers'[s][i]
        PROVE  PutSeen(c, m)'
    BY <2>1, <2>3, <2>5
  <2> QED BY <2>4, <2>5 DEF PutInv, PutSeen
<1>12. ReadyInv(c)' /\ SendInv(c)'
  BY <1>1, <1>3 DEF ReadyInv, Writing, SendInv
<1>13. ReplyInv(c)'
  <2>1. ASSUME Means(c) PROVE Means(c)'
    <3>1. ASSUME NEW p, NEW v, Stored(p, v) PROVE Stored(p, v)'
      BY <1>1, <3>1, SameStored
    <3>2. PICK p, q, v, w, x : /\ p = client[c].req.p /\ q = client[c].req.q /\ v = <<client[c].req.v, 0>>
                               /\ w = <<client[c].req.v, client[c].n>> /\ x = client[c].snap
      OBVIOUS
    <3>3. /\ Stored(p, v) => Stored(p, v)'
          /\ Stored(p, w) => Stored(p, w)'
          /\ Stored(q, x) => Stored(q, x)'
      BY <3>1
    <3> QED BY <1>1, <2>1, <3>2, <3>3 DEF Means
  <2> QED BY <1>1, <2>1 DEF AckInv, ReplyInv
<1>14. RenameInv(c)'
  <2>1. PICK p, v : p = client[c].req.p /\ v = client[c].snap
    OBVIOUS
  <2>2. Stored(p, v) => Stored(p, v)'
    BY <1>1, SameStored
  <2>3. (\E i \in 1..Len(jobs') : jobs'[i].id = client[c].id) => \E i \in 1..Len(jobs) : jobs[i].id = client[c].id
    BY <1>5
  <2> QED BY <1>1, <1>6, <2>1, <2>2, <2>3 DEF AckInv, RenameInv
<1> QED BY <1>7, <1>8, <1>9, <1>10, <1>11, <1>12, <1>13, <1>14 DEF AckInv

\* Heartbeats come and expire, or nothing happens.
LEMMA ElsewhereAck ==
    ASSUME NEW c \in Client, AckInv(c),
           UNCHANGED <<client, replies, jobs, work, meta, pending_writes, pending_reads, node, inbox,
                       answers, settled, contested>>
    PROVE  AckInv(c)'
<1>1. QueueInv(c)' /\ EntryInv(c)' /\ ChangeInv(c)'
  BY DEF AckInv, QueueInv, EntryInv, ChangeInv, Active
<1>2. SafeInv' /\ PutInv(c)' /\ ReadyInv(c)'
  BY DEF AckInv, SafeInv, Stored, StoredAt, Still, PutInv, PutSeen, ReadyInv, Writing, Prefix
<1>3. SendInv(c)'
  <2>1. ASSUME NEW m, Matches(m) PROVE Matches(m)'
    BY <2>1 DEF Matches
  <2>2. ASSUME NEW m, Matches(m)' PROVE Matches(m)
    BY <2>2 DEF Matches
  <2>3. ASSUME NEW s, NEW w, NEW v, NEW j, Done(s, w, v, j) PROVE Done(s, w, v, j)'
    BY <2>3 DEF Done, Still, Prefix
  <2>4. ASSUME NEW s, NEW w, NEW v, NEW x, Sending(s, w, v, x) PROVE Sending(s, w, v, x)'
    <3>1. ASSUME NEW j, Done(s, w, v, j) PROVE Done(s, w, v, j)'
      BY <2>3, <3>1
    <3>2. \A i \in 1..Len(inbox'[s]) : Matches(inbox[s][i])' <=> Matches(inbox[s][i])
      BY DEF Matches
    <3>3. \A i \in 1..Len(answers'[s]) : Matches(answers[s][i])' <=> Matches(answers[s][i])
      BY DEF Matches
    <3>4. Prefix(s, w.obj, v, x) => Prefix(s, w.obj, v, x)'
      BY DEF Prefix
    <3> QED BY <2>4, <3>1, <3>2, <3>3, <3>4 DEF Sending
  <2>5. PICK w, v, x : w = pending_writes[key(work.req)] /\ v = work.req.v /\ x = work.req.x
    OBVIOUS
  <2>6. \A i \in 1..2 : Sending(w.replicas[i], w, v, x) => Sending(w.replicas[i], w, v, x)'
    BY <2>4
  <2> QED BY <2>5, <2>6 DEF AckInv, SendInv
<1>4. ReplyInv(c)'
  BY DEF AckInv, ReplyInv, Means, Stored, StoredAt, Still
<1>5. RenameInv(c)'
  <2>1. Active(c)' = Active(c)
    BY DEF Active
  <2>2. PICK p, v : p = client[c].req.p /\ v = client[c].snap
    OBVIOUS
  <2>3. Stored(p, v) => Stored(p, v)'
    BY SameStored
  <2> QED BY <2>1, <2>2, <2>3 DEF AckInv, RenameInv
<1> QED BY <1>1, <1>2, <1>3, <1>4, <1>5 DEF AckInv

\* At first nothing is under way and nothing is known.
LEMMA InitAck == ASSUME Init, NEW c \in Client PROVE AckInv(c)
<1>1. /\ jobs = << >> /\ work = Idle /\ replies[c] = {} /\ client[c].req = NoReq
      /\ pending_writes = << >> /\ pending_reads = << >> /\ contested = {}
      /\ \A p \in Path : settled[p] = None
      /\ \A s \in Storage : inbox[s] = << >> /\ answers[s] = << >>
  BY DEF Init
<1>2. /\ Len(jobs) = 0 /\ DOMAIN pending_writes = {} /\ DOMAIN pending_reads = {} /\ 1..0 = {}
      /\ \A s \in Storage : Len(inbox[s]) = 0 /\ Len(answers[s]) = 0
  BY <1>1, EmptySeq
<1>3. Active(c) = {}
  BY <1>1, <1>2 DEF Active
<1> QED BY <1>1, <1>2, <1>3 DEF AckInv, QueueInv, EntryInv, ChangeInv, SafeInv, PutInv, ReadyInv, Writing,
       SendInv, ReplyInv, RenameInv

-----------------------------------------------------------------------------
(* Acknowledged writes: the theorems *)

\* What the client process relies on is so in every reachable state.
THEOREM AckInvariant ==
    ASSUME OneProcess
    PROVE  Spec => [](Typed /\ Ids /\ KindInv /\ \A c \in Client : AckInv(c))
<1>1. Init => Typed /\ Ids /\ KindInv /\ \A c \in Client : AckInv(c)
  <2>1. Init => KindInv
    BY DEF Init, KindInv
  <2> QED BY <2>1, InitTyped, InitIds, InitAck
<1>2. ASSUME Typed, Ids, KindInv, \A c \in Client : AckInv(c), [Next]_vars
      PROVE  Typed' /\ Ids' /\ KindInv' /\ \A c \in Client : AckInv(c)'
  <2>1. Typed' /\ Ids' /\ KindInv'
    BY <1>2, StepTyped, StepIds, KindStep DEF Undisputed
  <2>2. PICK c \in Client : Client = {c}
    BY DEF OneProcess
  <2>3. Typed /\ Ids /\ KindInv /\ AckInv(c)
    BY <1>2
  <2>4. CASE WorkerHandle \/ WorkerReceive \/ WorkerTimeout
    BY <2>1, <2>2, <2>3, <2>4, WorkAck
  <2>5. CASE MetadataRestart
    BY <2>1, <2>2, <2>3, <2>5, MetadataRestartAck
  <2>6. ASSUME NEW s \in Storage, StorageHandle(s) \/ StorageRestart(s) PROVE AckInv(c)'
    BY <2>1, <2>3, <2>6, StorageAck
  <2>7. ASSUME UNCHANGED vars \/ \E s \in Storage : HandleHeartbeat(s) \/ ExpireHeartbeat(s)
        PROVE  AckInv(c)'
    <3>1. UNCHANGED <<client, replies, jobs, work, meta, pending_writes, pending_reads, node, inbox,
                      answers, settled, contested>>
      BY <2>7 DEF vars, HandleHeartbeat, ExpireHeartbeat, clientVars, store, tables, storageVars, history
    <3> QED BY <2>3, <3>1, ElsewhereAck
  <2>8. ASSUME NEW d \in Client, Issue(d) \/ ClientReceive(d) \/ ClientTimeout(d) \/ ClientRestart(d)
        PROVE  AckInv(c)'
    <3>1. d = c /\ ~ClientRestart(c)
      BY <2>2, <2>8 DEF OneProcess, ClientRestart, Restart
    <3> QED BY <2>1, <2>2, <2>3, <2>8, <3>1, BeginAck, ReceiveAck, TimeoutAck
  <2>9. AckInv(c)'
    BY <1>2, <2>4, <2>5, <2>6, <2>7, <2>8 DEF Next
  <2> QED BY <2>1, <2>2, <2>9
<1>3. Typed /\ Ids /\ KindInv /\ (\A c \in Client : AckInv(c)) /\ [Next]_vars
        => (Typed /\ Ids /\ KindInv /\ \A c \in Client : AckInv(c))'
  BY <1>2
<1> QED BY <1>1, <1>3, PTL DEF Spec

\* An acknowledged write survives: where all requests come from one client
\* process, a write the client was told has succeeded is on both replicas
\* until the client starts to change its path again, whatever attempts failed
\* before it, whatever requests of those are still in job_queue_ or on their
\* way to a storage node, and whatever disks, timeouts and restarts of the
\* metadata node and of storage nodes do.
THEOREM AckedSurvives == ASSUME OneProcess PROVE Spec => []AckedOnBothReplicas
<1>1. (\A c \in Client : AckInv(c)) => AckedOnBothReplicas
  <2> SUFFICES ASSUME \A c \in Client : AckInv(c), NEW p \in Path, settled[p] # None
               PROVE  /\ p \in DOMAIN meta /\ meta[p].size = settled[p][2]
                      /\ settled[p][2] > 0 => \A i \in 1..2 :
                            node[meta[p].replicas[i]].objects[meta[p].obj]
                              = Stream(settled[p][1], settled[p][2])
    BY DEF AckedOnBothReplicas
  <2>1. PICK c \in Client : Client = {c}
    BY DEF OneProcess
  <2> QED BY <2>1 DEF AckInv, SafeInv, Stored, StoredAt
<1> QED BY <1>1, AckInvariant, PTL

-----------------------------------------------------------------------------
(* Reads: the inductive invariant *)

\* The operation that c is in looks at version snap of its path.
Looking(c) ==
    client[c].req # NoReq /\ client[c].req.job \notin Changing /\ client[c].snap # None

\* That is what is known of the path, as long as the operation lasts.
SnapInv(c) ==
    client[c].req # NoReq /\ client[c].req.job \notin Changing =>
        client[c].snap = settled[client[c].req.p]

\* What the caller is given is that version ...
ResultInv(c) ==
    LET r == client[c].result
        v == client[c].snap
    IN  r # None /\ v # None =>
            /\ "content" \in DOMAIN r => r.content = Stream(v[1], v[2])
            /\ "type" \in DOMAIN r => r.type = "FILE"
            /\ "size" \in DOMAIN r => r.size = v[2]

\* ... as are the chunks that have come so far ...
GotInv(c) ==
    LET C == client[c] IN
    Looking(c) =>
        /\ C.req.job = "READ_FILE" => C.got = << >>
        /\ C.req.job = "READ_CHUNK" =>
              C.got = Stream(C.snap[1], C.req.x) /\ C.n = C.snap[2] /\ C.req.x < C.n

\* ... and what a response says.
Says(c, m) ==
    LET C == client[c] IN
    /\ C.req.job = "READ_FILE" => m.n = C.snap[2] /\ m.data = << >>
    /\ C.req.job = "READ_CHUNK" => m.data = << <<C.snap[1], C.req.x>> >>
    /\ C.req.job \in {"LIST", "STAT"} => m.type = "FILE"
    /\ C.req.job = "STAT" => m.n = C.snap[2]
ToldInv(c) ==
    \A m \in replies[c] :
        Looking(c) /\ m.id = client[c].id /\ m.status = "Success" => Says(c, m)

\* The entry of the read is for the object and the replicas of its path ...
SourceInv(c) ==
    Looking(c) /\ key(client[c].req) \in DOMAIN pending_reads =>
        LET r == pending_reads[key(client[c].req)]
            m == meta[client[c].req.p]
        IN  r.obj = m.obj /\ r.replicas = m.replicas

\* ... these are asked for it, and nobody else under the same number ...
AskedInv ==
    work # Idle /\ work.kind = "GET" =>
        LET r == pending_reads[key(work.req)] IN
        /\ \A i \in 1..Len(work.left) : work.left[i] \in {r.replicas[1], r.replicas[2]}
        /\ \A s \in Storage : \A i \in 1..Len(inbox[s]) :
              Matches(inbox[s][i]) => inbox[s][i].o = r.obj /\ s \in {r.replicas[1], r.replicas[2]}

\* ... and what they give is the chunk of that version.
GivenInv(c) ==
    Looking(c) /\ work # Idle /\ work.kind = "GET" /\ work.req = client[c].req =>
        \A s \in Storage : \A i \in 1..Len(answers[s]) :
            Matches(answers[s][i]) /\ answers[s][i].status = "Success" =>
                answers[s][i].data = << <<client[c].snap[1], work.req.x>> >>

ReadInv(c) ==
    OneEpoch =>
        /\ SnapInv(c) /\ ResultInv(c) /\ GotInv(c) /\ ToldInv(c)
        /\ SourceInv(c) /\ AskedInv /\ GivenInv(c)

-----------------------------------------------------------------------------
(* Reads: storage nodes *)

\* Chunk x of a stored version is what GET gives, if it gives anything.
LEMMA GetGives ==
    ASSUME NEW n, NEW o, NEW v \in Nat, NEW k \in Nat, NEW x \in Nat, x < k,
           n.objects[o] = Stream(v, k), NEW out \in get_chunk(n, o, x), out.status = "Success"
    PROVE  out.data = << <<v, x>> >>
<1>1. PICK file, d : /\ file = n.objects[o]
                     /\ d = SubSeq(file, x + 1, IF x < Len(file) THEN x + 1 ELSE x)
  OBVIOUS
<1>2. out.data = d
  BY <1>1 DEF get_chunk
<1>3. \A i \in 1..k : <<v, i - 1>> \in Nat \X Int
  OBVIOUS
<1>4. file \in [1..k -> Nat \X Int]
  BY <1>1, <1>3 DEF Stream
<1>5. file \in Seq(Nat \X Int) /\ Len(file) = k
  BY <1>4
<1>6. x + 1 \in 1..k /\ file[x + 1] = <<v, x>>
  <2>1. x + 1 \in 1..k /\ x + 1 - 1 = x
    OBVIOUS
  <2> QED BY <1>1, <2>1 DEF Stream
<1>7. d = SubSeq(file, x + 1, x + 1)
  BY <1>1, <1>5
<1>8. d \in Seq(Nat \X Int) /\ Len(d) = 1 /\ d[1] = file[x + 1]
  BY <1>5, <1>6, <1>7
<1>9. PICK y : y = <<v, x>>
  OBVIOUS
<1>10. d = << y >>
  BY <1>6, <1>8, <1>9
<1> QED BY <1>2, <1>9, <1>10

\* The version that c looks at is stored.
LEMMA LookingStored ==
    ASSUME Typed, NEW c \in Client, SafeInv, SnapInv(c), Looking(c), NEW v, v = client[c].snap
    PROVE  /\ client[c].req \in Req /\ client[c].req.p \in Path /\ v = settled[client[c].req.p]
           /\ v[1] \in Nat /\ v[2] \in Nat /\ v \in Nat \X Nat
           /\ Stored(client[c].req.p, v)
<1>1. client[c].req \in Req /\ client[c].req.p \in Path
  BY ClientFacts, ReqFacts DEF Typed, Looking
<1>2. v = settled[client[c].req.p] /\ v # None
  BY DEF Looking, SnapInv
<1>3. v \in (0..MaxWrites) \X (0..MaxChunks)
  BY <1>2, ClientFacts DEF Typed, Version
<1>4. v \in Nat \X Nat /\ v[1] \in Nat /\ v[2] \in Nat
  BY <1>3, Bounds
<1> QED BY <1>1, <1>2, <1>4 DEF SafeInv

\* A replica of the read that the worker is at has the version looked at, and
\* the chunk is one of its.
LEMMA ReplicaStored ==
    ASSUME Typed, KindInv, NEW c \in Client, SafeInv, SnapInv(c), GotInv(c), SourceInv(c), Looking(c),
           work # Idle, work.kind = "GET", work.req = client[c].req,
           NEW r, r = pending_reads[key(work.req)], NEW s \in {r.replicas[1], r.replicas[2]},
           NEW v, v = client[c].snap
    PROVE  /\ v[1] \in Nat /\ v[2] \in Nat /\ work.req.x \in Nat /\ work.req.x < v[2]
           /\ node[s].objects[r.obj] = Stream(v[1], v[2])
<1>1. PICK p : p = client[c].req.p
  OBVIOUS
<1>2. /\ client[c].req \in Req /\ v[1] \in Nat /\ v[2] \in Nat /\ Stored(p, v)
  BY <1>1, LookingStored
<1>3. work.req.job = "READ_CHUNK" /\ key(work.req) \in DOMAIN pending_reads
  BY DEF KindInv, Typed, WaitInv, Awaited
<1>4. work.req.x \in Nat /\ work.req.x < v[2]
  BY <1>2, <1>3, ReqFacts, Bounds DEF GotInv
<1>5. r.obj = meta[p].obj /\ r.replicas = meta[p].replicas
  BY <1>1, <1>3 DEF SourceInv
<1>6. PICK i \in 1..2 : s = meta[p].replicas[i]
  BY <1>5
<1>7. v[2] > 0
  BY <1>2, <1>4
<1>8. node[s].objects[r.obj] = Stream(v[1], v[2])
  BY <1>2, <1>5, <1>6, <1>7 DEF Stored, StoredAt
<1> QED BY <1>2, <1>4, <1>8

\* Nothing but messages to and from storage nodes has changed.
LEMMA SameReads ==
    ASSUME NEW c, UNCHANGED <<client, replies, pending_reads, meta, settled>>,
           SnapInv(c), ResultInv(c), GotInv(c), ToldInv(c), SourceInv(c)
    PROVE  SnapInv(c)' /\ ResultInv(c)' /\ GotInv(c)' /\ ToldInv(c)' /\ SourceInv(c)'
<1>1. SnapInv(c)' /\ ResultInv(c)' /\ GotInv(c)'
  BY DEF SnapInv, ResultInv, GotInv, Looking
<1>2. ToldInv(c)'
  BY DEF ToldInv, Looking, Says
<1>3. SourceInv(c)'
  BY DEF SourceInv, Looking
<1> QED BY <1>1, <1>2, <1>3

\* A storage node asks for nothing.
LEMMA StorageAsked ==
    ASSUME Typed, Typed', NEW s \in Storage, StorageHandle(s) \/ StorageRestart(s), AskedInv
    PROVE  AskedInv'
<1>1. UNCHANGED <<work, pending_reads>>
  BY StorageOnly DEF tables
<1>2. ASSUME NEW x \in Storage, NEW i \in 1..Len(inbox'[x])
      PROVE  \E j \in 1..Len(inbox[x]) : inbox'[x][i] = inbox[x][j]
  <2>1. CASE x # s
    BY <1>2, <2>1, StorageHandled, StorageRestarted
  <2>2. CASE x = s
    <3>1. \E k \in Nat : Shifted(s, k)
      BY StorageHandled, StorageRestarted DEF HandleFacts, RestartFacts
    <3> QED BY <1>2, <2>2, <3>1 DEF Shifted
  <2> QED BY <2>1, <2>2
<1>3. ASSUME NEW m PROVE Matches(m)' <=> Matches(m)
  BY <1>1 DEF Matches
<1>4. PICK r : r = pending_reads[key(work.req)]
  OBVIOUS
<1>5. ASSUME work # Idle, work.kind = "GET", NEW x \in Storage, NEW i \in 1..Len(inbox'[x]),
             NEW m, m = inbox'[x][i], Matches(m)
      PROVE  m.o = r.obj /\ x \in {r.replicas[1], r.replicas[2]}
  BY <1>2, <1>4, <1>5 DEF AskedInv
<1>6. work # Idle /\ work.kind = "GET" =>
        \A i \in 1..Len(work.left) : work.left[i] \in {r.replicas[1], r.replicas[2]}
  BY <1>4 DEF AskedInv
<1> QED BY <1>1, <1>4, <1>5, <1>6 DEF AskedInv, Matches

\* A storage node gives the chunk that was asked for.
LEMMA StorageGiven ==
    ASSUME Typed, Typed', KindInv, NEW c \in Client, AckInv(c), NEW s \in Storage,
           StorageHandle(s) \/ StorageRestart(s), SnapInv(c), GotInv(c), SourceInv(c), AskedInv, GivenInv(c)
    PROVE  GivenInv(c)'
<1>1. UNCHANGED <<client, work, pending_reads>>
  BY StorageOnly DEF clientVars, tables
<1>2. PICK r, v : r = pending_reads[key(work.req)] /\ v = client[c].snap
  OBVIOUS
<1>3. ASSUME Looking(c), work # Idle, work.kind = "GET", work.req = client[c].req,
             NEW x \in Storage, NEW i \in 1..Len(answers'[x]), NEW a, a = answers'[x][i],
             Matches(a), a.status = "Success"
      PROVE  a.data = << <<v[1], work.req.x>> >>
  <2>1. CASE i \in 1..Len(answers[x]) /\ a = answers[x][i]
    BY <1>2, <1>3, <2>1 DEF GivenInv
  <2>2. CASE ~(i \in 1..Len(answers[x]) /\ a = answers[x][i])
    <3>1. x = s /\ StorageHandle(s)
      BY <1>3, <2>2, StorageHandled, StorageRestarted
    <3>2. PICK m : HandleFacts(s, m)
      BY <3>1, StorageHandled
    <3>3. /\ a.id = m.id /\ a.job = m.job /\ a.i = m.i
          /\ \E out \in Outcomes(s, m) : a.status = out.status /\ (m.job = "GET" => a.data = out.data)
      BY <1>3, <2>2, <3>1, <3>2, Zenon DEF HandleFacts
    <3>4. PICK out \in Outcomes(s, m) : a.status = out.status /\ (m.job = "GET" => a.data = out.data)
      BY <3>3
    <3>5. m.job = "GET" /\ m.i = work.req.x /\ Matches(m) /\ m = inbox[s][1] /\ 1 \in 1..Len(inbox[s])
      BY <1>3, <3>2, <3>3 DEF Matches, HandleFacts
    <3>6. m.o = r.obj /\ s \in {r.replicas[1], r.replicas[2]}
      BY <1>2, <1>3, <3>5 DEF AskedInv
    <3>7. /\ v[1] \in Nat /\ v[2] \in Nat /\ work.req.x \in Nat /\ work.req.x < v[2]
          /\ node[s].objects[m.o] = Stream(v[1], v[2])
      BY <1>2, <1>3, <3>6, ReplicaStored DEF AckInv
    <3>8. PICK n, o, x0, u, k : n = node[s] /\ o = m.o /\ x0 = work.req.x /\ u = v[1] /\ k = v[2]
      OBVIOUS
    <3>9. out \in get_chunk(n, o, x0) /\ out.status = "Success"
      BY <1>3, <3>5, <3>8, <3>4 DEF Outcomes
    <3>10. u \in Nat /\ k \in Nat /\ x0 \in Nat /\ x0 < k /\ n.objects[o] = Stream(u, k)
      BY <3>7, <3>8
    <3>11. out.data = << <<u, x0>> >>
      BY <3>9, <3>10, GetGives
    <3> QED BY <3>5, <3>8, <3>4, <3>11
  <2> QED BY <2>1, <2>2
<1> QED BY <1>1, <1>2, <1>3 DEF GivenInv, Looking, Matches

\* What the reads of c rely on, when a storage node takes a step.
LEMMA StorageRead ==
    ASSUME Typed, Typed', KindInv, NEW c \in Client, AckInv(c), NEW s \in Storage,
           StorageHandle(s) \/ StorageRestart(s), ReadInv(c)
    PROVE  ReadInv(c)'
<1>1. UNCHANGED <<client, replies, pending_reads, meta, settled>>
  BY StorageOnly DEF clientVars, store, tables, history
<1>2. OneEpoch' => OneEpoch
  <2>1. StorageRestart(s) => restarts' = [restarts EXCEPT !["storage"] = @ + 1]
    BY DEF StorageRestart, Restart
  <2>2. StorageHandle(s) => restarts' = restarts
    BY DEF StorageHandle
  <2> QED BY <2>1, <2>2 DEF OneEpoch, Typed, MishapsTyped
<1> QED BY <1>1, <1>2, SameReads, StorageAsked, StorageGiven DEF ReadInv

-----------------------------------------------------------------------------
(* Reads: the client *)

\* The next chunk of a version is behind those before it.
LEMMA StreamNext ==
    ASSUME NEW v \in Nat, NEW k \in Nat
    PROVE  Stream(v, k) \o << <<v, k>> >> = Stream(v, k + 1)
<1>1. PICK S, y, q, z : /\ S = Nat \X Int /\ y = <<v, k>>
                        /\ q = Stream(v, k) /\ z = Stream(v, k + 1)
  OBVIOUS
<1>2. y \in S /\ \A i \in 1..(k + 1) : <<v, i - 1>> \in S
  BY <1>1
<1>3. q \in Seq(S) /\ Len(q) = k /\ \A i \in 1..k : q[i] = <<v, i - 1>>
  <2>1. q \in [1..k -> S]
    BY <1>1, <1>2 DEF Stream
  <2> QED BY <1>1, <2>1 DEF Stream
<1>4. z \in Seq(S) /\ Len(z) = k + 1 /\ \A i \in 1..(k + 1) : z[i] = <<v, i - 1>>
  <2>1. z \in [1..(k + 1) -> S]
    BY <1>1, <1>2 DEF Stream
  <2> QED BY <1>1, <2>1 DEF Stream
<1>5. PICK e : e = Append(q, y)
  OBVIOUS
<1>6. e = q \o << y >>
  BY <1>2, <1>3, <1>5, AppendIsConcat
<1>7. e \in Seq(S) /\ Len(e) = k + 1 /\ e[k + 1] = y /\ \A i \in 1..k : e[i] = q[i]
  BY <1>2, <1>3, <1>5, AppendProperties
<1>8. ASSUME NEW i \in 1..(k + 1) PROVE e[i] = z[i]
  <2>1. CASE i \in 1..k
    BY <1>3, <1>4, <1>7, <2>1
  <2>2. CASE i = k + 1
    <3>1. k + 1 \in 1..(k + 1) /\ <<v, k + 1 - 1>> = y
      BY <1>1
    <3>2. z[k + 1] = <<v, k + 1 - 1>>
      BY <1>4, <3>1
    <3> QED BY <1>7, <2>2, <3>1, <3>2
  <2>3. i \in 1..k \/ i = k + 1
    OBVIOUS
  <2> QED BY <2>1, <2>2, <2>3
<1>9. e = z
  BY <1>4, <1>7, <1>8
<1> QED BY <1>1, <1>9, <1>6

\* The client begins an operation; no response and no entry is for it.
LEMMA BeginRead ==
    ASSUME Typed, NEW c \in Client, Client = {c}, AckInv(c), Issue(c), ReadInv(c)
    PROVE  ReadInv(c)'
<1>1. PICK req \in Req :
             /\ client[c].req = NoReq /\ req.id = client[c].id + 1 /\ req.job \notin ChunkJobs
             /\ client'[c].id = req.id /\ client'[c].req = req /\ client'[c].snap = settled[req.p]
             /\ client'[c].got = << >> /\ client'[c].result = None
             /\ req.job \notin Changing => settled' = settled
             /\ UNCHANGED <<replies, work, tables, storageVars, restarts>>
  BY BeginFacts
<1>2. PICK a \in Nat : a = client[c].id
  BY AckTypes
<1>3. UNCHANGED <<replies, work, pending_reads, inbox, answers, restarts>>
  BY <1>1 DEF tables, storageVars
<1>4. /\ work # Idle => work.req \in Req /\ work.req.id \in Nat /\ work.req.id <= a
      /\ \A m \in replies[c] : m.id \in Nat /\ m.id <= a
      /\ req.id = a + 1
  BY <1>1, <1>2, AckTypes DEF AckInv, QueueInv
<1>5. key(req) \notin DOMAIN pending_reads
  <2>1. ASSUME NEW k \in DOMAIN pending_reads PROVE k[2] \in Nat /\ k[2] <= a
    <3>1. k \in Keys
      BY AckTypes
    <3> QED BY <1>1, <1>2, <2>1, <3>1, OneKey DEF AckInv, EntryInv
  <2>2. key(req)[2] = a + 1
    BY <1>4 DEF key
  <2> QED BY <1>2, <2>1, <2>2
<1>6. SnapInv(c)'
  BY <1>1 DEF SnapInv
<1>7. ResultInv(c)' /\ GotInv(c)'
  <2>1. req.job # "READ_CHUNK"
    BY <1>1 DEF ChunkJobs
  <2> QED BY <1>1, <2>1 DEF ResultInv, GotInv
<1>8. ToldInv(c)'
  <2>1. \A m \in replies[c] : m.id # req.id
    BY <1>2, <1>4
  <2> QED BY <1>1, <1>3, <2>1 DEF ToldInv
<1>9. SourceInv(c)'
  BY <1>1, <1>3, <1>5 DEF SourceInv
<1>10. AskedInv => AskedInv'
  BY <1>3 DEF AskedInv, Matches
<1>11. GivenInv(c)'
  <2>1. work # Idle => work.req # req
    BY <1>2, <1>4
  <2> QED BY <1>1, <1>3, <2>1 DEF GivenInv
<1>12. OneEpoch' => OneEpoch
  BY <1>3 DEF OneEpoch
<1> QED BY <1>6, <1>7, <1>8, <1>9, <1>10, <1>11, <1>12 DEF ReadInv

\* What response m to req, with g what has come so far and n its length, says
\* of version v.
Tells(req, m, n, g, v) ==
    /\ req.job = "READ_FILE" => m.n = v[2] /\ g = Stream(v[1], 0)
    /\ req.job = "READ_CHUNK" => n = v[2] /\ g = Stream(v[1], req.x + 1)
    /\ req.job \in {"LIST", "STAT"} => m.type = "FILE"
    /\ req.job = "STAT" => m.n = v[2]

\* A response to the operation that c is in says so.
LEMMA ToldSays ==
    ASSUME Typed, NEW c \in Client, QueueInv(c), SafeInv, SnapInv(c), GotInv(c), ToldInv(c),
           NEW req, req = client[c].req, req # NoReq, NEW m \in replies[c], Answers(m, req),
           m.status = "Success", req.job \notin Changing, NEW v, v = client[c].snap, v # None,
           NEW g, g = client[c].got \o m.data
    PROVE  Tells(req, m, client[c].n, g, v)
<1>1. Looking(c)
  BY DEF Looking
<1>2. m.id = client[c].id
  BY DEF Answers, QueueInv
<1>3. Says(c, m)
  BY <1>1, <1>2 DEF ToldInv
<1>4. v[1] \in Nat /\ v[2] \in Nat /\ req \in Req /\ req.x \in Nat
  <2>1. req \in Req
    BY AckTypes
  <2> QED BY <1>1, <2>1, LookingStored, ReqFacts, Bounds
<1>5. ASSUME req.job = "READ_FILE" PROVE m.n = v[2] /\ g = Stream(v[1], 0)
  <2>1. client[c].got = << >> /\ m.data = << >> /\ m.n = v[2]
    BY <1>1, <1>3, <1>5 DEF GotInv, Says
  <2>2. << >> \o << >> = << >>
    OBVIOUS
  <2>3. Stream(v[1], 0) = << >>
    <3>1. 1..0 = {}
      OBVIOUS
    <3> QED BY <3>1 DEF Stream
  <2> QED BY <2>1, <2>2, <2>3
<1>6. ASSUME req.job = "READ_CHUNK"
      PROVE  client[c].n = v[2] /\ g = Stream(v[1], req.x + 1)
  <2>1. client[c].got = Stream(v[1], req.x) /\ client[c].n = v[2]
    BY <1>1, <1>6 DEF GotInv
  <2>2. m.data = << <<v[1], req.x>> >>
    BY <1>3, <1>6 DEF Says
  <2>3. PICK u, k : u = v[1] /\ k = req.x
    OBVIOUS
  <2>4. Stream(u, k) \o << <<u, k>> >> = Stream(u, k + 1)
    BY <1>4, <2>3, StreamNext
  <2> QED BY <2>1, <2>2, <2>3, <2>4
<1>7. req.job \in {"LIST", "STAT"} => m.type = "FILE"
  BY <1>3 DEF Says
<1>8. req.job = "STAT" => m.n = v[2]
  BY <1>3 DEF Says
<1> QED BY <1>5, <1>6, <1>7, <1>8 DEF Tells

\* The client goes on with its read ...
LEMMA GoOnRead ==
    ASSUME Typed, NEW c \in Client, Client = {c}, AckInv(c), NEW req \in Req, req = client[c].req,
           NEW m \in replies[c], Answers(m, req), replies'[c] = replies[c] \ {m},
           NEW r \in Req, GoesOn(c, req, m, r), client'[c].id = client[c].id,
           client'[c].snap = client[c].snap, UNCHANGED <<work, store, tables, restarts>>, ReadInv(c)
    PROVE  ReadInv(c)'
<1>1. /\ UNCHANGED <<work, meta, pending_reads, settled, restarts>>
      /\ client'[c].req = r /\ client'[c].result = client[c].result
      /\ client'[c].got = client[c].got \o m.data /\ r.p = req.p /\ key(r) = key(req)
      /\ client'[c].n = Counted(req, client[c].n, m) /\ r.x < client'[c].n /\ r.x = Following(req)
      /\ m.status = "Success" /\ req # NoReq
  <2>1. key(r) = key(req)
    BY OneKey DEF GoesOn
  <2> QED BY <2>1, ReqFacts DEF GoesOn, store, tables
<1>2. \/ r.job = "WRITE_CHUNK"
      \/ r.job = "READ_CHUNK" /\ req.job = "READ_FILE" /\ r.x = 0 /\ client'[c].n = m.n
      \/ r.job = "READ_CHUNK" /\ req.job = "READ_CHUNK" /\ r.x = req.x + 1 /\ client'[c].n = client[c].n
  BY DEF GoesOn, ReadJobs, Following, Counted, ChunkJobs
<1>3. /\ "WRITE_CHUNK" \in Changing /\ "READ_CHUNK" \notin Changing /\ "READ_FILE" \notin Changing
  BY DEF Changing
<1>4. SUFFICES ASSUME OneEpoch PROVE ReadInv(c)'
  BY <1>1 DEF ReadInv, OneEpoch
<1>5. SnapInv(c) /\ ResultInv(c) /\ GotInv(c) /\ ToldInv(c) /\ SourceInv(c)
  BY <1>4 DEF ReadInv
<1>6. /\ jobs = << >> /\ work = Idle /\ m.id = client[c].id
      /\ \A l \in replies[c] \ {m} : l.id < client[c].id
  BY <1>1, AnsweredAlone DEF Answers, AckInv, QueueInv
<1>7. SnapInv(c)'
  BY <1>1, <1>2, <1>3, <1>5 DEF SnapInv
<1>8. ResultInv(c)'
  BY <1>1, <1>5 DEF ResultInv
<1>9. GotInv(c)'
  <2>1. PICK v, g : v = client[c].snap /\ g = client[c].got \o m.data
    OBVIOUS
  <2>2. SUFFICES ASSUME r.job = "READ_CHUNK", v # None
                 PROVE  /\ client'[c].got = Stream(v[1], r.x) /\ client'[c].n = v[2] /\ r.x < client'[c].n
    BY <1>1, <1>2, <1>3, <2>1 DEF GotInv, Looking
  <2>3. req.job \notin Changing
    BY <1>2, <1>3, <2>2
  <2>4. Tells(req, m, client[c].n, g, v)
    BY <1>1, <1>5, <2>1, <2>2, <2>3, ToldSays DEF AckInv
  <2> QED BY <1>1, <1>2, <2>1, <2>2, <2>4 DEF Tells
<1>10. ToldInv(c)'
  <2>1. \A l \in replies'[c] : l.id # client'[c].id
    <3>1. client[c].id \in Nat
      BY AckTypes
    <3> QED BY <1>6, <3>1, AckTypes
  <2> QED BY <2>1 DEF ToldInv
<1>11. SourceInv(c)'
  BY <1>1, <1>2, <1>3, <1>5 DEF SourceInv, Looking
<1>12. AskedInv' /\ GivenInv(c)'
  BY <1>1, <1>6 DEF AskedInv, GivenInv
<1> QED BY <1>7, <1>8, <1>9, <1>10, <1>11, <1>12 DEF ReadInv

\* ... or leaves it: what it has been given so far is right.
LEMMA LeaveRead ==
    ASSUME NEW c, client'[c].req = NoReq, OneEpoch' => OneEpoch, OneEpoch => ResultInv(c)',
           UNCHANGED <<work, pending_reads, inbox>>, ReadInv(c)
    PROVE  ReadInv(c)'
<1>1. ~Looking(c)'
  BY DEF Looking
<1>2. AskedInv => AskedInv'
  BY DEF AskedInv, Matches
<1> QED BY <1>1, <1>2 DEF ReadInv, SnapInv, GotInv, ToldInv, SourceInv, GivenInv

\* What the caller is given is the version looked at.
LEMMA ResultRight ==
    ASSUME Typed, NEW c \in Client, QueueInv(c), SafeInv, SnapInv(c), GotInv(c), ToldInv(c),
           NEW req \in Req, req = client[c].req, NEW m \in replies[c], Answers(m, req),
           m.status = "Success", req.job \in ReadJobs => Following(req) = Counted(req, client[c].n, m),
           client'[c].snap = client[c].snap,
           client'[c].result = Result(req, m, client[c].got \o m.data)
    PROVE  ResultInv(c)'
<1>1. PICK v, d, g : v = client[c].snap /\ d = client'[c].result /\ g = client[c].got \o m.data
  OBVIOUS
<1>2. SUFFICES ASSUME d # None, v # None
               PROVE  /\ "content" \in DOMAIN d => d.content = Stream(v[1], v[2])
                      /\ "type" \in DOMAIN d => d.type = "FILE"
                      /\ "size" \in DOMAIN d => d.size = v[2]
  BY <1>1 DEF ResultInv
<1>3. \/ req.job \in {"READ_FILE", "READ_CHUNK"} /\ d = [path |-> req.p, content |-> g]
      \/ req.job = "LIST" /\ d = [path |-> req.p, type |-> m.type]
      \/ req.job = "STAT" /\ d = [path |-> req.p, type |-> m.type, size |-> m.n]
  BY <1>1, <1>2 DEF Result
<1>4. req.job \notin Changing /\ req # NoReq
  BY <1>3, ReqFacts DEF Changing
<1>5. Tells(req, m, client[c].n, g, v)
  BY <1>1, <1>2, <1>4, ToldSays
<1>6. /\ req.job = "READ_FILE" => m.n = v[2] /\ g = Stream(v[1], 0)
      /\ req.job = "READ_CHUNK" => client[c].n = v[2] /\ g = Stream(v[1], req.x + 1)
      /\ req.job \in {"LIST", "STAT"} => m.type = "FILE"
      /\ req.job = "STAT" => m.n = v[2]
  BY <1>5 DEF Tells
<1>7. CASE req.job = "READ_FILE"
  <2>1. 0 = v[2]
    BY <1>6, <1>7 DEF ReadJobs, Following, Counted, ChunkJobs
  <2> QED BY <1>3, <1>6, <1>7, <2>1
<1>8. CASE req.job = "READ_CHUNK"
  <2>1. req.x + 1 = v[2]
    BY <1>6, <1>8 DEF ReadJobs, Following, Counted, ChunkJobs
  <2> QED BY <1>3, <1>6, <1>8, <2>1
<1>9. CASE req.job \in {"LIST", "STAT"}
  BY <1>3, <1>6, <1>9
<1> QED BY <1>3, <1>7, <1>8, <1>9

\* A client takes a response.
LEMMA ReceiveRead ==
    ASSUME Typed, Typed', NEW c \in Client, Client = {c}, AckInv(c), ClientReceive(c), ReadInv(c)
    PROVE  ReadInv(c)'
<1>1. PICK req : req = client[c].req
  OBVIOUS
<1>2. /\ req \in Req /\ req # NoReq /\ client'[c].id = client[c].id
      /\ client'[c].snap = client[c].snap
      /\ UNCHANGED <<work, store, tables, restarts, storageVars>>
  BY <1>1, ReceiveFacts, ReqFacts
<1>3. PICK m \in replies[c] :
        /\ Answers(m, req) /\ replies'[c] = replies[c] \ {m}
        /\ Concludes(c, req, m) \/ \E r \in Req : GoesOn(c, req, m, r)
  BY <1>1, ReceiveFacts
<1>4. ASSUME NEW r \in Req, GoesOn(c, req, m, r) PROVE ReadInv(c)'
  BY <1>1, <1>2, <1>3, <1>4, GoOnRead
<1>5. ASSUME Concludes(c, req, m) PROVE ReadInv(c)'
  <2>1. client'[c].req = NoReq /\ UNCHANGED <<work, pending_reads, inbox>> /\ (OneEpoch' => OneEpoch)
    BY <1>2, <1>5 DEF Concludes, tables, storageVars, OneEpoch
  <2>2. ASSUME OneEpoch PROVE ResultInv(c)'
    <3>1. SnapInv(c) /\ ResultInv(c) /\ GotInv(c) /\ ToldInv(c) /\ QueueInv(c) /\ SafeInv
      BY <2>2 DEF ReadInv, AckInv
    <3>2. CASE client'[c].result = client[c].result
      BY <1>2, <3>1, <3>2 DEF ResultInv
    <3>3. CASE /\ m.status = "Success"
               /\ client'[c].result = Result(req, m, client[c].got \o m.data)
               /\ req.job \in ReadJobs => Following(req) = Counted(req, client[c].n, m)
      BY <1>1, <1>2, <1>3, <3>1, <3>3, ResultRight
    <3> QED BY <1>5, <3>2, <3>3 DEF Concludes
  <2> QED BY <2>1, <2>2, LeaveRead
<1> QED BY <1>3, <1>4, <1>5

\* A client gives up.
LEMMA TimeoutRead ==
    ASSUME Typed, NEW c \in Client, ClientTimeout(c), ReadInv(c)
    PROVE  ReadInv(c)'
<1>1. /\ client'[c].req = NoReq /\ client'[c].snap = client[c].snap
      /\ client'[c].result = client[c].result
      /\ UNCHANGED <<work, pending_reads, inbox, restarts>>
  BY TimeoutFacts DEF tables, storageVars
<1>2. OneEpoch => ResultInv(c)'
  BY <1>1 DEF ReadInv, ResultInv
<1> QED BY <1>1, <1>2, LeaveRead DEF OneEpoch

\* Heartbeats come and expire, or nothing happens.
LEMMA ElsewhereRead ==
    ASSUME NEW c, ReadInv(c),
           UNCHANGED <<client, replies, work, meta, pending_reads, inbox, answers, settled, restarts>>
    PROVE  ReadInv(c)'
<1>1. AskedInv => AskedInv'
  BY DEF AskedInv, Matches
<1>2. GivenInv(c) => GivenInv(c)'
  BY DEF GivenInv, Looking, Matches
<1>3. OneEpoch' => OneEpoch
  BY DEF OneEpoch
<1> QED BY <1>1, <1>2, <1>3, SameReads DEF ReadInv

\* At first there is nothing to read.
LEMMA InitRead == ASSUME Init, NEW c \in Client PROVE ReadInv(c)
<1>1. work = Idle /\ client[c].req = NoReq /\ client[c].result = None
  BY DEF Init
<1> QED BY <1>1 DEF ReadInv, SnapInv, ResultInv, GotInv, Looking, ToldInv, SourceInv, AskedInv, GivenInv

-----------------------------------------------------------------------------
(* Reads: the worker *)

\* What the worker waits for from now on.
LEMMA WaitFacts ==
    ASSUME NEW kind, NEW req, NEW id, NEW left, Wait(kind, req, id, left)
    PROVE  work' # Idle /\ work'.kind = kind /\ work'.req = req /\ work'.id = id /\ work'.left = left
<1>1. work' = [kind |-> kind, req |-> req, id |-> id, left |-> left, ok |-> TRUE]
  BY DEF Wait
<1>2. DOMAIN work' = {"kind", "req", "id", "left", "ok"} /\ DOMAIN Idle = {"kind"}
  BY <1>1 DEF Idle
<1> QED BY <1>1, <1>2

\* One of the replicas in left is asked, under a number of its own.
AskedOne(req, left) ==
    /\ work'.req = req /\ work'.id = sid + 1 /\ pending_reads' = pending_reads
    /\ \A i \in 1..Len(work'.left) : \E j \in 1..Len(left) : work'.left[i] = left[j]
    /\ \E j \in 1..Len(left) : \E msg :
          /\ msg.o = pending_reads[key(req)].obj
          /\ inbox' = [inbox EXCEPT ![left[j]] = Append(inbox[left[j]], msg)]

\* So it is when a GET goes on with the replicas in left.
LEMMA AskedNext ==
    ASSUME Typed, NEW req, NEW left \in Seq(Storage), AskNext(req, left), work' # Idle
    PROVE  AskedOne(req, left)
<1>1. PICK i \in 1..Len(left) :
        /\ sid' = sid + 1
        /\ inbox' = [inbox EXCEPT ![left[i]] = Append(inbox[left[i]],
               StorageRequest(sid', "GET", pending_reads[key(req)].obj, req.x, FALSE, << >>))]
        /\ Wait("GET", req, sid', SubSeq(left, i, Len(left)))
        /\ pending_reads' = pending_reads
  BY DEF AskNext
<1>2. PICK q, id : q = SubSeq(left, i, Len(left)) /\ id = sid'
  OBVIOUS
<1>3. work'.req = req /\ work'.id = sid + 1 /\ work'.left = q
  <2>1. Wait("GET", req, id, q)
    BY <1>1, <1>2
  <2>2. work'.req = req /\ work'.id = id /\ work'.left = q
    BY <2>1, WaitFacts
  <2> QED BY <1>1, <1>2, <2>2
<1>4. ASSUME NEW h \in 1..Len(q) PROVE \E j \in 1..Len(left) : q[h] = left[j]
  <2>1. PICK n \in Nat : n = Len(left)
    BY LenProperties
  <2>2. PICK S : S = {left[l] : l \in 1..n}
    OBVIOUS
  <2>3. \A j \in i..n : left[j] \in S
    BY <2>1, <2>2
  <2>4. q \in Seq(S)
    BY <1>2, <2>1, <2>3, SubSeqProperties
  <2>5. q[h] \in S
    BY <2>4, ElementOfSeq
  <2> QED BY <2>1, <2>2, <2>5
<1>5. PICK msg : msg = StorageRequest(sid', "GET", pending_reads[key(req)].obj, req.x, FALSE, << >>)
  OBVIOUS
<1>6. msg.o = pending_reads[key(req)].obj
  BY <1>5 DEF StorageRequest
<1> QED BY <1>1, <1>3, <1>4, <1>5, <1>6 DEF AskedOne

\* The worker asks nobody but the replicas of the entry.
OfEntry(req, left) ==
    LET r == pending_reads[key(req)] IN
    \A i \in 1..Len(left) : left[i] \in {r.replicas[1], r.replicas[2]}

\* A worker that waits for a GET has asked one of them.
LEMMA AsksReplicas ==
    ASSUME Typed, WorkerHandle \/ WorkerReceive \/ WorkerTimeout, AskedInv, work' # Idle, work'.kind = "GET"
    PROVE  \E req : \E left \in Seq(Storage) : AskedOne(req, left) /\ OfEntry(req, left)
<1>1. CASE WorkerHandle
  <2>1. work = Idle
    BY <1>1 DEF WorkerHandle, HandleCreateFile, HandleWriteFile, HandleWriteChunk, HandleReadFile,
          HandleReadChunk, HandleRemove, HandleRename, HandleMakeDir, HandleList, HandleStat, Taking
  <2>2. ~HandleWriteChunk
    <3>1. SUFFICES ASSUME HandleWriteChunk PROVE FALSE
      OBVIOUS
    <3>2. PICK req, left : work' = work \/ Wait("PUT", req, req.id, left)
      BY <3>1 DEF HandleWriteChunk
    <3> QED BY <2>1, <3>2, WaitFacts
  <2>3. ~HandleRemove
    <3>1. SUFFICES ASSUME HandleRemove PROVE FALSE
      OBVIOUS
    <3>2. PICK req, left, id : work' = work \/ Wait("DELETE", req, id, left)
      BY <3>1 DEF HandleRemove
    <3> QED BY <2>1, <3>2, WaitFacts
  <2>4. HandleReadChunk
    BY <1>1, <2>1, <2>2, <2>3 DEF WorkerHandle, HandleCreateFile, HandleWriteFile, HandleReadFile,
          HandleRename, HandleMakeDir, HandleList, HandleStat
  <2>5. PICK req, r : req = Head(jobs) /\ r = pending_reads[key(req)]
    OBVIOUS
  <2>6. key(req) \in DOMAIN pending_reads /\ AskNext(req, r.replicas)
    BY <2>1, <2>4, <2>5 DEF HandleReadChunk
  <2>7. r.replicas \in Pair /\ r.replicas \in Seq(Storage) /\ Len(r.replicas) = 2
    <3>1. r.replicas \in Pair
      BY <2>5, <2>6, PendingFacts DEF Typed
    <3> QED BY <3>1, PairFacts
  <2>8. OfEntry(req, r.replicas)
    BY <2>5, <2>7 DEF OfEntry
  <2> QED BY <2>6, <2>7, <2>8, AskedNext
<1>2. CASE WorkerReceive \/ WorkerTimeout
  <2>1. work # Idle /\ \E ok, data : Proceed(ok, data)
    BY <1>2 DEF WorkerReceive, WorkerTimeout
  <2>2. PICK ok, data : Proceed(ok, data)
    BY <2>1
  <2>3. PICK rest : rest = Tail(work.left)
    OBVIOUS
  <2>4. work \in Work /\ work.left \in Seq(Storage) /\ work.left # << >>
    BY <2>1, WorkFacts DEF Typed
  <2>5. work.kind = "GET" /\ AskNext(work.req, rest)
    <3>1. work.kind \in {"PUT", "DELETE"} => work' # [work EXCEPT !.left = rest, !.ok = AllOk(ok)]
      BY <2>4 DEF Work
    <3> QED BY <2>2, <2>3, <3>1 DEF Proceed, StillLeft
  <2>6. rest \in Seq(Storage) /\ \A i \in 1..Len(rest) : \E j \in 1..Len(work.left) : rest[i] = work.left[j]
    <3>1. PICK n \in Nat : n = Len(work.left) /\ n >= 1
      BY <2>4, LenProperties, EmptySeq
    <3>2. rest \in Seq(Storage) /\ Len(rest) = n - 1 /\ \A i \in 1..(n - 1) : rest[i] = work.left[i + 1]
      BY <2>3, <2>4, <3>1, HeadTailProperties
    <3>3. \A i \in 1..(n - 1) : i + 1 \in 1..n
      BY <3>1
    <3> QED BY <3>1, <3>2, <3>3
  <2>7. OfEntry(work.req, rest)
    BY <2>1, <2>5, <2>6 DEF AskedInv, OfEntry
  <2> QED BY <2>5, <2>6, <2>7, AskedNext
<1> QED BY <1>1, <1>2

\* Nothing else that is under way has the new number.
LEMMA WorkAsked ==
    ASSUME Typed, Typed', WorkerHandle \/ WorkerReceive \/ WorkerTimeout, AskedInv, SidInv
    PROVE  AskedInv'
<1>1. SUFFICES ASSUME work' # Idle, work'.kind = "GET" PROVE AskedInv'
  BY DEF AskedInv
<1>2. PICK req, left : left \in Seq(Storage) /\ AskedOne(req, left) /\ OfEntry(req, left)
  BY <1>1, AsksReplicas
<1>3. PICK r : r = pending_reads[key(req)]
  OBVIOUS
<1>4. \A i \in 1..Len(work'.left) : work'.left[i] \in {r.replicas[1], r.replicas[2]}
  BY <1>2, <1>3 DEF AskedOne, OfEntry
<1>5. ASSUME NEW s \in Storage, NEW i \in 1..Len(inbox'[s]), NEW m, m = inbox'[s][i], Matches(m)'
      PROVE  m.o = r.obj /\ s \in {r.replicas[1], r.replicas[2]}
  <2>1. PICK j, msg : /\ j \in 1..Len(left) /\ msg.o = r.obj
                      /\ inbox' = [inbox EXCEPT ![left[j]] = Append(inbox[left[j]], msg)]
    BY <1>2, <1>3 DEF AskedOne
  <2>2. m.job = "GET" /\ m.id = sid + 1
    BY <1>1, <1>2, <1>5 DEF Matches, AskedOne
  <2>3. inbox \in [Storage -> Seq(StorageRequests)] /\ sid \in Nat
    BY DEF Typed, StorageTyped, WorkTyped
  <2>4. ~\E h \in 1..Len(inbox[s]) : m = inbox[s][h]
    <3>1. \A h \in 1..Len(inbox[s]) : inbox[s][h].job # "PUT" => inbox[s][h].id <= sid
      BY DEF SidInv
    <3> QED BY <2>2, <2>3, <3>1
  <2>5. s = left[j]
    <3>1. s # left[j] => inbox'[s] = inbox[s]
      BY <2>1, <2>3
    <3> QED BY <1>5, <2>4, <3>1
  <2>6. PICK q : q = inbox[s] /\ q \in Seq(StorageRequests) /\ inbox'[s] = Append(q, msg)
    BY <2>1, <2>3, <2>5
  <2>7. PICK n \in Nat : n = Len(q)
    BY <2>6, LenProperties
  <2>8. Len(inbox'[s]) = n + 1 /\ inbox'[s][n + 1] = msg /\ \A h \in 1..n : inbox'[s][h] = q[h]
    BY <2>6, <2>7
  <2>9. i \in 1..n \/ i = n + 1
    BY <1>5, <2>7, <2>8
  <2>10. m = msg
    BY <1>5, <2>4, <2>6, <2>7, <2>8, <2>9
  <2>11. s \in {r.replicas[1], r.replicas[2]}
    BY <1>2, <1>3, <2>1, <2>5 DEF OfEntry
  <2> QED BY <2>1, <2>10, <2>11
<1>6. r = pending_reads'[key(work'.req)]
  BY <1>2, <1>3 DEF AskedOne
<1> QED BY <1>4, <1>5, <1>6 DEF AskedInv, Matches

\* Nobody has answered it yet.
LEMMA WorkGiven ==
    ASSUME Typed, NEW c \in Client, WorkerHandle \/ WorkerReceive \/ WorkerTimeout, AskedInv, SidInv, AnswersStep
    PROVE  GivenInv(c)'
<1>1. SUFFICES ASSUME work' # Idle, work'.kind = "GET", NEW s \in Storage, NEW i \in 1..Len(answers'[s]),
                      NEW a, a = answers'[s][i], Matches(a)'
               PROVE  FALSE
  BY DEF GivenInv, Matches
<1>2. PICK req, left : left \in Seq(Storage) /\ AskedOne(req, left)
  BY <1>1, AsksReplicas
<1>3. a.job = "GET" /\ a.id = sid + 1
  BY <1>1, <1>2 DEF Matches, AskedOne
<1>4. PICK j \in 1..Len(answers[s]) : a = answers[s][j]
  BY <1>1 DEF AnswersStep
<1>5. a.id <= sid /\ sid \in Nat
  BY <1>3, <1>4 DEF SidInv, Typed, WorkTyped
<1> QED BY <1>3, <1>5

\* A success of READ_FILE tells the size of the version looked at ...
LEMMA ReadFileSays ==
    ASSUME Typed, NEW c \in Client, Client = {c}, QueueInv(c), HandleReadFile, NEW req, req = Head(jobs),
           NEW v, Stored(req.p, v), NEW m \in replies'[c], m.id = req.id, m.status = "Success"
    PROVE  m.n = v[2] /\ m.data = << >>
<1>1. Serving(req)
  BY TakenServed DEF HandleReadFile
<1>2. ~respond(req, "ServerError")
  BY <1>1, RespondStatus
<1>3. meta[req.p].size = v[2]
  BY DEF Stored
<1>4. PICK n, data : n = v[2] /\ data = << >>
  OBVIOUS
<1>5. Reply(req, "Success", n, data)
  BY <1>2, <1>3, <1>4 DEF HandleReadFile
<1>6. m.n = n /\ m.data = data
  BY <1>1, <1>5, SentStatus DEF Reply
<1> QED BY <1>4, <1>6

\* ... one of READ_CHUNK carries what a replica gave ...
LEMMA ReadChunkSays ==
    ASSUME Typed, KindInv, NEW c \in Client, Client = {c}, QueueInv(c),
           WorkerHandle \/ WorkerReceive \/ WorkerTimeout, NEW req, Serving(req), req = client[c].req,
           req.job = "READ_CHUNK", work' = Idle, Looking(c), GivenInv(c),
           NEW m \in replies'[c], m.id = req.id, m.status = "Success", NEW v, v = client[c].snap
    PROVE  m.data = << <<v[1], req.x>> >>
<1>1. ~respond(req, "ServerError") /\ ~respond(req, "InputError")
  BY RespondStatus
<1>2. ASSUME NEW r, NEW left, r = req PROVE ~AskNext(r, left)
  <2>1. ASSUME NEW i, Wait("GET", r, sid', SubSeq(left, i, Len(left))) PROVE FALSE
    <3>1. PICK q, id : q = SubSeq(left, i, Len(left)) /\ id = sid'
      OBVIOUS
    <3>2. Wait("GET", r, id, q)
      BY <2>1, <3>1
    <3> QED BY <3>2, WaitFacts
  <2> QED BY <1>1, <1>2, <2>1 DEF AskNext
<1>3. WorkerReceive \/ WorkerTimeout
  <2>1. SUFFICES ASSUME WorkerHandle PROVE FALSE
    OBVIOUS
  <2>2. work = Idle
    BY <2>1 DEF WorkerHandle, HandleCreateFile, HandleWriteFile, HandleWriteChunk, HandleReadFile,
          HandleReadChunk, HandleRemove, HandleRename, HandleMakeDir, HandleList, HandleStat, Taking
  <2>3. req = Head(jobs)
    BY <2>2 DEF Serving
  <2>4. HandleReadChunk
    BY <2>1, <2>3 DEF WorkerHandle, HandleCreateFile, HandleWriteFile, HandleWriteChunk, HandleReadFile,
          HandleRemove, HandleRename, HandleMakeDir, HandleList, HandleStat, Taking
  <2> QED BY <1>1, <1>2, <2>3, <2>4 DEF HandleReadChunk
<1>4. work # Idle /\ work.req = req
  BY <1>3, ServedFirst DEF WorkerReceive, WorkerTimeout
<1>5. work.kind = "GET"
  BY <1>4 DEF KindInv
<1>6. ASSUME NEW ok, NEW data, Proceed(ok, data) PROVE ok /\ FinishGet(data)
  BY <1>2, <1>4, <1>5, <1>6 DEF Proceed
<1>7. ~Proceed(FALSE, << >>)
  <2>1. PICK ok, data : ok = FALSE /\ data = << >>
    OBVIOUS
  <2>2. ~Proceed(ok, data)
    BY <1>6, <2>1
  <2> QED BY <2>1, <2>2
<1>8. WorkerReceive
  BY <1>3, <1>7 DEF WorkerTimeout
<1>9. PICK s, i, a, ok : /\ s = Head(work.left) /\ i \in 1..Len(answers[s]) /\ a = answers[s][i]
                         /\ Matches(a) /\ (ok => a.status = "Success") /\ Proceed(ok, a.data)
  BY <1>8 DEF WorkerReceive
<1>10. ok /\ FinishGet(a.data)
  BY <1>6, <1>9
<1>11. s \in Storage
  BY <1>4, <1>9, WorkFacts, HeadTailProperties DEF Typed
<1>12. a.data = << <<v[1], req.x>> >>
  BY <1>4, <1>5, <1>9, <1>10, <1>11 DEF GivenInv
<1>13. PICK data, n : data = a.data /\ n = 0
  OBVIOUS
<1>14. Reply(req, "Success", n, data)
  BY <1>4, <1>10, <1>13 DEF FinishGet
<1>15. m.data = data
  BY <1>14, SentStatus DEF Reply
<1> QED BY <1>12, <1>13, <1>15

\* ... and LIST and STAT know a file and its size.
LEMMA LookSays ==
    ASSUME Typed, NEW c \in Client, Client = {c}, QueueInv(c), HandleList \/ HandleStat,
           NEW req, req = Head(jobs),
           NEW v, Stored(req.p, v), NEW m \in replies'[c], m.id = req.id, m.status = "Success"
    PROVE  m.type = "FILE" /\ (req.job = "STAT" => m.n = v[2])
<1>1. Serving(req)
  BY TakenServed DEF HandleList, HandleStat
<1>2. ~respond(req, "ServerError") /\ ~respond(req, "InputError")
  BY <1>1, RespondStatus
<1>3. req.p \in DOMAIN meta /\ meta[req.p].size = v[2] /\ req.p \notin dirs /\ exists(req.p)
  BY DEF Stored, Typed, StoreOk, exists
<1>4. CASE HandleList
  <2>1. PICK type, n, data : type = TypeOf(req.p) /\ n = 0 /\ data = << >>
    OBVIOUS
  <2>2. Send(req, "Success", type, n, data) /\ req.job = "LIST"
    BY <1>2, <1>4, <2>1 DEF HandleList, Taking
  <2>3. m.type = type
    BY <1>1, <2>2, SentStatus
  <2>4. type = "FILE"
    BY <1>3, <2>1 DEF TypeOf
  <2> QED BY <2>2, <2>3, <2>4
<1>5. CASE HandleStat
  <2>1. PICK type, n, data : type = "FILE" /\ n = v[2] /\ data = << >>
    OBVIOUS
  <2>2. Send(req, "Success", type, n, data)
    BY <1>2, <1>3, <1>5, <2>1 DEF HandleStat
  <2>3. m.type = type /\ m.n = n
    BY <1>1, <2>2, SentStatus
  <2> QED BY <2>1, <2>3
<1> QED BY <1>4, <1>5

\* What a new response says is so.
LEMMA WorkTold ==
    ASSUME Typed, Typed', KindInv, NEW c \in Client, Client = {c}, QueueInv(c), SafeInv, SnapInv(c), ToldInv(c),
           GivenInv(c), WorkerHandle \/ WorkerReceive \/ WorkerTimeout, NEW req, WorkStep(req)
    PROVE  ToldInv(c)'
<1>1. client' = client /\ Serving(req)
  BY DEF WorkStep
<1>2. PICK C, v : C = client[c] /\ v = C.snap
  OBVIOUS
<1>3. SUFFICES ASSUME Looking(c), NEW m \in replies'[c], m.id = C.id, m.status = "Success"
               PROVE  Says(c, m)
  BY <1>1, <1>2 DEF ToldInv, Looking, Says
<1>4. CASE m \in replies[c]
  BY <1>2, <1>3, <1>4 DEF ToldInv
<1>5. CASE m \notin replies[c]
  <2>1. work' = Idle
    BY <1>3, <1>5, RepliesStep
  <2>2. PICK a : ResponseTo(a, req) /\ replies'[c] = replies[c] \cup {a}
    BY <2>1, RepliesStep
  <2>3. m.id = req.id
    BY <1>3, <1>5, <2>2 DEF ResponseTo
  <2>4. C.req = req /\ (work # Idle => work.req = req)
    <3>1. C.req # NoReq /\ C.req.id = req.id
      BY <1>2, <1>3, <2>3 DEF QueueInv, Looking
    <3>2. client[c].req # NoReq /\ client[c].req.id = req.id => client[c].req = req
      BY <1>1, ServedFirst
    <3>3. work # Idle => work.req = req
      BY <1>1, ServedFirst
    <3> QED BY <1>2, <3>1, <3>2, <3>3
  <2>5. PICK p : p = req.p
    OBVIOUS
  <2>6. Stored(p, v)
    BY <1>2, <1>3, <2>4, <2>5, LookingStored
  <2>7. ASSUME req.job # "READ_CHUNK"
        PROVE  work = Idle /\ req = Head(jobs) /\ WorkerHandle
    <3>1. req.job \notin Changing
      BY <1>2, <1>3, <2>4 DEF Looking
    <3>2. work = Idle
      BY <2>4, <2>7, <3>1 DEF KindInv, Changing
    <3> QED BY <1>1, <3>2 DEF Serving, WorkerReceive, WorkerTimeout
  <2>8. ASSUME req.job = "READ_FILE" PROVE m.n = v[2] /\ m.data = << >>
    <3>1. HandleReadFile
      BY <2>7, <2>8 DEF WorkerHandle, HandleCreateFile, HandleWriteFile, HandleWriteChunk, HandleReadChunk,
            HandleRemove, HandleRename, HandleMakeDir, HandleList, HandleStat, Taking
    <3> QED BY <1>3, <2>3, <2>5, <2>6, <2>7, <2>8, <3>1, ReadFileSays
  <2>9. ASSUME req.job \in {"LIST", "STAT"} PROVE m.type = "FILE" /\ (req.job = "STAT" => m.n = v[2])
    <3>1. HandleList \/ HandleStat
      BY <2>7, <2>9 DEF WorkerHandle, HandleCreateFile, HandleWriteFile, HandleWriteChunk, HandleReadFile,
            HandleReadChunk, HandleRemove, HandleRename, HandleMakeDir, Taking
    <3> QED BY <1>3, <2>3, <2>5, <2>6, <2>7, <2>9, <3>1, LookSays
  <2>10. ASSUME req.job = "READ_CHUNK" PROVE m.data = << <<v[1], req.x>> >>
    BY <1>1, <1>2, <1>3, <2>1, <2>3, <2>4, <2>10, ReadChunkSays
  <2> QED BY <1>2, <2>4, <2>8, <2>9, <2>10 DEF Says
<1> QED BY <1>4, <1>5

\* The file of the path looked at stays as it is.
LEMMA WorkSource ==
    ASSUME Typed, Typed', NEW c \in Client, Client = {c}, AckInv(c), SnapInv(c), SourceInv(c),
           NEW req, WorkStep(req)
    PROVE  SourceInv(c)'
<1>1. client' = client /\ Serving(req) /\ ReadsStep(req) /\ FilesStep(req)
  BY DEF WorkStep
<1>2. PICK R, p, k : R = client[c].req /\ p = R.p /\ k = key(R)
  OBVIOUS
<1>3. SUFFICES ASSUME Looking(c), k \in DOMAIN pending_reads'
               PROVE  pending_reads'[k].obj = meta'[p].obj /\ pending_reads'[k].replicas = meta'[p].replicas
  BY <1>1, <1>2 DEF SourceInv, Looking
<1>4. R \in Req /\ R # NoReq /\ p \in Path
  BY <1>2, <1>3, LookingStored DEF AckInv, Looking
<1>5. settled[p] # None /\ p \in DOMAIN meta
  <2>1. settled[p] # None
    BY <1>2, <1>3 DEF Looking, SnapInv
  <2>2. SafeInv
    BY DEF AckInv
  <2> QED BY <1>4, <2>1, <2>2 DEF SafeInv, Stored
<1>6. req \in Req /\ req \in Active(c) /\ (R.id = req.id => R = req)
  BY <1>1, <1>2, <1>4, ServedFirst DEF AckInv
<1>7. meta'[p] = meta[p]
  <2>1. ~Touches(req, p)
    BY <1>5, <1>6 DEF AckInv, ChangeInv, Touches
  <2> QED BY <1>1, <1>5, <2>1 DEF FilesStep
<1>8. CASE k # key(req)
  <2>1. k \in DOMAIN pending_reads /\ pending_reads'[k] = pending_reads[k]
    BY <1>1, <1>3, <1>8 DEF ReadsStep
  <2> QED BY <1>2, <1>3, <1>7, <2>1 DEF SourceInv
<1>9. CASE k = key(req)
  <2>1. R = req
    <3>1. R.id = req.id
      <4>1. key(R)[2] = R.id /\ key(req)[2] = req.id
        BY DEF key
      <4> QED BY <1>2, <1>9, <4>1
    <3> QED BY <1>6, <3>1
  <2>2. CASE k \in DOMAIN pending_reads /\ pending_reads'[k].obj = pending_reads[k].obj
             /\ pending_reads'[k].replicas = pending_reads[k].replicas
    BY <1>2, <1>3, <1>7, <2>2 DEF SourceInv
  <2>3. CASE pending_reads'[k].obj = meta[p].obj /\ pending_reads'[k].replicas = meta[p].replicas
    BY <1>7, <2>3
  <2> QED BY <1>1, <1>2, <1>3, <1>9, <2>1, <2>2, <2>3 DEF ReadsStep
<1> QED BY <1>8, <1>9

\* What the reads of c rely on, when the worker takes a step.
LEMMA WorkRead ==
    ASSUME Typed, Typed', Ids, KindInv, NEW c \in Client, Client = {c}, AckInv(c), OrphanInv,
           WorkerHandle \/ WorkerReceive \/ WorkerTimeout, ReadInv(c)
    PROVE  ReadInv(c)'
<1>1. PICK req \in Req : WorkStep(req)
  BY WorkerShape DEF AckInv
<1>2. UNCHANGED <<client, settled, restarts>> /\ AnswersStep
  BY <1>1 DEF WorkStep, history
<1>3. SUFFICES ASSUME OneEpoch PROVE ReadInv(c)'
  BY <1>2 DEF ReadInv, OneEpoch
<1>4. /\ SnapInv(c) /\ ResultInv(c) /\ GotInv(c) /\ ToldInv(c) /\ SourceInv(c)
      /\ AskedInv /\ GivenInv(c) /\ SidInv /\ QueueInv(c) /\ SafeInv
  BY <1>3 DEF ReadInv, OrphanInv, EpochInv, AckInv
<1>5. SnapInv(c)' /\ ResultInv(c)' /\ GotInv(c)'
  BY <1>2, <1>4 DEF SnapInv, ResultInv, GotInv, Looking
<1>6. ToldInv(c)' /\ SourceInv(c)'
  BY <1>1, <1>4, WorkTold, WorkSource
<1>7. AskedInv' /\ GivenInv(c)'
  BY <1>2, <1>4, WorkAsked, WorkGiven
<1> QED BY <1>5, <1>6, <1>7 DEF ReadInv

\* A metadata node that has died ends the epoch.
LEMMA MetadataRestartRead ==
    ASSUME Typed, MetadataRestart, NEW c
    PROVE  ReadInv(c)'
<1>1. restarts' = [restarts EXCEPT !["metadata"] = @ + 1]
  BY DEF MetadataRestart, Restart
<1>2. restarts.metadata \in Nat /\ restarts'.metadata = restarts.metadata + 1
  BY <1>1, Bounds DEF Typed, MishapsTyped
<1>3. ~OneEpoch'
  BY <1>2 DEF OneEpoch
<1> QED BY <1>3 DEF ReadInv

-----------------------------------------------------------------------------
(* Reads: the theorems *)

\* What is read of a path is so in every reachable state, as long as the
\* metadata node has not died.
THEOREM ReadInvariant ==
    ASSUME OneProcess
    PROVE  Spec => [](\A c \in Client : ReadInv(c))
<1>1. Init => \A c \in Client : ReadInv(c)
  BY InitRead
<1>2. Typed /\ Typed' /\ Ids /\ KindInv /\ (\A c \in Client : AckInv(c)) /\ OrphanInv
      /\ (\A c \in Client : ReadInv(c)) /\ [Next]_vars => (\A c \in Client : ReadInv(c))'
  <2> SUFFICES ASSUME Typed, Typed', Ids, KindInv, \A c \in Client : AckInv(c), OrphanInv,
                      \A c \in Client : ReadInv(c), [Next]_vars
               PROVE  \A c \in Client : ReadInv(c)'
    OBVIOUS
  <2>1. PICK c \in Client : Client = {c}
    BY DEF OneProcess
  <2>2. AckInv(c) /\ ReadInv(c)
    OBVIOUS
  <2>3. CASE WorkerHandle \/ WorkerReceive \/ WorkerTimeout
    BY <2>1, <2>2, <2>3, WorkRead
  <2>4. CASE MetadataRestart
    BY <2>4, MetadataRestartRead
  <2>5. ASSUME NEW s \in Storage, StorageHandle(s) \/ StorageRestart(s) PROVE ReadInv(c)'
    BY <2>2, <2>5, StorageRead
  <2>6. ASSUME UNCHANGED vars \/ \E s \in Storage : HandleHeartbeat(s) \/ ExpireHeartbeat(s)
        PROVE  ReadInv(c)'
    <3>1. UNCHANGED <<client, replies, work, meta, pending_reads, inbox, answers, settled, restarts>>
      BY <2>6 DEF vars, HandleHeartbeat, ExpireHeartbeat, clientVars, store, tables, storageVars, history
    <3> QED BY <2>2, <3>1, ElsewhereRead
  <2>7. ASSUME NEW d \in Client, Issue(d) \/ ClientReceive(d) \/ ClientTimeout(d) \/ ClientRestart(d)
        PROVE  ReadInv(c)'
    <3>1. d = c /\ ~ClientRestart(c)
      BY <2>1, <2>7 DEF OneProcess, ClientRestart, Restart
    <3> QED BY <2>1, <2>2, <2>7, <3>1, BeginRead, ReceiveRead, TimeoutRead
  <2>8. ReadInv(c)'
    BY <2>3, <2>4, <2>5, <2>6, <2>7 DEF Next
  <2> QED BY <2>1, <2>8
<1>3. Spec => [](Typed /\ Ids /\ KindInv /\ \A c \in Client : AckInv(c))
  BY AckInvariant
<1>4. Spec => [](Typed /\ Ids /\ OrphanInv)
  BY OrphanInvariant DEF Undisputed
<1> QED BY <1>1, <1>2, <1>3, <1>4, PTL DEF Spec

\* A read returns what was written: where all requests come from one client
\* process, and the metadata node has not died, the content, type or size a
\* call returned to its caller is that of the last write that was acknowledged
\* for the path, whatever failed, timed out or was restarted on a storage node
\* before, whatever answers to earlier reads come late.
THEOREM ReadsRight == ASSUME OneProcess PROVE Spec => []ReadsLastWrite
<1>1. Typed /\ (\A c \in Client : ReadInv(c)) => ReadsLastWrite
  <2> SUFFICES ASSUME Typed, \A c \in Client : ReadInv(c), restarts.metadata + restarts.client = 0,
                      NEW c \in Client, NEW r, NEW last, r = client[c].result, last = client[c].snap,
                      r # None, last # None
               PROVE  /\ "content" \in DOMAIN r => r.content = Stream(last[1], last[2])
                      /\ "type" \in DOMAIN r => r.type = "FILE"
                      /\ "size" \in DOMAIN r => r.size = last[2]
    BY DEF ReadsLastWrite
  <2>1. restarts.metadata \in Nat /\ restarts.client \in Nat
    BY Bounds DEF Typed, MishapsTyped
  <2>2. OneEpoch
    BY <2>1 DEF OneEpoch
  <2> QED BY <2>2 DEF ReadInv, ResultInv
<1>2. Spec => []Typed
  <2>1. Spec => [](Typed /\ Ids /\ KindInv /\ \A c \in Client : AckInv(c))
    BY AckInvariant
  <2> QED BY <2>1, PTL
<1> QED BY <1>1, <1>2, ReadInvariant, PTL
=============================================================================
