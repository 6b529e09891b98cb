------------------------- MODULE StorageNodeProofs -------------------------
(***************************************************************************)
(* Proofs about StorageNode for every set of objects and all bounds: its   *)
(* type invariant, that an object is always one whole write, and that it   *)
(* is the acknowledged one or a later one.                                 *)
(***************************************************************************)
EXTENDS StorageNode, SequenceTheorems, TLAPS

IsPut(r) == r.job = "PUT"

\* What the object of a request holds once the request has succeeded.
Effect(r) == IF IsPut(r) THEN Stream(r.w, r.count) ELSE Absent

\* A chunk that next_chunks_ would accept continues its own write.
Continues(n, r) == n.next_chunks[r.o] = r.i => n.tmp[r.o] = Stream(r.w, r.i)

\* Of the requests under way only the oldest is not the first of its write.
\* All of them are of writes or deletions that were started, and what they
\* lead to is possible.
InboxOk(j) ==
    /\ inbox[j].w <= started
    /\ Effect(inbox[j]) \in possible[inbox[j].o]
    /\ IsPut(inbox[j]) => inbox[j].i < inbox[j].count
    /\ IsPut(inbox[j]) /\ inbox[j].i > 0 => j = 1 /\ Continues(node, inbox[j])

InboxInv == \A j \in 1..Len(inbox) : InboxOk(j)

\* r is the newest request of its write or deletion.
NewestOf(r, q) == q.w = r.w => (IsPut(q) <=> IsPut(r)) /\ (IsPut(r) => q.i <= r.i)

\* The writer waits for the request that was sent last, so that nothing is
\* under way any more once that request is handled.
WriterInv ==
    writer # NoWriter =>
        LET r == writer.req IN
        /\ r.w <= started /\ Effect(r) \in possible[r.o]
        /\ IsPut(r) => r.i < r.count
        /\ \A j \in 1..Len(inbox) : NewestOf(r, inbox[j]) /\ (inbox[j] = r => j = Len(inbox))
        /\ \A a \in answers : NewestOf(r, a.req) /\ (a.req = r => inbox = << >>)

\* A Success the writer is about to read still tells the truth: the object
\* holds the write, or the temporary file all of it that was sent.
AnswerInv ==
    \A a \in answers :
        /\ a.req.w <= started
        /\ writer # NoWriter /\ a.req = writer.req /\ a.status = "Success" =>
              IF IsPut(a.req) /\ ~IsFinal(a.req)
              THEN Continues(node, Put(a.req.w, a.req.o, a.req.i + 1, a.req.count))
              ELSE node.objects[a.req.o] = Effect(a.req)

\* The inductive invariant.
IInv == TypeOK /\ InboxInv /\ WriterInv /\ AnswerInv /\ WholeObjects /\ OldOrNew

-----------------------------------------------------------------------------
(* Values *)

\* The parts of a request have their types.
LEMMA RequestFacts ==
    ASSUME NEW r \in Request
    PROVE  /\ r.w \in Write /\ r.o \in Object /\ r.job \in {"PUT", "DELETE"}
           /\ r.w \in Nat
           /\ IsPut(r) => /\ r.i \in 0..(MaxChunks - 1) /\ r.count \in 1..MaxChunks
                          /\ r.i \in Nat /\ r.count \in Nat
BY BoundsAssumption DEF Request, IsPut, Write

\* The beginning of a write is a file.
LEMMA StreamFile ==
    ASSUME NEW w \in Write, NEW k \in 0..MaxChunks
    PROVE  Stream(w, k) \in Seq(Chunk) /\ Stream(w, k) \in StoredFile /\ Stream(w, k) # Absent
<1>1. \A i \in 1..k : ChunkOf(w, i - 1) \in Chunk
  BY BoundsAssumption DEF Chunk
<1>2. Stream(w, k) \in Seq(Chunk)
  <2>1. k \in Nat
    BY BoundsAssumption
  <2> QED BY <1>1, <2>1, IsASeq DEF Stream
<1>3. Stream(w, k) \in Seq(Chunk \cup {Torn})
  BY <1>2, SeqMonotonic
<1> QED BY <1>2, <1>3, ValuesAssumption DEF StoredFile

\* One more chunk makes the beginning of a write one chunk longer.
LEMMA StreamNext ==
    ASSUME NEW w \in Write, NEW k \in Nat, k < MaxChunks
    PROVE  /\ Append(Stream(w, k), ChunkOf(w, k)) = Stream(w, k + 1)
           /\ << ChunkOf(w, 0) >> = Stream(w, 1)
<1>1. k \in 0..MaxChunks
  BY BoundsAssumption
<1>2. Stream(w, k) \in Seq(Chunk) /\ Len(Stream(w, k)) = k
  <2>1. Stream(w, k) \in Seq(Chunk)
    BY <1>1, StreamFile
  <2>2. Len(Stream(w, k)) = k
    BY DEF Stream
  <2> QED BY <2>1, <2>2
<1>3. ChunkOf(w, k) \in Chunk
  BY BoundsAssumption DEF Chunk
<1>4. Append(Stream(w, k), ChunkOf(w, k)) = Stream(w, k + 1)
  BY <1>2, <1>3, AppendProperties DEF Stream
<1> QED BY <1>4 DEF Stream

-----------------------------------------------------------------------------
(* The outcomes of requests *)

\* Replacing the temporary file changes nothing else.
LEMMA TmpUpdate ==
    ASSUME NEW n \in Node, NEW o \in Object, NEW f \in StoredFile
    PROVE  /\ WithTmp(n, o, f) \in Node
           /\ WithTmp(n, o, f).objects = n.objects
           /\ WithTmp(n, o, f).next_chunks = n.next_chunks
           /\ WithTmp(n, o, f).tmp = [n.tmp EXCEPT ![o] = f]
BY DEF Node, WithTmp

\* Setting the expected chunk changes nothing else.
LEMMA NextUpdate ==
    ASSUME NEW n \in Node, NEW o \in Object, NEW k \in Nat \cup {Absent}
    PROVE  /\ WithNext(n, o, k) \in Node
           /\ WithNext(n, o, k).objects = n.objects
           /\ WithNext(n, o, k).next_chunks = [n.next_chunks EXCEPT ![o] = k]
           /\ WithNext(n, o, k).tmp = n.tmp
BY DEF Node, WithNext

\* A restart forgets the expected chunks and nothing else.
LEMMA RestartUpdate ==
    ASSUME NEW n \in Node
    PROVE  /\ Restarted(n) \in Node
           /\ Restarted(n).objects = n.objects /\ Restarted(n).tmp = n.tmp
           /\ \A p \in Object : Restarted(n).next_chunks[p] = Absent
BY DEF Node, Restarted

\* The temporary file has the type of a file.
LEMMA WrittenType ==
    ASSUME NEW n \in Node, NEW o \in Object, NEW i \in Nat, NEW c \in Chunk \cup {Torn}
    PROVE  Written(n, o, i, c) \in StoredFile
<1>1. << c >> \in Seq(Chunk \cup {Torn})
  OBVIOUS
<1>2. CASE i # 0 /\ n.tmp[o] # Absent
  <2>1. n.tmp[o] \in Seq(Chunk \cup {Torn})
    BY <1>2 DEF Node, StoredFile
  <2> QED BY <1>2, <2>1, AppendProperties DEF Written, StoredFile
<1> QED BY <1>1, <1>2 DEF Written, StoredFile

\* A PUT that does not succeed leaves the object alone; one that does was
\* expected by next_chunks_, and the temporary file with its chunk becomes
\* the object if the chunk is the final one.
LEMMA PutOutcomes ==
    ASSUME NEW n \in Node, NEW o \in Object, NEW i \in Nat, NEW final \in BOOLEAN,
           NEW c \in Chunk, NEW out \in write_chunk(n, o, i, final, c)
    PROVE  /\ out.node \in Node /\ out.status \in Status
           /\ out.status # "Success" => out.node.objects = n.objects
           /\ out.status = "Success" =>
                 /\ i = 0 \/ n.next_chunks[o] = i
                 /\ IF final
                    THEN out.node.objects = [n.objects EXCEPT ![o] = Written(n, o, i, c)]
                    ELSE /\ out.node.objects = n.objects
                         /\ out.node.tmp[o] = Written(n, o, i, c)
                         /\ out.node.next_chunks[o] = i + 1
<1> DEFINE m == IF i = 0 THEN WithNext(n, o, 0) ELSE n
           broken == WithTmp(m, o, Written(m, o, i, Torn))
           v == WithTmp(m, o, Written(m, o, i, c))
           w == WithNext(v, o, i + 1)
           Aborted == abort_write(m, o) \cup abort_write(broken, o) \cup abort_write(w, o)
<1>1. m \in Node /\ m.objects = n.objects /\ m.tmp = n.tmp
  BY NextUpdate
<1>2. Written(m, o, i, c) = Written(n, o, i, c)
  BY <1>1 DEF Written
<1>3. Written(m, o, i, c) \in StoredFile /\ Written(m, o, i, Torn) \in StoredFile
  BY <1>1, WrittenType
<1>4. broken \in Node /\ broken.objects = n.objects
  BY <1>1, <1>3, TmpUpdate
<1>5. v \in Node /\ v.objects = n.objects /\ v.tmp = [n.tmp EXCEPT ![o] = Written(n, o, i, c)]
  BY <1>1, <1>2, <1>3, TmpUpdate
<1>6. w \in Node /\ w.objects = n.objects /\ w.tmp = [n.tmp EXCEPT ![o] = Written(n, o, i, c)]
      /\ w.next_chunks[o] = i + 1
  <2> HIDE DEF v
  <2>1. i + 1 \in Nat \cup {Absent}
    OBVIOUS
  <2>2. /\ w \in Node /\ w.objects = v.objects /\ w.tmp = v.tmp
        /\ w.next_chunks = [v.next_chunks EXCEPT ![o] = i + 1]
    BY <1>5, <2>1, NextUpdate
  <2>3. o \in DOMAIN v.next_chunks
    BY <1>5 DEF Node
  <2> QED BY <1>5, <2>2, <2>3
<1>7. ASSUME NEW x \in Node, x.objects = n.objects, NEW y \in abort_write(x, o)
      PROVE  y \in Node /\ y.objects = n.objects
  <2>1. WithTmp(x, o, Absent) \in Node /\ WithTmp(x, o, Absent).objects = x.objects
    BY TmpUpdate DEF StoredFile
  <2> QED BY <1>7, <2>1 DEF abort_write
<1>8. \A y \in Aborted : y \in Node /\ y.objects = n.objects
  BY <1>1, <1>4, <1>6, <1>7
<1>9. \/ out.status \in Status \ {"Success"} /\ out.node \in Aborted
      \/ /\ InOrder(m, o, i) /\ out.status = "Success"
         /\ out.node = IF final THEN Finished(w, o) ELSE w
  BY DEF write_chunk, Status
<1>10. InOrder(m, o, i) => i = 0 \/ n.next_chunks[o] = i
  BY DEF InOrder
<1>11. Finished(w, o) \in Node
       /\ Finished(w, o).objects = [n.objects EXCEPT ![o] = Written(n, o, i, c)]
  BY <1>6 DEF Finished, Node, StoredFile
<1>12. "Success" \in Status
  BY DEF Status
<1>13. w.tmp[o] = Written(n, o, i, c)
  BY <1>6 DEF Node
<1> QED BY <1>6, <1>8, <1>9, <1>10, <1>11, <1>12, <1>13

\* A DELETE leaves the other objects alone, and its own one gone or as it was.
LEMMA DeleteOutcomes ==
    ASSUME NEW n \in Node, NEW o \in Object, NEW out \in delete_object(n, o)
    PROVE  /\ out.node \in Node /\ out.status \in Status
           /\ \/ out.node.objects = n.objects /\ out.status # "Success"
              \/ out.node.objects = [n.objects EXCEPT ![o] = Absent]
<1> DEFINE gone == [objects |-> [n.objects EXCEPT ![o] = Absent],
                    tmp |-> n.tmp, next_chunks |-> n.next_chunks]
<1>1. Absent \in StoredFile /\ Absent \in Nat \cup {Absent}
  BY DEF StoredFile
<1>2. gone \in Node
  BY <1>1 DEF Node
<1>3. WithTmp(gone, o, Absent) \in Node /\ WithTmp(gone, o, Absent).objects = gone.objects
  BY <1>1, <1>2, TmpUpdate
<1>4. WithNext(WithTmp(gone, o, Absent), o, Absent) \in Node
      /\ WithNext(WithTmp(gone, o, Absent), o, Absent).objects = gone.objects
  BY <1>1, <1>3, NextUpdate
<1> QED BY <1>2, <1>4 DEF delete_object, Status

\* Handling the oldest request changes no object but its own, and that only to
\* what the request leads to; a Success tells the truth.
LEMMA HandledOldest ==
    ASSUME IInv, inbox # << >>, NEW out \in Outcomes(Head(inbox))
    PROVE  LET r == Head(inbox) IN
           /\ out.node \in Node /\ out.status \in Status
           /\ \A o \in Object :
                 \/ out.node.objects[o] = node.objects[o]
                 \/ o = r.o /\ out.node.objects[o] = Effect(r)
           /\ out.status = "Success" =>
                 IF IsPut(r) /\ ~IsFinal(r)
                 THEN out.node.tmp[r.o] = Stream(r.w, r.i + 1)
                 ELSE out.node.objects[r.o] = Effect(r)
<1> DEFINE r == Head(inbox)
<1>1. /\ node \in Node /\ r \in Request /\ r = inbox[1] /\ 1 \in 1..Len(inbox)
  BY DEF IInv, TypeOK
<1>2. /\ r.w \in Write /\ r.o \in Object /\ r.job \in {"PUT", "DELETE"}
      /\ IsPut(r) => /\ r.i \in 0..(MaxChunks - 1) /\ r.count \in 1..MaxChunks
                     /\ r.i \in Nat /\ r.count \in Nat
  BY <1>1, RequestFacts
<1>3. /\ IsPut(r) => r.i < r.count
      /\ IsPut(r) /\ r.i > 0 => Continues(node, r)
  BY <1>1 DEF IInv, InboxInv, InboxOk
<1>4. DOMAIN node.objects = Object
  BY <1>1 DEF Node
<1> HIDE DEF r
<1>5. CASE IsPut(r)
  <2> DEFINE c == ChunkOf(r.w, r.i)
             W == Written(node, r.o, r.i, c)
  <2>1. out \in write_chunk(node, r.o, r.i, IsFinal(r), c)
    BY <1>5 DEF Outcomes, IsPut, r
  <2>2. c \in Chunk /\ IsFinal(r) \in BOOLEAN
    BY <1>2, <1>5 DEF Chunk, IsFinal
  <2>3. /\ out.node \in Node /\ out.status \in Status
        /\ out.status # "Success" => out.node.objects = node.objects
        /\ out.status = "Success" =>
              /\ r.i = 0 \/ node.next_chunks[r.o] = r.i
              /\ IF IsFinal(r)
                 THEN out.node.objects = [node.objects EXCEPT ![r.o] = W]
                 ELSE /\ out.node.objects = node.objects
                      /\ out.node.tmp[r.o] = W
                      /\ out.node.next_chunks[r.o] = r.i + 1
    BY <1>1, <1>2, <1>5, <2>1, <2>2, PutOutcomes
  <2>4. r.i < MaxChunks /\ r.i \in 0..MaxChunks
    BY <1>2, <1>5, BoundsAssumption
  <2>5. r.i = 0 \/ node.next_chunks[r.o] = r.i => W = Stream(r.w, r.i + 1)
    <3>1. CASE r.i = 0
      BY <1>2, <2>4, <3>1, StreamNext DEF Written
    <3>2. CASE r.i # 0 /\ node.next_chunks[r.o] = r.i
      <4>1. node.tmp[r.o] = Stream(r.w, r.i)
        BY <1>2, <1>3, <1>5, <3>2 DEF Continues
      <4>2. Stream(r.w, r.i) # Absent
        BY <1>2, <2>4, StreamFile
      <4> QED BY <1>2, <1>5, <2>4, <3>2, <4>1, <4>2, StreamNext DEF Written
    <3> QED BY <3>1, <3>2
  <2>6. IsFinal(r) => Stream(r.w, r.i + 1) = Effect(r)
    BY <1>5 DEF Effect, IsFinal
  <2> HIDE DEF W, c
  <2>7. CASE out.status = "Success" /\ IsFinal(r)
    BY <1>2, <1>4, <2>3, <2>5, <2>6, <2>7 DEF r
  <2>8. CASE out.status = "Success" /\ ~IsFinal(r)
    BY <1>5, <2>3, <2>5, <2>8 DEF r
  <2>9. CASE out.status # "Success"
    BY <2>3, <2>9 DEF r
  <2> QED BY <2>7, <2>8, <2>9
<1>6. CASE ~IsPut(r)
  <2>1. out \in delete_object(node, r.o)
    BY <1>6 DEF Outcomes, IsPut, r
  <2>2. /\ out.node \in Node /\ out.status \in Status
        /\ \/ out.node.objects = node.objects /\ out.status # "Success"
           \/ out.node.objects = [node.objects EXCEPT ![r.o] = Absent]
    BY <1>1, <1>2, <2>1, DeleteOutcomes
  <2>3. Effect(r) = Absent
    BY <1>6 DEF Effect
  <2> QED BY <1>2, <1>4, <1>6, <2>2, <2>3 DEF r
<1> QED BY <1>5, <1>6

\* An object that keeps its content, or gets what the oldest request leads to,
\* stays whole and possible.
LEMMA ObjectsStayGood ==
    ASSUME IInv, inbox # << >>, NEW n \in Node,
           \A o \in Object :
                 \/ n.objects[o] = node.objects[o]
                 \/ o = Head(inbox).o /\ n.objects[o] = Effect(Head(inbox))
    PROVE  \A o \in Object :
              /\ n.objects[o] \in possible[o]
              /\ n.objects[o] # Absent =>
                    \E w \in Write, k \in 1..MaxChunks : n.objects[o] = Stream(w, k)
<1> DEFINE r == Head(inbox)
<1>1. r \in Request /\ r = inbox[1] /\ 1 \in 1..Len(inbox)
  BY DEF IInv, TypeOK
<1>2. Effect(r) \in possible[r.o]
  BY <1>1 DEF IInv, InboxInv, InboxOk
<1>3. Effect(r) # Absent => \E w \in Write, k \in 1..MaxChunks : Effect(r) = Stream(w, k)
  BY <1>1, RequestFacts DEF Effect
<1> HIDE DEF r
<1> QED BY <1>2, <1>3 DEF IInv, OldOrNew, WholeObjects, r

-----------------------------------------------------------------------------
(* The steps *)

\* Nothing is under way at first.
LEMMA InitInv == Init => IInv
<1> SUFFICES ASSUME Init PROVE IInv
  OBVIOUS
<1>1. Absent \in StoredFile
  BY DEF StoredFile
<1>2. node \in Node
  BY <1>1 DEF Init, FreshNode, Node
<1>3. TypeOK
  BY <1>1, <1>2, BoundsAssumption DEF Init, TypeOK
<1>4. InboxInv /\ WriterInv /\ AnswerInv
  BY DEF Init, InboxInv, InboxOk, WriterInv, AnswerInv
<1>5. WholeObjects /\ OldOrNew
  BY DEF Init, FreshNode, WholeObjects, OldOrNew
<1> QED BY <1>3, <1>4, <1>5 DEF IInv

\* What a sequence of requests holds after one more was sent.
LEMMA SendFacts ==
    ASSUME TypeOK, NEW req \in Request, Send(req)
    PROVE  /\ inbox' \in Seq(Request) /\ Len(inbox') <= MaxInbox
           /\ Len(inbox') = Len(inbox) + 1 /\ inbox'[Len(inbox')] = req
           /\ \A j \in 1..Len(inbox') : j # Len(inbox') => j \in 1..Len(inbox) /\ inbox'[j] = inbox[j]
<1>1. inbox \in Seq(Request) /\ inbox' = Append(inbox, req) /\ Len(inbox) < MaxInbox
  BY DEF TypeOK, Send
<1>2. Len(inbox) \in Nat /\ MaxInbox \in Nat
  BY <1>1, LenProperties, BoundsAssumption
<1> QED BY <1>1, <1>2, AppendProperties

\* Starting a write or a deletion: its first request is the newest of all, and
\* what it leads to becomes possible.
LEMMA StartStep ==
    ASSUME IInv, NEW req \in Request, NEW kind \in {"put", "delete"},
           req.w = started + 1, IsPut(req) => req.i = 0, started < MaxWrites,
           started' = started + 1, Send(req), writer' = [kind |-> kind, req |-> req],
           possible' = [possible EXCEPT ![req.o] = @ \cup {Effect(req)}],
           UNCHANGED <<node, answers, faults>>
    PROVE  IInv'
<1>1. /\ inbox' \in Seq(Request) /\ Len(inbox') <= MaxInbox
      /\ Len(inbox') = Len(inbox) + 1 /\ inbox'[Len(inbox')] = req
      /\ \A j \in 1..Len(inbox') : j # Len(inbox') => j \in 1..Len(inbox) /\ inbox'[j] = inbox[j]
  BY SendFacts DEF IInv
<1>2. /\ req.o \in Object /\ req.w \in Write
      /\ IsPut(req) => req.i \in Nat /\ req.count \in 1..MaxChunks /\ req.i < req.count
  BY RequestFacts
<1>3. started \in Nat /\ started < started' /\ started' \in 0..MaxWrites
  BY BoundsAssumption DEF IInv, TypeOK
<1>4. Effect(req) \in StoredFile
  <2>1. IsPut(req) => req.count \in 0..MaxChunks
    BY <1>2, BoundsAssumption
  <2> QED BY <1>2, <2>1, StreamFile DEF Effect, StoredFile
<1>5. possible \in [Object -> SUBSET StoredFile]
  BY DEF IInv, TypeOK
<1>6. /\ possible' \in [Object -> SUBSET StoredFile]
      /\ \A o \in Object : possible[o] \subseteq possible'[o]
      /\ Effect(req) \in possible'[req.o]
  BY <1>2, <1>4, <1>5
<1>7. TypeOK'
  <2>1. writer' \in [kind : {"put", "delete"}, req : Request]
    OBVIOUS
  <2> QED BY <1>1, <1>3, <1>6, <2>1 DEF IInv, TypeOK
<1>8. writer' # NoWriter /\ writer'.req = req
  BY DEF NoWriter
<1>9. \A j \in 1..Len(inbox) : inbox[j] \in Request /\ inbox[j].w \in Nat /\ inbox[j].o \in Object
  BY RequestFacts DEF IInv, TypeOK
<1>10. \A a \in answers : a.req \in Request /\ a.req.w \in Nat
  BY RequestFacts DEF IInv, TypeOK
<1>11. InboxInv'
  <2> SUFFICES ASSUME NEW j \in 1..Len(inbox') PROVE InboxOk(j)'
    BY DEF InboxInv
  <2>1. CASE j = Len(inbox')
    BY <1>1, <1>2, <1>3, <1>6, <2>1 DEF InboxOk, Effect, IsPut
  <2>2. CASE j # Len(inbox')
    <3>1. j \in 1..Len(inbox) /\ inbox'[j] = inbox[j]
      BY <1>1, <2>2
    <3>2. InboxOk(j)
      BY <3>1 DEF IInv, InboxInv
    <3> QED BY <1>3, <1>6, <1>9, <3>1, <3>2 DEF InboxOk, Effect, IsPut, Continues
  <2> QED BY <2>1, <2>2
<1>12. WriterInv'
  <2>1. \A j \in 1..Len(inbox') :
           NewestOf(req, inbox'[j]) /\ (inbox'[j] = req => j = Len(inbox'))
    <3> SUFFICES ASSUME NEW j \in 1..Len(inbox')
                 PROVE  NewestOf(req, inbox'[j]) /\ (inbox'[j] = req => j = Len(inbox'))
      OBVIOUS
    <3>1. CASE j = Len(inbox')
      BY <1>1, <1>2, <3>1 DEF NewestOf
    <3>2. CASE j # Len(inbox')
      <4>1. j \in 1..Len(inbox) /\ inbox'[j] = inbox[j]
        BY <1>1, <3>2
      <4>2. inbox[j].w <= started
        BY <4>1 DEF IInv, InboxInv, InboxOk
      <4>3. inbox[j].w # req.w
        BY <1>3, <1>9, <4>1, <4>2
      <4> QED BY <4>1, <4>3 DEF NewestOf
    <3> QED BY <3>1, <3>2
  <2>2. \A a \in answers : NewestOf(req, a.req) /\ a.req # req
    <3>1. \A a \in answers : a.req.w # req.w
      BY <1>3, <1>10 DEF IInv, AnswerInv
    <3> QED BY <3>1 DEF NewestOf
  <2>3. req.w <= started' /\ Effect(req) \in possible'[req.o]
    BY <1>3, <1>6
  <2> QED BY <1>2, <1>8, <2>1, <2>2, <2>3 DEF WriterInv, Effect, NewestOf, IsPut
<1>13. AnswerInv'
  <2>1. \A a \in answers' : a.req.w <= started /\ a.req # req
    BY <1>3, <1>10 DEF IInv, AnswerInv
  <2> QED BY <1>3, <1>8, <1>10, <2>1 DEF AnswerInv
<1>14. WholeObjects' /\ OldOrNew'
  BY <1>6 DEF IInv, WholeObjects, OldOrNew
<1> QED BY <1>7, <1>11, <1>12, <1>13, <1>14 DEF IInv

\* What a sequence of requests holds after the oldest k are gone.
LEMMA DropFacts ==
    ASSUME TypeOK, NEW k \in 0..Len(inbox), inbox' = SubSeq(inbox, k + 1, Len(inbox))
    PROVE  /\ inbox' \in Seq(Request) /\ Len(inbox') <= MaxInbox
           /\ Len(inbox') = Len(inbox) - k
           /\ \A j \in 1..Len(inbox') : j + k \in 1..Len(inbox) /\ inbox'[j] = inbox[j + k]
<1>1. inbox \in Seq(Request) /\ Len(inbox) \in Nat /\ Len(inbox) <= MaxInbox
  BY LenProperties DEF TypeOK
<1>2. /\ k + 1 \in 1..Len(inbox) + 1 /\ Len(inbox) \in k..Len(inbox) /\ k \in Nat
      /\ \A i \in k + 1..Len(inbox) : inbox[i] \in Request
  BY <1>1
<1>3. inbox' \in Seq(Request) /\ Len(inbox') = Len(inbox) - k
  BY <1>1, <1>2, SubSeqProperties
<1>4. \A j \in 1..Len(inbox') : inbox'[j] = inbox[j + k]
  BY <1>1, <1>2, SubSeqProperties
<1> QED BY <1>1, <1>2, <1>3, <1>4, BoundsAssumption

\* Without its oldest requests the inbox is still as it should be: a chunk that
\* continues a write is either among them, or the node is as it was or has
\* forgotten what it expects.
LEMMA DropKeepsInbox ==
    ASSUME IInv, NEW k \in 0..Len(inbox), inbox' = SubSeq(inbox, k + 1, Len(inbox)),
           UNCHANGED <<started, possible>>,
           k = 0 => \A o \in Object : node'.next_chunks[o] = Absent \/ UNCHANGED node
    PROVE  InboxInv'
<1> SUFFICES ASSUME NEW j \in 1..Len(inbox') PROVE InboxOk(j)'
  BY DEF InboxInv
<1>1. j + k \in 1..Len(inbox) /\ inbox'[j] = inbox[j + k] /\ j \in Nat /\ k \in Nat
  BY DropFacts, LenProperties DEF IInv, TypeOK
<1>2. InboxOk(j + k)
  BY <1>1 DEF IInv, InboxInv
<1> DEFINE r == inbox[j + k]
<1>3. r \in Request
  BY <1>1 DEF IInv, TypeOK
<1>4. r.o \in Object /\ (IsPut(r) => r.i \in Nat)
  BY <1>3, RequestFacts
<1> HIDE DEF r
<1>5. ASSUME IsPut(r), r.i > 0 PROVE j = 1 /\ Continues(node', r)
  <2>1. j = 1 /\ k = 0 /\ Continues(node, r)
    BY <1>1, <1>2, <1>5 DEF InboxOk, r
  <2>2. CASE node'.next_chunks[r.o] = Absent
    BY <1>4, <1>5, <2>1, <2>2, ValuesAssumption DEF Continues
  <2>3. CASE UNCHANGED node
    BY <2>1, <2>3 DEF Continues, r
  <2> QED BY <1>4, <2>1, <2>2, <2>3
<1>6. /\ r.w <= started /\ Effect(r) \in possible[r.o]
      /\ IsPut(r) => r.i < r.count
  BY <1>2 DEF InboxOk, r
<1>7. r = inbox'[j]
  BY <1>1 DEF r
<1> QED BY <1>5, <1>6, <1>7 DEF InboxOk

\* The writer still waits for the newest request, and once its answer is there
\* nothing is under way.
LEMMA DropKeepsWriter ==
    ASSUME IInv, NEW k \in 0..Len(inbox), inbox' = SubSeq(inbox, k + 1, Len(inbox)),
           UNCHANGED <<writer, started, possible>>,
           \A a \in answers' : a \in answers \/ (k = 1 /\ a.req = inbox[1])
    PROVE  WriterInv'
<1> SUFFICES ASSUME writer # NoWriter PROVE WriterInv'
  BY DEF WriterInv
<1> DEFINE r == writer.req
<1>1. /\ r.w <= started /\ Effect(r) \in possible[r.o] /\ (IsPut(r) => r.i < r.count)
      /\ \A j \in 1..Len(inbox) : NewestOf(r, inbox[j]) /\ (inbox[j] = r => j = Len(inbox))
      /\ \A a \in answers : NewestOf(r, a.req) /\ (a.req = r => inbox = << >>)
  BY DEF IInv, WriterInv
<1>2. /\ inbox' \in Seq(Request) /\ Len(inbox') = Len(inbox) - k /\ Len(inbox) \in Nat
      /\ \A j \in 1..Len(inbox') : j + k \in 1..Len(inbox) /\ inbox'[j] = inbox[j + k]
  BY DropFacts, LenProperties DEF IInv, TypeOK
<1>3. \A j \in 1..Len(inbox') : NewestOf(r, inbox'[j]) /\ (inbox'[j] = r => j = Len(inbox'))
  BY <1>1, <1>2
<1>4. ASSUME NEW a \in answers'
      PROVE  NewestOf(r, a.req) /\ (a.req = r => inbox' = << >>)
  <2>1. CASE a \in answers
    <3>1. inbox = << >> => inbox' = << >>
      BY <1>2, EmptySeq DEF IInv, TypeOK
    <3> QED BY <1>1, <2>1, <3>1
  <2>2. CASE k = 1 /\ a.req = inbox[1]
    <3>1. 1 \in 1..Len(inbox)
      BY <1>2, <2>2
    <3>2. a.req = r => Len(inbox) = 1
      BY <1>1, <2>2, <3>1
    <3>3. a.req = r => inbox' = << >>
      <4>1. a.req = r => Len(inbox') = 0
        BY <1>2, <2>2, <3>2
      <4> QED BY <1>2, <4>1, EmptySeq
    <3> QED BY <1>1, <2>2, <3>1, <3>3
  <2> QED BY <1>4, <2>1, <2>2
<1> QED BY <1>1, <1>3, <1>4 DEF WriterInv, NewestOf, IsPut, Effect

\* The node handles the oldest request.
LEMMA HandleStep == ASSUME IInv, Handle PROVE IInv'
<1> DEFINE r == Head(inbox)
<1>1. inbox # << >> /\ inbox \in Seq(Request) /\ Len(inbox) \in Nat \ {0} /\ r = inbox[1] /\ r \in Request
  BY LenProperties, EmptySeq DEF Handle, IInv, TypeOK
<1>2. PICK out \in Outcomes(r) :
         node' = out.node /\ answers' = answers \cup {[req |-> r, status |-> out.status]}
  BY DEF Handle
<1>3. /\ out.node \in Node /\ out.status \in Status
      /\ \A o \in Object :
            \/ out.node.objects[o] = node.objects[o]
            \/ o = r.o /\ out.node.objects[o] = Effect(r)
      /\ out.status = "Success" =>
            IF IsPut(r) /\ ~IsFinal(r)
            THEN out.node.tmp[r.o] = Stream(r.w, r.i + 1)
            ELSE out.node.objects[r.o] = Effect(r)
  BY <1>1, HandledOldest
<1>4. inbox' = SubSeq(inbox, 1 + 1, Len(inbox)) /\ 1 \in 0..Len(inbox)
  BY <1>1, TailIsSubSeq DEF Handle
<1>5. UNCHANGED <<writer, started, possible, faults>>
  BY DEF Handle
<1>6. TypeOK'
  <2>1. [req |-> r, status |-> out.status] \in [req : Request, status : Status]
    BY <1>1, <1>3
  <2>2. inbox' \in Seq(Request) /\ Len(inbox') <= MaxInbox
    BY <1>4, DropFacts DEF IInv
  <2> QED BY <1>2, <1>3, <1>5, <2>1, <2>2 DEF IInv, TypeOK
<1>7. InboxInv'
  BY <1>4, <1>5, DropKeepsInbox
<1>8. WriterInv'
  BY <1>1, <1>2, <1>4, <1>5, DropKeepsWriter
<1>9. AnswerInv'
  <2> SUFFICES ASSUME NEW a \in answers'
               PROVE  /\ a.req.w <= started
                      /\ writer # NoWriter /\ a.req = writer.req /\ a.status = "Success" =>
                            IF IsPut(a.req) /\ ~IsFinal(a.req)
                            THEN Continues(node', Put(a.req.w, a.req.o, a.req.i + 1, a.req.count))
                            ELSE node'.objects[a.req.o] = Effect(a.req)
    BY <1>5 DEF AnswerInv, Effect, IsPut, IsFinal, Put, Continues
  <2>1. CASE a \in answers
    <3>1. a.req.w <= started
      BY <2>1 DEF IInv, AnswerInv
    <3>2. writer # NoWriter => a.req # writer.req
      BY <1>1, <2>1 DEF IInv, WriterInv
    <3> QED BY <3>1, <3>2
  <2>2. CASE a = [req |-> r, status |-> out.status]
    <3>1. r.w <= started
      BY <1>1 DEF IInv, InboxInv, InboxOk
    <3>2. IsPut(r) /\ ~IsFinal(r) /\ out.status = "Success" =>
             Continues(node', Put(r.w, r.o, r.i + 1, r.count))
      BY <1>2, <1>3 DEF Continues, Put
    <3> HIDE DEF r
    <3> QED BY <1>2, <1>3, <2>2, <3>1, <3>2
  <2> QED BY <1>2, <2>1, <2>2
<1>10. WholeObjects' /\ OldOrNew'
  BY <1>1, <1>2, <1>3, <1>5, ObjectsStayGood DEF WholeObjects, OldOrNew
<1> QED BY <1>6, <1>7, <1>8, <1>9, <1>10 DEF IInv

\* The process dies; the oldest request may have had its effect.
LEMMA CrashStep == ASSUME IInv, Crash PROVE IInv'
<1>1. PICK k \in 0..Len(inbox) :
         /\ inbox' = SubSeq(inbox, k + 1, Len(inbox))
         /\ \/ node' = Restarted(node)
            \/ k > 0 /\ \E out \in Outcomes(Head(inbox)) : node' = Restarted(out.node)
  BY DEF Crash
<1>2. UNCHANGED <<answers, writer, started, possible>> /\ faults' = faults + 1 /\ faults < MaxFaults
  BY DEF Crash
<1>3. inbox \in Seq(Request) /\ Len(inbox) \in Nat /\ node \in Node
  BY LenProperties DEF IInv, TypeOK
<1>4. k > 0 => inbox # << >>
  BY <1>1, <1>3, EmptySeq
<1>5. /\ node' \in Node
      /\ \A o \in Object : node'.next_chunks[o] = Absent
      /\ \/ node'.objects = node.objects
         \/ k > 0 /\ \A o \in Object :
                        \/ node'.objects[o] = node.objects[o]
                        \/ o = Head(inbox).o /\ node'.objects[o] = Effect(Head(inbox))
  <2>1. CASE node' = Restarted(node)
    BY <1>3, <2>1, RestartUpdate
  <2>2. CASE k > 0 /\ \E out \in Outcomes(Head(inbox)) : node' = Restarted(out.node)
    <3>1. PICK out \in Outcomes(Head(inbox)) : node' = Restarted(out.node)
      BY <2>2
    <3>2. /\ out.node \in Node
          /\ \A o \in Object :
                \/ out.node.objects[o] = node.objects[o]
                \/ o = Head(inbox).o /\ out.node.objects[o] = Effect(Head(inbox))
      BY <1>4, <2>2, HandledOldest
    <3> QED BY <2>2, <3>1, <3>2, RestartUpdate
  <2> QED BY <1>1, <2>1, <2>2
<1>6. TypeOK'
  <2>1. inbox' \in Seq(Request) /\ Len(inbox') <= MaxInbox
    BY <1>1, DropFacts DEF IInv
  <2>2. faults' \in 0..MaxFaults
    BY <1>2, BoundsAssumption DEF IInv, TypeOK
  <2> QED BY <1>2, <1>5, <2>1, <2>2 DEF IInv, TypeOK
<1>7. InboxInv'
  BY <1>1, <1>2, <1>5, DropKeepsInbox
<1>8. WriterInv'
  BY <1>1, <1>2, DropKeepsWriter
<1>9. AnswerInv'
  <2> SUFFICES ASSUME NEW a \in answers
               PROVE  /\ a.req.w <= started
                      /\ writer # NoWriter /\ a.req = writer.req /\ a.status = "Success" =>
                            IF IsPut(a.req) /\ ~IsFinal(a.req)
                            THEN Continues(node', Put(a.req.w, a.req.o, a.req.i + 1, a.req.count))
                            ELSE node'.objects[a.req.o] = Effect(a.req)
    BY <1>2 DEF AnswerInv
  <2>1. a.req \in Request
    BY DEF IInv, TypeOK
  <2>2. a.req.o \in Object /\ (IsPut(a.req) => a.req.i \in Nat)
    BY <2>1, RequestFacts
  <2>3. a.req.w <= started
    BY DEF IInv, AnswerInv
  <2>4. writer # NoWriter /\ a.req = writer.req => node'.objects = node.objects
    BY <1>4, <1>5 DEF IInv, WriterInv
  <2>5. IsPut(a.req) => Continues(node', Put(a.req.w, a.req.o, a.req.i + 1, a.req.count))
    BY <1>5, <2>2, ValuesAssumption DEF Continues, Put
  <2> QED BY <2>3, <2>4, <2>5 DEF IInv, AnswerInv
<1>10. WholeObjects' /\ OldOrNew'
  <2>1. CASE node'.objects = node.objects
    BY <1>2, <2>1 DEF IInv, WholeObjects, OldOrNew
  <2>2. CASE k > 0 /\ node'.objects # node.objects
    BY <1>2, <1>4, <1>5, <2>2, ObjectsStayGood DEF WholeObjects, OldOrNew
  <2> QED BY <1>5, <2>1, <2>2
<1> QED BY <1>6, <1>7, <1>8, <1>9, <1>10 DEF IInv

\* The oldest request is lost.
LEMMA LoseStep == ASSUME IInv, Lose PROVE IInv'
<1>1. /\ inbox # << >> /\ UNCHANGED <<node, answers, writer, started, possible>>
      /\ faults' = faults + 1 /\ faults < MaxFaults
  BY DEF Lose
<1>2. inbox \in Seq(Request) /\ Len(inbox) \in Nat \ {0}
  BY <1>1, LenProperties, EmptySeq DEF IInv, TypeOK
<1>3. inbox' = SubSeq(inbox, 1 + 1, Len(inbox)) /\ 1 \in 0..Len(inbox)
  BY <1>2, TailIsSubSeq DEF Lose
<1>4. TypeOK'
  <2>1. inbox' \in Seq(Request) /\ Len(inbox') <= MaxInbox
    BY <1>3, DropFacts DEF IInv
  <2>2. faults' \in 0..MaxFaults
    BY <1>1, BoundsAssumption DEF IInv, TypeOK
  <2> QED BY <1>1, <2>1, <2>2 DEF IInv, TypeOK
<1>5. InboxInv' /\ WriterInv'
  BY <1>1, <1>3, DropKeepsInbox, DropKeepsWriter
<1>6. AnswerInv' /\ WholeObjects' /\ OldOrNew'
  BY <1>1 DEF IInv, AnswerInv, WholeObjects, OldOrNew
<1> QED BY <1>4, <1>5, <1>6 DEF IInv

\* The writer gives up; what it sent may still be under way.
LEMMA GiveUpStep == ASSUME IInv, GiveUp PROVE IInv'
<1>1. writer' = NoWriter /\ UNCHANGED <<node, inbox, answers, started, possible, faults>>
  BY DEF GiveUp
<1>2. TypeOK'
  BY <1>1 DEF IInv, TypeOK
<1>3. InboxInv'
  BY <1>1 DEF IInv, InboxInv, InboxOk
<1>4. WriterInv' /\ AnswerInv' /\ WholeObjects' /\ OldOrNew'
  BY <1>1 DEF IInv, WriterInv, AnswerInv, WholeObjects, OldOrNew
<1> QED BY <1>2, <1>3, <1>4 DEF IInv

\* The writer reads the answer it waits for.  A chunk that is acknowledged is
\* followed by the next, which is then the only request under way; when a
\* write or a deletion is acknowledged nothing is under way.
LEMMA ReceiveStep == ASSUME IInv, NEW a \in answers, Receive(a) PROVE IInv'
<1> DEFINE r == a.req
           next == Put(r.w, r.o, r.i + 1, r.count)
<1>1. /\ writer # NoWriter /\ r = writer.req /\ answers' = answers \ {a}
      /\ UNCHANGED <<node, started, faults>>
  BY DEF Receive, NoWriter
<1>2. r \in Request /\ a.status \in Status
  BY DEF IInv, TypeOK
<1>3. /\ r.w \in Write /\ r.o \in Object /\ r.job \in {"PUT", "DELETE"} /\ r.w \in Nat
      /\ IsPut(r) => /\ r.i \in 0..(MaxChunks - 1) /\ r.count \in 1..MaxChunks
                     /\ r.i \in Nat /\ r.count \in Nat
  BY <1>2, RequestFacts
<1>4. /\ r.w <= started /\ Effect(r) \in possible[r.o] /\ (IsPut(r) => r.i < r.count)
      /\ \A q \in answers : NewestOf(r, q.req)
      /\ inbox = << >>
  BY <1>1 DEF IInv, WriterInv
<1>5. a.status = "Success" => IF IsPut(r) /\ ~IsFinal(r) THEN Continues(node, next)
                              ELSE node.objects[r.o] = Effect(r)
  BY <1>1 DEF IInv, AnswerInv
<1>6. possible \in [Object -> SUBSET StoredFile] /\ Effect(r) \in StoredFile
  BY <1>3, <1>4 DEF IInv, TypeOK
<1>7. \A q \in answers : q.req \in Request /\ q.req.w <= started
  BY DEF IInv, TypeOK, AnswerInv
<1>8. CASE a.status # "Success"
  <2>1. writer' = NoWriter /\ UNCHANGED <<inbox, possible>>
    BY <1>8 DEF Receive
  <2>2. TypeOK'
    BY <1>1, <2>1 DEF IInv, TypeOK
  <2>3. InboxInv'
    BY <1>1, <2>1 DEF IInv, InboxInv, InboxOk
  <2>4. WriterInv' /\ AnswerInv' /\ WholeObjects' /\ OldOrNew'
    BY <1>1, <2>1 DEF IInv, WriterInv, AnswerInv, WholeObjects, OldOrNew
  <2> QED BY <2>2, <2>3, <2>4 DEF IInv
<1>9. CASE a.status = "Success" /\ ~(IsPut(r) /\ ~IsFinal(r))
  <2>1. /\ writer' = NoWriter /\ UNCHANGED inbox
        /\ possible' = [possible EXCEPT ![r.o] = {Effect(r)}]
    BY <1>3, <1>9 DEF Receive, IsPut, Effect
  <2>2. possible' \in [Object -> SUBSET StoredFile]
    BY <1>3, <1>6, <2>1
  <2>3. TypeOK'
    BY <1>1, <2>1, <2>2 DEF IInv, TypeOK
  <2>4. InboxInv' /\ WriterInv'
    BY <1>4, <2>1 DEF InboxInv, WriterInv
  <2>5. AnswerInv' /\ WholeObjects'
    BY <1>1, <1>7, <2>1 DEF IInv, AnswerInv, WholeObjects
  <2>6. OldOrNew'
    BY <1>1, <1>3, <1>5, <1>6, <1>9, <2>1 DEF IInv, OldOrNew
  <2> QED BY <2>3, <2>4, <2>5, <2>6 DEF IInv
<1>10. CASE a.status = "Success" /\ IsPut(r) /\ ~IsFinal(r)
  <2>1. /\ Send(next) /\ writer' = [kind |-> "put", req |-> next] /\ UNCHANGED possible
    BY <1>10 DEF Receive, IsPut
  <2>2. /\ next \in Request /\ IsPut(next) /\ next.i < next.count /\ next.i = r.i + 1
        /\ next.w = r.w /\ next.o = r.o /\ Effect(next) = Effect(r)
    BY <1>3, <1>4, <1>10, BoundsAssumption DEF Put, Request, IsPut, IsFinal, Effect
  <2> HIDE DEF next
  <2>3. inbox' = << next >>
    BY <1>4, <2>1 DEF Send
  <2>4. Len(inbox') = 1 /\ inbox'[1] = next
    BY <2>3
  <2>5. writer' # NoWriter /\ writer'.req = next
    BY <2>1 DEF NoWriter
  <2>6. TypeOK'
    <3>1. inbox' \in Seq(Request) /\ Len(inbox') <= MaxInbox
      BY <2>1, <2>2, SendFacts DEF IInv
    <3>2. writer' \in [kind : {"put", "delete"}, req : Request]
      BY <2>1, <2>2
    <3> QED BY <1>1, <2>1, <3>1, <3>2 DEF IInv, TypeOK
  <2>7. InboxInv'
    <3>1. InboxOk(1)'
      BY <1>1, <1>4, <1>5, <1>10, <2>1, <2>2, <2>4 DEF InboxOk, next
    <3> QED BY <2>4, <3>1 DEF InboxInv
  <2>8. \A q \in answers : NewestOf(next, q.req) /\ q.req # next
    <3>1. \A q \in answers : q.req.w = next.w => IsPut(q.req) /\ q.req.i <= r.i
      BY <1>4, <1>10, <2>2 DEF NewestOf
    <3>2. \A q \in answers : IsPut(q.req) => q.req.i \in Nat
      BY <1>7, RequestFacts
    <3>3. \A q \in answers : q.req.w = next.w => IsPut(q.req) /\ q.req.i < next.i
      BY <1>3, <1>10, <2>2, <3>1, <3>2
    <3> QED BY <1>3, <1>10, <2>2, <3>2, <3>3 DEF NewestOf
  <2>9. WriterInv'
    <3>1. NewestOf(next, next)
      BY <1>3, <1>10, <2>2 DEF NewestOf
    <3>2. next.w <= started' /\ Effect(next) \in possible'[next.o]
      BY <1>1, <1>4, <2>1, <2>2
    <3>3. \A j \in 1..Len(inbox') : inbox'[j] = next /\ j = Len(inbox')
      BY <2>4
    <3>4. \A q \in answers' : NewestOf(next, q.req) /\ q.req # next
      BY <1>1, <2>8
    <3> QED BY <2>2, <2>5, <3>1, <3>2, <3>3, <3>4 DEF WriterInv
  <2>10. AnswerInv'
    BY <1>1, <1>7, <2>5, <2>8 DEF AnswerInv
  <2>11. WholeObjects' /\ OldOrNew'
    BY <1>1, <2>1 DEF IInv, WholeObjects, OldOrNew
  <2> QED BY <2>6, <2>7, <2>9, <2>10, <2>11 DEF IInv
<1> QED BY <1>8, <1>9, <1>10

-----------------------------------------------------------------------------
(* The theorems *)

\* Every step keeps the invariant.
LEMMA StepInv == IInv /\ [Next]_vars => IInv'
<1> SUFFICES ASSUME IInv, [Next]_vars PROVE IInv'
  OBVIOUS
<1>1. started \in Nat /\ started + 1 \in Nat
  BY DEF IInv, TypeOK
<1>2. ASSUME NEW o \in Object, StartDelete(o) PROVE IInv'
  <2> DEFINE req == Delete(started + 1, o)
  <2>1. /\ req \in Request /\ req.w = started + 1 /\ ~IsPut(req) /\ req.o = o
        /\ Effect(req) = Absent /\ started < MaxWrites
    BY <1>1, <1>2, BoundsAssumption DEF StartDelete, Delete, Request, Write, IsPut, Effect
  <2>2. /\ started' = started + 1 /\ Send(req) /\ writer' = [kind |-> "delete", req |-> req]
        /\ possible' = [possible EXCEPT ![req.o] = @ \cup {Effect(req)}]
        /\ UNCHANGED <<node, answers, faults>>
    BY <1>2, <2>1 DEF StartDelete
  <2> HIDE DEF req
  <2> QED BY <2>1, <2>2, StartStep
<1>3. ASSUME NEW o \in Object, NEW n \in 1..MaxChunks, StartWrite(o, n) PROVE IInv'
  <2> DEFINE req == Put(started + 1, o, 0, n)
  <2>1. /\ req \in Request /\ req.w = started + 1 /\ IsPut(req) /\ req.i = 0 /\ req.o = o
        /\ Effect(req) = Stream(started + 1, n) /\ started < MaxWrites
    BY <1>1, <1>3, BoundsAssumption DEF StartWrite, Put, Request, Write, IsPut, Effect
  <2>2. /\ started' = started + 1 /\ Send(req) /\ writer' = [kind |-> "put", req |-> req]
        /\ possible' = [possible EXCEPT ![req.o] = @ \cup {Effect(req)}]
        /\ UNCHANGED <<node, answers, faults>>
    BY <1>3, <2>1 DEF StartWrite
  <2> HIDE DEF req
  <2> QED BY <2>1, <2>2, StartStep
<1>4. ASSUME UNCHANGED vars PROVE IInv'
  BY <1>4 DEF vars, IInv, TypeOK, InboxInv, InboxOk, WriterInv, AnswerInv, WholeObjects, OldOrNew
<1> QED BY <1>2, <1>3, <1>4, ReceiveStep, GiveUpStep, HandleStep, CrashStep, LoseStep DEF Next

\* The invariant holds in every state of a storage node.
THEOREM NodeInvariant == Spec => []IInv
<1>1. Init => IInv
  BY InitInv
<1>2. IInv /\ [Next]_vars => IInv'
  BY StepInv
<1> QED BY <1>1, <1>2, PTL DEF Spec

\* What StorageWorker has under the name of an object is every chunk of one
\* write, in order, whatever was aborted, lost or cut off by a restart.
THEOREM ObjectsAreWhole == Spec => []WholeObjects
<1>1. IInv => WholeObjects
  BY DEF IInv
<1> QED BY <1>1, NodeInvariant, PTL

\* The object is the last acknowledged write or deletion, or one started later:
\* requests that the metadata node gave up on never bring an older one back.
THEOREM AcknowledgedIsKept == Spec => []OldOrNew
<1>1. IInv => OldOrNew
  BY DEF IInv
<1> QED BY <1>1, NodeInvariant, PTL
=============================================================================
