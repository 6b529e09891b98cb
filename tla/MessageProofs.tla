--------------------------- MODULE MessageProofs ---------------------------
(***************************************************************************)
(* More proofs about DistributedFS, which need to know what is under way   *)
(* between clients, worker and storage nodes: that answers nobody takes    *)
(* do not pile up; that, where nothing is renamed and a path is spelled in *)
(* one way or there is one client process, all stored data belong to       *)
(* files; and that pending_writes_ and pending_reads_ keep no entry of a   *)
(* conversation that ended.                                                *)
(***************************************************************************)
EXTENDS DistributedFSProofs, FiniteSetTheorems

-----------------------------------------------------------------------------
(* Answers nobody takes: the inductive invariant *)

\* What is under way to the worker, or will be once s has handled it.
Sent(s) == Len(inbox[s]) + Len(answers[s])

\* The storage nodes that the handler has asked and still waits for.
Asked ==
    IF work = Idle THEN {}
    ELSE IF work.kind = "GET" THEN {work.left[1]}
    ELSE {work.left[i] : i \in 1..Len(work.left)}

\* The handler can still get what it takes for the answer of s.
Expected(s) ==
    \/ \E i \in 1..Len(inbox[s]) : Matches(inbox[s][i])
    \/ \E i \in 1..Len(answers[s]) : Matches(answers[s][i])

\* What will be left over of the messages of s.
LeftAt(s) == IF s \in Asked /\ Expected(s) THEN Sent(s) - 1 ELSE Sent(s)

\* As many tokens of each storage node as f says.
Tokens(f) == UNION {{s} \X (1..f[s]) : s \in Storage}

Leftover == Tokens([s \in Storage |-> LeftAt(s)])

\* A handler waits for one or two storage nodes.
Apart(left) == Len(left) <= 2 /\ (Len(left) = 2 => left[1] # left[2])
LeftOk == work # Idle => Apart(work.left)

\* Each wait that ended early left one message over, and each restart of the
\* metadata node those of two storage nodes.
Excused == timeouts + 2 * restarts.metadata

LeftoverInv ==
    /\ LeftOk
    /\ IsFiniteSet(Leftover) /\ Cardinality(Leftover) <= Excused

-----------------------------------------------------------------------------
(* Answers nobody takes: counting *)

\* One element more.
LEMMA OneMore ==
    ASSUME NEW S, NEW x, IsFiniteSet(S)
    PROVE  /\ IsFiniteSet(S \cup {x}) /\ Cardinality(S) \in Nat
           /\ Cardinality(S \cup {x}) <= Cardinality(S) + 1
<1>1. PICK n \in Nat : n = Cardinality(S)
  BY FS_CardinalityType
<1>2. Cardinality(S \cup {x}) = IF x \in S THEN n ELSE n + 1
  BY <1>1, FS_AddElement
<1>3. Cardinality(S \cup {x}) = n \/ Cardinality(S \cup {x}) = n + 1
  BY <1>2
<1>4. Cardinality(S \cup {x}) <= n + 1
  BY <1>3
<1> QED BY <1>1, <1>4, FS_AddElement

\* Nowhere more.
LEMMA TokensLess ==
    ASSUME NEW f \in [Storage -> Int], NEW g \in [Storage -> Int], IsFiniteSet(Tokens(f)),
           \A s \in Storage : g[s] <= f[s]
    PROVE  IsFiniteSet(Tokens(g)) /\ Cardinality(Tokens(g)) <= Cardinality(Tokens(f))
<1>1. ASSUME NEW t \in Tokens(g) PROVE t \in Tokens(f)
  <2>1. PICK s \in Storage : t \in {s} \X (1..g[s])
    BY <1>1 DEF Tokens
  <2>2. t \in {s} \X (1..f[s])
    <3>1. f[s] \in Int /\ g[s] \in Int /\ g[s] <= f[s]
      OBVIOUS
    <3>2. 1..g[s] \subseteq 1..f[s]
      BY <3>1
    <3> QED BY <2>1, <3>2
  <2> QED BY <2>1, <2>2 DEF Tokens
<1>2. Tokens(g) \in SUBSET Tokens(f)
  BY <1>1
<1> QED BY <1>2, FS_Subset

\* At one place one more.
LEMMA TokensMore ==
    ASSUME NEW f \in [Storage -> Int], NEW g \in [Storage -> Int], IsFiniteSet(Tokens(f)),
           NEW a, g[a] <= f[a] + 1, \A s \in Storage : s # a => g[s] <= f[s]
    PROVE  IsFiniteSet(Tokens(g)) /\ Cardinality(Tokens(g)) <= Cardinality(Tokens(f)) + 1
<1> DEFINE new == <<a, f[a] + 1>>
<1>1. ASSUME NEW t \in Tokens(g) PROVE t \in Tokens(f) \cup {new}
  <2>1. PICK s \in Storage : t \in {s} \X (1..g[s])
    BY <1>1 DEF Tokens
  <2>2. f[s] \in Int /\ g[s] \in Int
    OBVIOUS
  <2>3. PICK i \in 1..g[s] : t = <<s, i>>
    BY <2>1
  <2>4. CASE i <= f[s]
    <3>1. i \in 1..f[s]
      BY <2>2, <2>4
    <3>2. t \in {s} \X (1..f[s])
      BY <2>3, <3>1
    <3> QED BY <3>2 DEF Tokens
  <2>5. CASE ~(i <= f[s])
    <3>1. s = a
      BY <2>2, <2>5
    <3>2. i = f[a] + 1
      BY <2>2, <2>5, <3>1
    <3> QED BY <2>3, <3>1, <3>2
  <2> QED BY <2>4, <2>5
<1>2. Tokens(g) \in SUBSET (Tokens(f) \cup {new})
  BY <1>1
<1> HIDE DEF new
<1>3. IsFiniteSet(Tokens(f) \cup {new}) /\ Cardinality(Tokens(f)) \in Nat
      /\ Cardinality(Tokens(f) \cup {new}) <= Cardinality(Tokens(f)) + 1
  BY OneMore
<1>4. IsFiniteSet(Tokens(g)) /\ Cardinality(Tokens(g)) \in Nat
      /\ Cardinality(Tokens(f) \cup {new}) \in Nat
      /\ Cardinality(Tokens(g)) <= Cardinality(Tokens(f) \cup {new})
  BY <1>2, <1>3, FS_Subset, FS_CardinalityType
<1> QED BY <1>3, <1>4

\* At two places one more.
LEMMA TokensTwoMore ==
    ASSUME NEW f \in [Storage -> Int], NEW g \in [Storage -> Int], IsFiniteSet(Tokens(f)),
           NEW a \in Storage, NEW b \in Storage,
           \A s \in Storage : g[s] <= f[s] \/ (s \in {a, b} /\ g[s] <= f[s] + 1)
    PROVE  IsFiniteSet(Tokens(g)) /\ Cardinality(Tokens(g)) <= Cardinality(Tokens(f)) + 2
<1> DEFINE h == [f EXCEPT ![a] = f[a] + 1]
<1>1. h \in [Storage -> Int] /\ h[a] <= f[a] + 1 /\ \A s \in Storage : s # a => h[s] <= f[s]
  OBVIOUS
<1>2. g[b] <= h[b] + 1 /\ \A s \in Storage : s # b => g[s] <= h[s]
  <2>1. g[b] \in Int /\ f[b] \in Int /\ g[a] \in Int /\ f[a] \in Int
    OBVIOUS
  <2> QED BY <2>1
<1> HIDE DEF h
<1>3. IsFiniteSet(Tokens(h)) /\ Cardinality(Tokens(h)) <= Cardinality(Tokens(f)) + 1
  BY <1>1, TokensMore
<1>4. IsFiniteSet(Tokens(g)) /\ Cardinality(Tokens(g)) <= Cardinality(Tokens(h)) + 1
  BY <1>1, <1>2, <1>3, TokensMore
<1>5. Cardinality(Tokens(f)) \in Nat /\ Cardinality(Tokens(g)) \in Nat /\ Cardinality(Tokens(h)) \in Nat
  BY <1>3, <1>4, FS_CardinalityType
<1> QED BY <1>3, <1>4, <1>5

-----------------------------------------------------------------------------
(* Answers nobody takes: the steps *)

\* The types of what is counted.
LEMMA SentTypes ==
    ASSUME Typed
    PROVE  /\ timeouts \in Nat /\ restarts.metadata \in Nat /\ Excused \in Nat
           /\ \A s \in Storage :
                /\ inbox[s] \in Seq(StorageRequests) /\ answers[s] \in Seq(Answer)
                /\ Len(inbox[s]) \in Nat /\ Len(answers[s]) \in Nat
                /\ Sent(s) \in Nat /\ LeftAt(s) \in Int /\ LeftAt(s) <= Sent(s)
<1>1. timeouts \in Nat /\ restarts.metadata \in Nat
  BY Bounds DEF Typed, MishapsTyped
<1>2. ASSUME NEW s \in Storage
      PROVE  /\ inbox[s] \in Seq(StorageRequests) /\ answers[s] \in Seq(Answer)
             /\ Len(inbox[s]) \in Nat /\ Len(answers[s]) \in Nat
             /\ Sent(s) \in Nat /\ LeftAt(s) \in Int /\ LeftAt(s) <= Sent(s)
  <2>1. inbox[s] \in Seq(StorageRequests) /\ answers[s] \in Seq(Answer)
    BY DEF Typed, StorageTyped
  <2>2. Len(inbox[s]) \in Nat /\ Len(answers[s]) \in Nat
    BY <2>1, LenProperties
  <2>3. Sent(s) \in Nat
    <3>1. PICK a \in Nat : a = Len(inbox[s])
      BY <2>2
    <3>2. PICK b \in Nat : b = Len(answers[s])
      BY <2>2
    <3>3. Sent(s) = a + b
      BY <3>1, <3>2 DEF Sent
    <3> QED BY <3>3
  <2>4. LeftAt(s) \in Int /\ LeftAt(s) <= Sent(s)
    BY <2>3 DEF LeftAt
  <2> QED BY <2>1, <2>2, <2>3, <2>4
<1> QED BY <1>1, <1>2 DEF Excused

\* The same after a step.
LEMMA SentTypesNext ==
    ASSUME Typed'
    PROVE  /\ timeouts' \in Nat /\ restarts'.metadata \in Nat /\ Excused' \in Nat
           /\ \A s \in Storage :
                /\ inbox'[s] \in Seq(StorageRequests) /\ answers'[s] \in Seq(Answer)
                /\ Len(inbox'[s]) \in Nat /\ Len(answers'[s]) \in Nat
                /\ Sent(s)' \in Nat /\ LeftAt(s)' \in Int /\ LeftAt(s)' <= Sent(s)'
<1>1. timeouts' \in Nat /\ restarts'.metadata \in Nat
  BY Bounds DEF Typed, MishapsTyped
<1>2. ASSUME NEW s \in Storage
      PROVE  /\ inbox'[s] \in Seq(StorageRequests) /\ answers'[s] \in Seq(Answer)
             /\ Len(inbox'[s]) \in Nat /\ Len(answers'[s]) \in Nat
             /\ Sent(s)' \in Nat /\ LeftAt(s)' \in Int /\ LeftAt(s)' <= Sent(s)'
  <2>1. inbox'[s] \in Seq(StorageRequests) /\ answers'[s] \in Seq(Answer)
    BY DEF Typed, StorageTyped
  <2>2. Len(inbox'[s]) \in Nat /\ Len(answers'[s]) \in Nat
    BY <2>1, LenProperties
  <2>3. Sent(s)' \in Nat
    <3>1. PICK a \in Nat : a = Len(inbox'[s])
      BY <2>2
    <3>2. PICK b \in Nat : b = Len(answers'[s])
      BY <2>2
    <3>3. Sent(s)' = a + b
      BY <3>1, <3>2 DEF Sent
    <3> QED BY <3>3
  <2>4. LeftAt(s)' \in Int /\ LeftAt(s)' <= Sent(s)'
    BY <2>3 DEF LeftAt
  <2> QED BY <2>1, <2>2, <2>3, <2>4
<1> QED BY <1>1, <1>2 DEF Excused

\* A step after which no more is left over than n above what was.
LEMMA LeftStep ==
    ASSUME Typed, Typed', LeftoverInv, LeftOk', NEW n \in Nat, Excused' >= Excused + n,
           \/ \A s \in Storage : LeftAt(s)' <= LeftAt(s)
           \/ /\ n = 1
              /\ \E a \in Storage : /\ LeftAt(a)' <= LeftAt(a) + 1
                                    /\ \A s \in Storage : s # a => LeftAt(s)' <= LeftAt(s)
           \/ /\ n = 2
              /\ \E a, b \in Storage : \A s \in Storage :
                    LeftAt(s)' <= LeftAt(s) \/ (s \in {a, b} /\ LeftAt(s)' <= LeftAt(s) + 1)
    PROVE  LeftoverInv'
<1>1. PICK f \in [Storage -> Int] : /\ f = [s \in Storage |-> LeftAt(s)]
                                    /\ \A s \in Storage : f[s] = LeftAt(s)
  <2>1. \A s \in Storage : LeftAt(s) \in Int
    BY SentTypes
  <2> DEFINE f == [s \in Storage |-> LeftAt(s)]
  <2>2. f \in [Storage -> Int] /\ \A s \in Storage : f[s] = LeftAt(s)
    BY <2>1
  <2> QED BY <2>2
<1>2. PICK g \in [Storage -> Int] : /\ g = [s \in Storage |-> LeftAt(s)']
                                    /\ \A s \in Storage : g[s] = LeftAt(s)'
  <2>1. \A s \in Storage : LeftAt(s)' \in Int
    BY SentTypesNext
  <2> DEFINE g == [s \in Storage |-> LeftAt(s)']
  <2>2. g \in [Storage -> Int] /\ \A s \in Storage : g[s] = LeftAt(s)'
    BY <2>1
  <2> QED BY <2>2
<1>3. Leftover = Tokens(f) /\ Leftover' = Tokens(g)
  BY <1>1, <1>2 DEF Leftover, Tokens
<1>4. /\ IsFiniteSet(Tokens(f)) /\ Cardinality(Tokens(f)) <= Excused
      /\ Cardinality(Tokens(f)) \in Nat /\ Excused \in Nat /\ Excused' \in Nat
  BY <1>3, SentTypes, SentTypesNext, FS_CardinalityType DEF LeftoverInv
<1>5. IsFiniteSet(Tokens(g)) /\ Cardinality(Tokens(g)) <= Cardinality(Tokens(f)) + n
  <2>1. CASE \A s \in Storage : LeftAt(s)' <= LeftAt(s)
    <3>1. IsFiniteSet(Tokens(g)) /\ Cardinality(Tokens(g)) <= Cardinality(Tokens(f))
      BY <1>1, <1>2, <1>4, <2>1, TokensLess
    <3>2. Cardinality(Tokens(g)) \in Nat
      BY <3>1, FS_CardinalityType
    <3> QED BY <1>4, <3>1, <3>2
  <2>2. CASE /\ n = 1
             /\ \E a \in Storage : /\ LeftAt(a)' <= LeftAt(a) + 1
                                   /\ \A s \in Storage : s # a => LeftAt(s)' <= LeftAt(s)
    BY <1>1, <1>2, <1>4, <2>2, TokensMore
  <2>3. CASE /\ n = 2
             /\ \E a, b \in Storage : \A s \in Storage :
                    LeftAt(s)' <= LeftAt(s) \/ (s \in {a, b} /\ LeftAt(s)' <= LeftAt(s) + 1)
    BY <1>1, <1>2, <1>4, <2>3, TokensTwoMore
  <2> QED BY <2>1, <2>2, <2>3
<1>6. Cardinality(Tokens(g)) \in Nat
  BY <1>5, FS_CardinalityType
<1>7. Cardinality(Tokens(g)) <= Excused'
  BY <1>4, <1>5, <1>6
<1> QED BY <1>3, <1>5, <1>7 DEF LeftoverInv

\* What is left over of the messages of x, case by case.
LEMMA LeftAtCases ==
    ASSUME Typed, NEW x \in Storage
    PROVE  /\ x \in Asked /\ Expected(x) => LeftAt(x) = Sent(x) - 1
           /\ x \notin Asked \/ ~Expected(x) => LeftAt(x) = Sent(x)
           /\ LeftAt(x) >= Sent(x) - 1
<1>1. PICK n \in Nat : n = Sent(x)
  BY SentTypes
<1> QED BY <1>1 DEF LeftAt

\* A step that moves no message and ends no wait.
LEMMA QuietLeft ==
    ASSUME Typed, Typed', LeftoverInv, UNCHANGED <<inbox, answers, work>>, Excused' >= Excused
    PROVE  LeftoverInv'
<1>1. LeftOk'
  BY DEF LeftoverInv, LeftOk
<1>2. ASSUME NEW x \in Storage PROVE LeftAt(x)' <= LeftAt(x)
  <2>1. LeftAt(x)' = LeftAt(x)
    BY DEF LeftAt, Sent, Asked, Expected, Matches
  <2>2. LeftAt(x) \in Int
    BY SentTypes
  <2> QED BY <2>1, <2>2
<1>3. Excused \in Nat /\ Excused' \in Nat
  BY SentTypes, SentTypesNext
<1> QED BY <1>1, <1>2, <1>3, LeftStep

\* A storage node handles a request: its answer takes the place of the request.
LEMMA StorageHandleLeft ==
    ASSUME Typed, Typed', LeftoverInv, NEW s \in Storage, StorageHandle(s)
    PROVE  LeftoverInv'
<1> DEFINE m == Head(inbox[s])
<1>1. PICK a : /\ a.id = m.id /\ a.job = m.job /\ a.i = m.i
               /\ answers' = [answers EXCEPT ![s] = Append(answers[s], a)]
  BY DEF StorageHandle
<1>2. /\ inbox[s] # << >> /\ inbox' = [inbox EXCEPT ![s] = Tail(inbox[s])]
      /\ work' = work /\ timeouts' = timeouts /\ restarts' = restarts
  BY DEF StorageHandle
<1>3. /\ inbox \in [Storage -> Seq(StorageRequests)] /\ answers \in [Storage -> Seq(Answer)]
      /\ inbox' \in [Storage -> Seq(StorageRequests)] /\ answers' \in [Storage -> Seq(Answer)]
  BY DEF Typed, StorageTyped
<1>4. PICK q : /\ q = inbox[s] /\ q # << >> /\ q \in Seq(StorageRequests)
               /\ inbox'[s] = Tail(q) /\ m = q[1]
  BY <1>2, <1>3, HeadTailProperties
<1>5. /\ Len(q) \in Nat \ {0} /\ Len(inbox'[s]) = Len(q) - 1
      /\ \A i \in 1..Len(q) - 1 : inbox'[s][i] = q[i + 1]
  <2>1. Len(Tail(q)) = Len(q) - 1 /\ \A i \in 1..Len(Tail(q)) : Tail(q)[i] = q[i + 1]
    BY <1>4, HeadTailProperties
  <2>2. Len(q) \in Nat /\ Len(q) # 0
    BY <1>4, LenProperties, EmptySeq
  <2> QED BY <1>4, <2>1, <2>2
<1>6. PICK r : r = answers[s] /\ r \in Seq(Answer) /\ answers'[s] = Append(r, a)
  BY <1>1, <1>3
<1>7. /\ Len(r) \in Nat /\ Len(answers'[s]) = Len(r) + 1
      /\ answers'[s][Len(r) + 1] = a /\ \A i \in 1..Len(r) : answers'[s][i] = r[i]
  <2>1. Len(r) \in Nat
    BY <1>6, LenProperties
  <2> QED BY <1>6, <2>1
<1>8. Sent(s)' = Sent(s)
  <2>1. PICK a1 \in Nat, b1 \in Nat : a1 = Len(q) /\ b1 = Len(r)
    BY <1>5, <1>7
  <2>2. Sent(s)' = (a1 - 1) + (b1 + 1) /\ Sent(s) = a1 + b1
    BY <1>4, <1>5, <1>6, <1>7, <2>1 DEF Sent
  <2> QED BY <2>2
<1>9. ASSUME Expected(s) PROVE Expected(s)'
  <2>1. CASE \E i \in 1..Len(q) : Matches(q[i])
    <3>1. PICK i \in 1..Len(q) : Matches(q[i])
      BY <2>1
    <3>2. CASE i = 1
      <4>1. Matches(a)'
        BY <1>1, <1>2, <1>4, <3>1, <3>2 DEF Matches
      <4>2. Len(r) + 1 \in 1..Len(answers'[s])
        BY <1>7
      <4> QED BY <1>7, <4>1, <4>2 DEF Expected
    <3>3. CASE i # 1
      <4>1. i - 1 \in 1..Len(q) - 1 /\ inbox'[s][i - 1] = q[i]
        BY <1>5, <3>3
      <4>2. Matches(q[i])'
        BY <1>2, <3>1 DEF Matches
      <4>3. i - 1 \in 1..Len(inbox'[s])
        BY <1>5, <4>1
      <4>4. Matches(inbox[s][i - 1])'
        BY <4>1, <4>2 DEF Matches
      <4> QED BY <4>3, <4>4 DEF Expected
    <3> QED BY <3>2, <3>3
  <2>2. CASE \E i \in 1..Len(r) : Matches(r[i])
    <3>1. PICK i \in 1..Len(r) : Matches(r[i])
      BY <2>2
    <3>2. i \in 1..Len(answers'[s]) /\ answers'[s][i] = r[i]
      BY <1>7
    <3>3. Matches(answers[s][i])'
      BY <1>2, <3>1, <3>2 DEF Matches
    <3> QED BY <3>2, <3>3 DEF Expected
  <2> QED BY <1>4, <1>6, <1>9, <2>1, <2>2 DEF Expected
<1>10. ASSUME NEW x \in Storage PROVE LeftAt(x)' <= LeftAt(x)
  <2>1. Asked' = Asked
    BY <1>2 DEF Asked
  <2>2. Sent(x)' = Sent(x) /\ (Expected(x) => Expected(x)')
    <3>1. CASE x = s
      BY <1>8, <1>9, <3>1
    <3>2. CASE x # s
      <4>1. inbox'[x] = inbox[x] /\ answers'[x] = answers[x]
        BY <1>1, <1>2, <1>3, <3>2
      <4> QED BY <1>2, <4>1 DEF Sent, Expected, Matches
    <3> QED BY <3>1, <3>2
  <2>3. PICK n \in Nat : n = Sent(x)
    BY SentTypes
  <2> QED BY <2>1, <2>2, <2>3 DEF LeftAt
<1>11. LeftOk' /\ Excused' = Excused /\ Excused \in Nat
  BY <1>2, SentTypes DEF LeftoverInv, LeftOk, Excused
<1> QED BY <1>10, <1>11, LeftStep

\* A storage node that starts again answers no more than before.
LEMMA StorageRestartLeft ==
    ASSUME Typed, Typed', LeftoverInv, NEW s \in Storage, StorageRestart(s)
    PROVE  LeftoverInv'
<1>1. PICK k \in 0..Len(inbox[s]) :
         inbox' = [inbox EXCEPT ![s] = SubSeq(inbox[s], k + 1, Len(inbox[s]))]
  BY DEF StorageRestart
<1>2. /\ work' = work /\ answers' = answers /\ timeouts' = timeouts
      /\ restarts' = [restarts EXCEPT !["storage"] = @ + 1]
  BY DEF StorageRestart, Restart
<1>3. inbox \in [Storage -> Seq(StorageRequests)]
  BY DEF Typed, StorageTyped
<1>4. PICK q : q = inbox[s] /\ q \in Seq(StorageRequests) /\ Len(q) \in Nat
               /\ inbox'[s] = SubSeq(q, k + 1, Len(q)) /\ k \in 0..Len(q)
  BY <1>1, <1>3, LenProperties
<1>5. ASSUME NEW x \in Storage PROVE LeftAt(x)' <= LeftAt(x)
  <2>1. CASE inbox'[x] = inbox[x]
    <3>1. LeftAt(x)' = LeftAt(x)
      BY <1>2, <2>1 DEF LeftAt, Sent, Asked, Expected, Matches
    <3>2. LeftAt(x) \in Int
      BY SentTypes
    <3> QED BY <3>1, <3>2
  <2>2. CASE inbox'[x] # inbox[x]
    <3>1. x = s
      BY <1>1, <1>3, <2>2
    <3>2. k # 0
      <4>1. SubSeq(q, 1, Len(q)) = q
        BY <1>4, SubSeqFull
      <4> QED BY <1>4, <2>2, <3>1, <4>1
    <3>3. Len(inbox'[s]) = Len(q) - k
      <4>1. \A i \in k + 1..Len(q) : i \in 1..Len(q)
        BY <1>4
      <4>2. Len(SubSeq(q, k + 1, Len(q))) = IF k + 1 <= Len(q) THEN Len(q) - (k + 1) + 1 ELSE 0
        BY <1>4, <4>1, SubSeqProperties
      <4> QED BY <1>4, <4>2
    <3>4. PICK a \in Nat : a = Len(answers[s])
      BY SentTypes
    <3>5. Sent(s) = Len(q) + a /\ Sent(s)' = Len(q) - k + a
      BY <1>2, <1>4, <3>3, <3>4 DEF Sent
    <3>6. Sent(s)' <= Sent(s) - 1 /\ Sent(s)' \in Nat /\ Sent(s) \in Nat
      <4>1. PICK b \in Nat : b = Len(q)
        BY <1>4
      <4>2. k \in 0..b /\ Sent(s) = b + a /\ Sent(s)' = b - k + a
        BY <1>4, <3>5, <4>1
      <4> QED BY <3>2, <3>4, <4>2
    <3>7. /\ LeftAt(s) >= Sent(s) - 1 /\ LeftAt(s)' <= Sent(s)'
          /\ LeftAt(s) \in Int /\ LeftAt(s)' \in Int
      BY LeftAtCases, SentTypes, SentTypesNext
    <3> QED BY <3>1, <3>6, <3>7
  <2> QED BY <2>1, <2>2
<1>6. restarts'.metadata = restarts.metadata
  BY <1>2 DEF Typed, MishapsTyped
<1>7. LeftOk' /\ Excused' = Excused /\ Excused \in Nat
  BY <1>2, <1>6, SentTypes DEF LeftoverInv, LeftOk, Excused
<1> QED BY <1>5, <1>7, LeftStep

\* Those that a handler has asked are at most two.
LEMMA AskedFew ==
    ASSUME Typed, LeftOk, work # Idle
    PROVE  /\ \E a, b \in Storage : Asked \subseteq {a, b}
           /\ Head(work.left) \in Storage /\ Head(work.left) \in Asked
           /\ work.kind = "GET" \/ Tail(work.left) = << >> => Asked = {Head(work.left)}
           /\ Tail(work.left) # << >> =>
                /\ Tail(work.left) \in Seq(Storage) /\ Len(Tail(work.left)) = 1
                /\ Tail(work.left)[1] \in Storage /\ Tail(work.left)[1] # Head(work.left)
                /\ work.kind # "GET" => Asked = {Head(work.left), Tail(work.left)[1]}
<1>1. PICK q : q = work.left /\ q \in Seq(Storage) /\ q # << >> /\ Apart(q)
  BY WorkFacts DEF Typed, LeftOk
<1>2. Len(q) \in Nat /\ Len(q) # 0 /\ Head(q) = q[1] /\ Head(q) \in Storage
  BY <1>1, LenProperties, EmptySeq, HeadTailProperties
<1>3. Len(q) = 1 \/ Len(q) = 2
  <2>1. PICK n \in Nat : n = Len(q)
    BY <1>2
  <2>2. n # 0 /\ n <= 2
    BY <1>1, <1>2, <2>1 DEF Apart
  <2>3. n = 1 \/ n = 2
    BY <2>2
  <2> QED BY <2>1, <2>3
<1>4. /\ Tail(q) \in Seq(Storage) /\ Len(Tail(q)) = Len(q) - 1
      /\ \A i \in 1..Len(Tail(q)) : Tail(q)[i] = q[i + 1]
  BY <1>1, HeadTailProperties
<1>5. CASE Len(q) = 1
  <2>1. Len(Tail(q)) = 0
    BY <1>4, <1>5
  <2>4. Tail(q) = << >>
    BY <1>4, <2>1, EmptySeq
  <2>2. {q[i] : i \in 1..Len(q)} = {q[1]}
    BY <1>5
  <2>3. Asked = {q[1]}
    BY <1>1, <2>2 DEF Asked
  <2> QED BY <1>1, <1>2, <2>3, <2>4
<1>6. CASE Len(q) = 2
  <2>0. Len(Tail(q)) = 1
    BY <1>4, <1>6
  <2>1. Tail(q) # << >> /\ Len(Tail(q)) = 1 /\ Tail(q)[1] = q[2]
    <3>1. Len(<< >>) = 0
      BY EmptySeq
    <3>2. 1 \in 1..Len(Tail(q))
      BY <2>0
    <3>3. Tail(q)[1] = q[1 + 1]
      BY <1>4, <3>2
    <3>4. Tail(q) # << >>
      <4>1. Len(Tail(q)) # Len(<< >>)
        BY <2>0, <3>1
      <4>2. Tail(q) = << >> => Len(Tail(q)) = Len(<< >>)
        OBVIOUS
      <4> QED BY <4>1, <4>2
    <3> QED BY <2>0, <3>3, <3>4
  <2>2. q[2] \in Storage /\ q[1] # q[2]
    BY <1>1, <1>6, ElementOfSeq DEF Apart
  <2>3. {q[i] : i \in 1..Len(q)} = {q[1], q[2]}
    BY <1>6
  <2>4. Asked = IF work.kind = "GET" THEN {q[1]} ELSE {q[1], q[2]}
    BY <1>1, <2>3 DEF Asked
  <2> QED BY <1>1, <1>2, <1>4, <2>1, <2>2, <2>4
<1> QED BY <1>3, <1>5, <1>6

\* The metadata node starts again: what was asked for is now left over.
LEMMA MetadataRestartLeft ==
    ASSUME Typed, Typed', LeftoverInv, MetadataRestart
    PROVE  LeftoverInv'
<1>1. /\ work' = Idle /\ inbox' = inbox /\ timeouts' = timeouts
      /\ restarts' = [restarts EXCEPT !["metadata"] = @ + 1]
  BY DEF MetadataRestart, Restart
<1>2. Excused' = Excused + 2 /\ Excused \in Nat
  <2>1. restarts'.metadata = restarts.metadata + 1
    BY <1>1 DEF Typed, MishapsTyped
  <2> QED BY <1>1, <2>1, SentTypes DEF Excused
<1>3. ASSUME NEW x \in Storage
      PROVE  LeftAt(x)' <= LeftAt(x) \/ (x \in Asked /\ LeftAt(x)' <= LeftAt(x) + 1)
  <2>1. answers'[x] = answers[x] \/ answers'[x] = << >>
    BY DEF MetadataRestart
  <2>2. Len(answers'[x]) <= Len(answers[x]) /\ Len(answers[x]) \in Nat /\ Len(answers'[x]) \in Nat
        /\ Len(inbox[x]) \in Nat
    BY <2>1, SentTypes, EmptySeq
  <2>3. PICK a \in Nat, b \in Nat, c \in Nat :
            a = Len(inbox[x]) /\ b = Len(answers[x]) /\ c = Len(answers'[x])
    BY <2>2
  <2>4. Sent(x) = a + b /\ Sent(x)' = a + c /\ c <= b
    BY <1>1, <2>2, <2>3 DEF Sent
  <2>5. LeftAt(x)' <= Sent(x)' /\ LeftAt(x) \in Int /\ LeftAt(x)' \in Int
    BY SentTypes, SentTypesNext
  <2>6. LeftAt(x) = Sent(x) \/ (x \in Asked /\ LeftAt(x) = Sent(x) - 1)
    BY LeftAtCases
  <2>7. PICK m \in Int, n \in Int : m = LeftAt(x) /\ n = LeftAt(x)'
    BY <2>5
  <2>8. n <= a + b
    BY <2>4, <2>5, <2>7
  <2>9. m = a + b \/ (x \in Asked /\ m = a + b - 1)
    BY <2>4, <2>6, <2>7
  <2>10. n <= m \/ (x \in Asked /\ n <= m + 1)
    BY <2>8, <2>9
  <2> QED BY <2>7, <2>10
<1>4. LeftOk' /\ LeftOk
  BY <1>1 DEF LeftOk, LeftoverInv
<1>5. CASE work = Idle
  <2>1. Asked = {}
    BY <1>5 DEF Asked
  <2> QED BY <1>2, <1>3, <1>4, <2>1, LeftStep
<1>6. CASE work # Idle
  <2>1. PICK a, b \in Storage : Asked \subseteq {a, b}
    BY <1>4, <1>6, AskedFew
  <2>2. \A x \in Storage : LeftAt(x)' <= LeftAt(x) \/ (x \in {a, b} /\ LeftAt(x)' <= LeftAt(x) + 1)
    BY <1>3, <2>1
  <2> QED BY <1>2, <1>4, <2>2, LeftStep
<1> QED BY <1>5, <1>6

\* What x is asked for comes back: no more is left over than before.
LEMMA AskedLeft ==
    ASSUME Typed, Typed', NEW x \in Storage, NEW msg, inbox'[x] = Append(inbox[x], msg),
           x \in Asked', Matches(msg)'
    PROVE  LeftAt(x)' = Len(inbox[x]) + Len(answers'[x])
<1>1. PICK q : q = inbox[x] /\ q \in Seq(StorageRequests)
  BY SentTypes
<1>2. PICK a \in Nat : a = Len(q)
  BY <1>1, LenProperties
<1>3. Len(inbox'[x]) = a + 1 /\ inbox'[x][a + 1] = msg
  BY <1>1, <1>2
<1>4. Expected(x)'
  <2>1. a + 1 \in 1..Len(inbox'[x])
    BY <1>2, <1>3
  <2>2. Matches(inbox[x][a + 1])'
    BY <1>3 DEF Matches
  <2> QED BY <2>1, <2>2 DEF Expected
<1>5. PICK b \in Nat : b = Len(answers'[x])
  BY SentTypesNext
<1>6. Sent(x)' = (a + 1) + b
  BY <1>3, <1>5 DEF Sent
<1>7. LeftAt(x)' = Sent(x)' - 1
  BY <1>4 DEF LeftAt
<1>8. LeftAt(x)' = a + b
  BY <1>6, <1>7
<1> QED BY <1>1, <1>2, <1>5, <1>8

\* Where nothing is sent, no more than what was under way is left over.
LEMMA UnaskedLeft ==
    ASSUME Typed', NEW x \in Storage, inbox'[x] = inbox[x]
    PROVE  LeftAt(x)' <= Len(inbox[x]) + Len(answers'[x])
<1>1. Sent(x)' = Len(inbox[x]) + Len(answers'[x])
  BY DEF Sent
<1> QED BY <1>1, SentTypesNext

\* A request to both replicas.
LEMMA SendBothLeft ==
    ASSUME Typed, Typed', LeftoverInv, work = Idle, UNCHANGED <<answers, timeouts, restarts>>,
           NEW r \in Pair, NEW msg, NEW kind \in {"PUT", "DELETE"}, NEW req, NEW id,
           SendBoth(r, msg), Wait(kind, req, id, r),
           msg.id = id, msg.job = kind, kind # "DELETE" => msg.i = req.x
    PROVE  LeftoverInv'
<1>1. /\ r \in Seq(Storage) /\ Len(r) = 2 /\ r[1] \in Storage /\ r[2] \in Storage /\ r[1] # r[2]
  BY PairFacts DEF Pair
<1>2. work' # Idle /\ work'.left = r /\ work'.kind = kind /\ work'.id = id /\ work'.req = req
  BY DEF Wait, Idle
<1>3. Asked' = {r[1], r[2]}
  <2>1. {r[i] : i \in 1..Len(r)} = {r[1], r[2]}
    BY <1>1
  <2> QED BY <1>2, <2>1 DEF Asked
<1>4. Matches(msg)'
  BY <1>2 DEF Matches
<1>5. ASSUME NEW x \in Storage PROVE LeftAt(x)' <= LeftAt(x)
  <2>1. LeftAt(x) = Sent(x) /\ Sent(x) = Len(inbox[x]) + Len(answers'[x])
    BY LeftAtCases DEF Asked, Sent
  <2>2. Sent(x) \in Nat
    BY SentTypes
  <2>3. CASE x \in {r[1], r[2]}
    <3>1. inbox'[x] = Append(inbox[x], msg)
      BY <2>3 DEF SendBoth
    <3>2. LeftAt(x)' = Len(inbox[x]) + Len(answers'[x])
      BY <1>3, <1>4, <2>3, <3>1, AskedLeft
    <3> QED BY <2>1, <2>2, <3>2
  <2>4. CASE x \notin {r[1], r[2]}
    <3>1. inbox'[x] = inbox[x]
      BY <2>4 DEF SendBoth
    <3> QED BY <2>1, <3>1, UnaskedLeft
  <2> QED BY <2>3, <2>4
<1>6. LeftOk'
  <2>1. Apart(r)
    BY <1>1 DEF Apart
  <2> QED BY <1>2, <2>1 DEF LeftOk, Apart
<1>7. Excused' = Excused /\ Excused \in Nat
  BY SentTypes DEF Excused
<1> QED BY <1>5, <1>6, <1>7, LeftStep

\* The next replica is asked for a chunk, or none is left.
LEMMA AskNextLeft ==
    ASSUME Typed, Typed', NEW req, NEW left, left \in Seq(Storage), Apart(left),
           AskNext(req, left)
    PROVE  LeftOk' /\ \A x \in Storage : LeftAt(x)' <= Len(inbox[x]) + Len(answers'[x])
<1> DEFINE r == pending_reads[key(req)]
<1>0. PICK n \in Nat : n = Len(left) /\ n <= 2
  BY LenProperties DEF Apart
<1>1. CASE work' = Idle /\ inbox' = inbox
  <2>1. LeftOk'
    BY <1>1 DEF LeftOk
  <2> QED BY <1>1, <2>1, UnaskedLeft
<1>2. ASSUME NEW i, i \in 1..Len(left),
             inbox' = [inbox EXCEPT ![left[i]] =
                  Append(@, StorageRequest(sid', "GET", r.obj, req.x, FALSE, << >>))],
             Wait("GET", req, sid', SubSeq(left, i, Len(left)))
      PROVE  LeftOk' /\ \A x \in Storage : LeftAt(x)' <= Len(inbox[x]) + Len(answers'[x])
  <2>0. PICK msg : msg = StorageRequest(sid', "GET", r.obj, req.x, FALSE, << >>)
    OBVIOUS
  <2> DEFINE some == SubSeq(left, i, Len(left))
  <2>1. i \in 1..n /\ left[i] \in Storage
    BY <1>0, <1>2, ElementOfSeq
  <2>2. work' # Idle /\ work'.left = some /\ work'.kind = "GET" /\ work'.id = sid' /\ work'.req = req
    BY <1>2 DEF Wait, Idle
  <2>3. Matches(msg)'
    BY <2>0, <2>2 DEF Matches, StorageRequest
  <2>4. /\ Len(some) = n - i + 1
        /\ \A j \in 1..(n - i + 1) : some[j] = left[i + j - 1]
    <3>1. \A j \in i..n : left[j] \in Storage
      BY <1>0, <2>1, ElementOfSeq
    <3>2. /\ Len(SubSeq(left, i, n)) = IF i <= n THEN n - i + 1 ELSE 0
          /\ \A j \in 1..(n - i + 1) : SubSeq(left, i, n)[j] = left[i + j - 1]
      BY <2>1, <3>1, SubSeqProperties
    <3>3. some = SubSeq(left, i, n)
      BY <1>0
    <3> HIDE DEF some
    <3> QED BY <2>1, <3>2, <3>3
  <2>5. some[1] = left[i]
    <3>1. 1 \in 1..(n - i + 1) /\ i + 1 - 1 = i
      BY <2>1
    <3> HIDE DEF some
    <3> QED BY <2>4, <3>1
  <2>6. Apart(some)
    <3>1. CASE i = 1
      <4>1. some = left
        BY <3>1, SubSeqFull
      <4> QED BY <4>1
    <3>2. CASE i # 1
      <4>1. n - i + 1 <= 1
        BY <1>0, <2>1, <3>2
      <4>2. PICK m : m = n - i + 1 /\ m \in Int /\ m <= 1
        BY <2>1, <4>1
      <4> HIDE DEF some
      <4>3. Len(some) = m
        BY <2>4, <4>2
      <4> QED BY <4>2, <4>3 DEF Apart
    <3> QED BY <3>1, <3>2
  <2>7. inbox' = [inbox EXCEPT ![left[i]] = Append(inbox[left[i]], msg)]
    BY <1>2, <2>0
  <2> HIDE DEF some
  <2>8. LeftOk'
    BY <2>2, <2>6 DEF LeftOk
  <2>9. left[i] \in Asked'
    BY <2>2, <2>5 DEF Asked
  <2>10. inbox \in [Storage -> Seq(StorageRequests)]
    BY DEF Typed, StorageTyped
  <2>11. ASSUME NEW x \in Storage PROVE LeftAt(x)' <= Len(inbox[x]) + Len(answers'[x])
    <3>1. CASE x = left[i]
      <4>1. inbox'[x] = Append(inbox[x], msg)
        BY <2>1, <2>7, <2>10, <3>1
      <4>2. LeftAt(x)' = Len(inbox[x]) + Len(answers'[x])
        BY <2>3, <2>9, <3>1, <4>1, AskedLeft
      <4>3. LeftAt(x)' \in Int
        BY SentTypesNext
      <4> QED BY <4>2, <4>3
    <3>2. CASE x # left[i]
      <4>1. inbox'[x] = inbox[x]
        BY <2>7, <2>10, <3>2
      <4> QED BY <4>1, UnaskedLeft
    <3> QED BY <3>1, <3>2
  <2> QED BY <2>8, <2>11
<1> QED BY <1>1, <1>2 DEF AskNext

\* The worker goes on: only of the storage node it waited for may more be
\* left over.
LEMMA ProceedLeft ==
    ASSUME Typed, Typed', LeftOk, work # Idle, NEW ok, NEW data, Proceed(ok, data),
           NEW s, s = Head(work.left), \A x \in Storage : x # s => answers'[x] = answers[x]
    PROVE  /\ LeftOk' /\ \A x \in Storage : x # s => LeftAt(x)' <= LeftAt(x)
           /\ LeftAt(s)' <= Len(inbox[s]) + Len(answers'[s])
<1>0. PICK rest : rest = Tail(work.left)
  OBVIOUS
<1>1. /\ s \in Storage /\ s \in Asked /\ (work.kind = "GET" \/ rest = << >> => Asked = {s})
      /\ rest # << >> => /\ rest \in Seq(Storage) /\ Len(rest) = 1
                         /\ rest[1] \in Storage /\ rest[1] # s
                         /\ work.kind # "GET" => Asked = {s, rest[1]}
  BY <1>0, AskedFew
<1>2. ASSUME NEW x \in Storage, x # s, x \notin Asked
      PROVE  LeftAt(x) = Len(inbox[x]) + Len(answers'[x])
  BY <1>2, LeftAtCases DEF Sent
<1>3. CASE /\ work.kind = "GET" \/ rest = << >>
           /\ LeftOk' /\ \A x \in Storage : LeftAt(x)' <= Len(inbox[x]) + Len(answers'[x])
  <2>1. ASSUME NEW x \in Storage, x # s PROVE LeftAt(x)' <= LeftAt(x)
    BY <1>1, <1>2, <1>3, <2>1
  <2> QED BY <1>1, <1>3, <2>1
<1>4. ASSUME rest # << >>
      PROVE  rest \in Seq(Storage) /\ Apart(rest) /\ {rest[i] : i \in 1..Len(rest)} = {rest[1]}
  <2>1. rest \in Seq(Storage) /\ Len(rest) = 1
    BY <1>1, <1>4
  <2>2. Len(rest) <= 2 /\ Len(rest) # 2
    BY ONLY <2>1
  <2>3. 1..Len(rest) = {1}
    BY ONLY <2>1
  <2> QED BY <2>1, <2>2, <2>3 DEF Apart
<1>5. CASE /\ work.kind \in {"PUT", "DELETE"} /\ rest # << >>
           /\ work' = [work EXCEPT !.left = rest, !.ok = AllOk(ok)]
           /\ inbox' = inbox
  <2>1. /\ work' # Idle /\ work'.left = rest /\ work'.kind = work.kind /\ work'.id = work.id
        /\ work'.req = work.req
    BY <1>5, WorkFacts DEF Typed, Work, Idle
  <2>2. LeftOk'
    BY <1>4, <1>5, <2>1 DEF LeftOk
  <2>3. Asked' = {rest[1]}
    <3>1. {rest[i] : i \in 1..Len(rest)} = {rest[1]}
      BY <1>4, <1>5
    <3> QED BY <1>5, <2>1, <3>1 DEF Asked
  <2>4. ASSUME NEW x \in Storage, x # s PROVE LeftAt(x)' <= LeftAt(x)
    <3>1. (x \in Asked' <=> x \in Asked) /\ (Expected(x)' <=> Expected(x)) /\ Sent(x)' = Sent(x)
      <4>1. x \in Asked' <=> x \in Asked
        BY <1>1, <1>5, <2>3, <2>4
      <4>2. Sent(x)' = Sent(x)
        BY <1>5, <2>4 DEF Sent
      <4>3. Expected(x)' <=> Expected(x)
        BY <1>5, <2>1, <2>4 DEF Expected, Matches
      <4> QED BY <4>1, <4>2, <4>3
    <3>2. LeftAt(x)' = LeftAt(x)
      BY <3>1 DEF LeftAt
    <3>3. LeftAt(x) \in Int
      BY SentTypes
    <3> QED BY <3>2, <3>3
  <2> QED BY <1>1, <1>5, <2>2, <2>4, UnaskedLeft
<1>6. CASE work.kind = "GET" /\ AskNext(work.req, rest)
  <2>1. rest \in Seq(Storage) /\ Apart(rest)
    <3>1. CASE rest = << >>
      <4>1. rest \in Seq(Storage) /\ Len(rest) = 0
        BY <3>1, EmptySeq
      <4> QED BY <4>1 DEF Apart
    <3>2. CASE rest # << >>
      BY <1>4, <3>2
    <3> QED BY <3>1, <3>2
  <2>2. LeftOk' /\ \A x \in Storage : LeftAt(x)' <= Len(inbox[x]) + Len(answers'[x])
    BY <1>6, <2>1, AskNextLeft
  <2> QED BY <1>3, <1>6, <2>2
<1>7. \/ work.kind \in {"PUT", "DELETE"} /\ rest # << >>
         /\ work' = [work EXCEPT !.left = rest, !.ok = AllOk(ok)] /\ inbox' = inbox
      \/ (work.kind = "GET" \/ rest = << >>) /\ work' = Idle /\ inbox' = inbox
      \/ work.kind = "GET" /\ AskNext(work.req, rest)
  BY <1>0 DEF Proceed, StillLeft
<1>8. CASE (work.kind = "GET" \/ rest = << >>) /\ work' = Idle /\ inbox' = inbox
  <2>1. LeftOk' /\ \A x \in Storage : LeftAt(x)' <= Len(inbox[x]) + Len(answers'[x])
    BY <1>8, UnaskedLeft DEF LeftOk
  <2> QED BY <1>3, <1>8, <2>1
<1> QED BY <1>5, <1>6, <1>7, <1>8

\* The worker takes the answer it waits for.
LEMMA WorkerReceiveLeft ==
    ASSUME Typed, Typed', LeftoverInv, WorkerReceive
    PROVE  LeftoverInv'
<1>1. work # Idle /\ timeouts' = timeouts /\ restarts' = restarts /\ LeftOk
  BY DEF WorkerReceive, LeftoverInv
<1>2. PICK s : s = Head(work.left)
  OBVIOUS
<1>3. PICK i, ok, data :
        /\ i \in 1..Len(answers[s])
        /\ Matches(answers[s][i]) /\ answers' = [answers EXCEPT ![s] = Erased(answers[s], i)]
        /\ Proceed(ok, data)
  BY <1>2 DEF WorkerReceive
<1>4. s \in Storage /\ s \in Asked /\ answers \in [Storage -> Seq(Answer)]
  BY <1>1, <1>2, AskedFew DEF Typed, StorageTyped
<1>5. /\ LeftOk' /\ \A x \in Storage : x # s => LeftAt(x)' <= LeftAt(x)
      /\ LeftAt(s)' <= Len(inbox[s]) + Len(answers'[s])
  <2>1. \A x \in Storage : x # s => answers'[x] = answers[x]
    BY <1>3, <1>4
  <2> QED BY <1>1, <1>2, <1>3, <2>1, ProceedLeft
<1>6. LeftAt(s)' <= LeftAt(s)
  <2>1. PICK q : q = answers[s] /\ q \in Seq(Answer) /\ i \in 1..Len(q) /\ answers'[s] = Erased(q, i)
    BY <1>3, <1>4
  <2>2. PICK n \in Nat : n = Len(q) /\ i \in 1..n
    BY <2>1, LenProperties
  <2>3. Len(Erased(q, i)) = n - 1
    <3>1. /\ \A j \in 1..i - 1 : q[j] \in Answer
          /\ \A j \in i + 1..n : q[j] \in Answer
      BY <2>1, <2>2, ElementOfSeq
    <3>2. /\ SubSeq(q, 1, i - 1) \in Seq(Answer)
          /\ Len(SubSeq(q, 1, i - 1)) = IF 1 <= i - 1 THEN i - 1 - 1 + 1 ELSE 0
      BY <2>2, <3>1, SubSeqProperties
    <3>3. /\ SubSeq(q, i + 1, n) \in Seq(Answer)
          /\ Len(SubSeq(q, i + 1, n)) = IF i + 1 <= n THEN n - (i + 1) + 1 ELSE 0
      BY <2>2, <3>1, SubSeqProperties
    <3>4. Len(SubSeq(q, 1, i - 1)) = i - 1 /\ Len(SubSeq(q, i + 1, n)) = n - i
      BY <2>2, <3>2, <3>3
    <3>5. Len(Erased(q, i)) = Len(SubSeq(q, 1, i - 1)) + Len(SubSeq(q, i + 1, n))
      BY <2>2, <3>2, <3>3, ConcatProperties DEF Erased
    <3>6. Len(Erased(q, i)) = (i - 1) + (n - i)
      BY <3>4, <3>5
    <3> QED BY <2>2, <3>6
  <2>4. Expected(s)
    BY <1>3 DEF Expected
  <2>5. PICK b \in Nat : b = Len(inbox[s])
    BY <1>4, SentTypes
  <2>6. LeftAt(s) = b + n - 1
    <3>1. LeftAt(s) = Sent(s) - 1
      BY <1>4, <2>4, LeftAtCases
    <3>2. Sent(s) = b + n
      BY <2>1, <2>2, <2>5 DEF Sent
    <3> QED BY <3>1, <3>2
  <2>7. LeftAt(s)' <= b + (n - 1)
    BY <1>5, <2>1, <2>3, <2>5
  <2>8. b + n - 1 = b + (n - 1)
    BY <2>2, <2>5
  <2> QED BY <2>6, <2>7, <2>8
<1>7. Excused' = Excused /\ Excused \in Nat
  BY <1>1, SentTypes DEF Excused
<1> QED BY <1>5, <1>6, <1>7, LeftStep

\* The worker stops waiting: too early, or nothing is to come.
LEMMA WorkerTimeoutLeft ==
    ASSUME Typed, Typed', LeftoverInv, WorkerTimeout
    PROVE  LeftoverInv'
<1>1. work # Idle /\ restarts' = restarts /\ LeftOk /\ answers' = answers
      /\ Proceed(FALSE, << >>)
  BY DEF WorkerTimeout, LeftoverInv
<1>2. PICK s : s = Head(work.left)
  OBVIOUS
<1>3. /\ ~\E i \in 1..Len(answers[s]) : Matches(answers[s][i])
      /\ IF \E i \in 1..Len(inbox[s]) : inbox[s][i].id = work.id
         THEN timeouts' = timeouts + 1 ELSE timeouts' = timeouts
  BY <1>2 DEF WorkerTimeout, Early
<1>4. s \in Storage
  BY <1>1, <1>2, AskedFew
<1>5. /\ LeftOk' /\ \A x \in Storage : x # s => LeftAt(x)' <= LeftAt(x)
      /\ LeftAt(s)' <= Len(inbox[s]) + Len(answers'[s])
  <2>1. \A x \in Storage : x # s => answers'[x] = answers[x]
    BY <1>1
  <2> QED BY <1>1, <1>2, <2>1, ProceedLeft
<1>6. LeftAt(s)' <= Sent(s) /\ Sent(s) \in Nat /\ LeftAt(s)' \in Int /\ LeftAt(s) \in Int
  BY <1>1, <1>4, <1>5, SentTypes, SentTypesNext DEF Sent
<1>7. CASE timeouts' = timeouts + 1
  <2>1. Excused' = Excused + 1 /\ Excused \in Nat
    BY <1>1, <1>7, SentTypes DEF Excused
  <2>2. LeftAt(s) >= Sent(s) - 1
    BY <1>4, LeftAtCases
  <2>3. LeftAt(s)' <= LeftAt(s) + 1
    BY <1>6, <2>2
  <2>4. 1 \in Nat /\ Excused' >= Excused + 1
    BY <2>1
  <2> QED BY <1>4, <1>5, <2>3, <2>4, LeftStep
<1>8. CASE timeouts' = timeouts /\ ~\E i \in 1..Len(inbox[s]) : inbox[s][i].id = work.id
  <2>1. ~Expected(s)
    BY <1>3, <1>8 DEF Expected, Matches
  <2>2. LeftAt(s) = Sent(s)
    BY <1>4, <2>1, LeftAtCases
  <2>3. \A x \in Storage : LeftAt(x)' <= LeftAt(x)
    BY <1>5, <1>6, <2>2
  <2>4. Excused' = Excused /\ Excused \in Nat
    BY <1>1, <1>8, SentTypes DEF Excused
  <2> QED BY <1>5, <2>3, <2>4, LeftStep
<1> QED BY <1>3, <1>7, <1>8

\* The worker takes a request from its queue.
LEMMA WorkerHandleLeft ==
    ASSUME Typed, Typed', LeftoverInv, WorkerHandle
    PROVE  LeftoverInv'
<1>1. /\ timeouts' = timeouts /\ restarts' = restarts /\ answers' = answers /\ work = Idle
      /\ jobs # << >>
  BY DEF WorkerHandle, HandleCreateFile, HandleWriteFile, HandleWriteChunk, HandleReadFile,
         HandleReadChunk, HandleRemove, HandleRename, HandleMakeDir, HandleList, HandleStat,
         storageVars, Taking
<1>2. Excused' = Excused /\ Excused \in Nat
  BY <1>1, SentTypes DEF Excused
<1>3. CASE UNCHANGED <<inbox, work>>
  BY <1>1, <1>2, <1>3, QuietLeft
<1>4. CASE HandleWriteChunk /\ ~UNCHANGED <<inbox, work>>
  <2>1. PICK req : req = Head(jobs)
    OBVIOUS
  <2>2. PICK w : w = pending_writes[key(req)]
    OBVIOUS
  <2>3. PICK msg : msg = StorageRequest(req.id, "PUT", w.obj, req.x,
                          req.x + 1 = w.count, << <<req.v, req.x>> >>)
    OBVIOUS
  <2>4. /\ key(req) \in DOMAIN pending_writes
        /\ SendBoth(w.replicas, msg) /\ Wait("PUT", req, req.id, w.replicas)
    BY <1>4, <2>1, <2>2, <2>3 DEF HandleWriteChunk
  <2>5. w.replicas \in Pair
    BY <2>2, <2>4, PendingFacts DEF Typed
  <2>6. msg.id = req.id /\ msg.job = "PUT" /\ msg.i = req.x
    BY <2>3 DEF StorageRequest
  <2> QED BY <1>1, <2>4, <2>5, <2>6, SendBothLeft
<1>5. CASE HandleRemove /\ ~UNCHANGED <<inbox, work>>
  <2>1. PICK req : req = Head(jobs)
    OBVIOUS
  <2>2. PICK m : m = meta[req.p]
    OBVIOUS
  <2>3. PICK id : id = sid'
    OBVIOUS
  <2>4. PICK msg : msg = StorageRequest(id, "DELETE", m.obj, 0, FALSE, << >>)
    OBVIOUS
  <2>5. /\ req.p \in DOMAIN meta /\ m.replicas # None
        /\ SendBoth(m.replicas, msg) /\ Wait("DELETE", req, id, m.replicas)
    BY <1>5, <2>1, <2>2, <2>3, <2>4 DEF HandleRemove
  <2>6. m.replicas \in Pair
    BY <2>2, <2>5, MetaFacts DEF Typed
  <2>7. msg.id = id /\ msg.job = "DELETE"
    BY <2>4 DEF StorageRequest
  <2> QED BY <1>1, <2>5, <2>6, <2>7, SendBothLeft
<1>6. CASE HandleReadChunk /\ ~UNCHANGED <<inbox, work>>
  <2>1. PICK req : req = Head(jobs)
    OBVIOUS
  <2>2. PICK r : r = pending_reads[key(req)]
    OBVIOUS
  <2>3. key(req) \in DOMAIN pending_reads /\ AskNext(req, r.replicas)
    BY <1>6, <2>1, <2>2 DEF HandleReadChunk
  <2>4. r.replicas \in Pair
    BY <2>2, <2>3, PendingFacts DEF Typed
  <2>5. r.replicas \in Seq(Storage) /\ Apart(r.replicas)
    <3>1. r.replicas \in Seq(Storage) /\ Len(r.replicas) = 2 /\ r.replicas[1] # r.replicas[2]
      BY <2>4, PairFacts DEF Pair
    <3> QED BY <3>1 DEF Apart
  <2>6. LeftOk' /\ \A x \in Storage : LeftAt(x)' <= Len(inbox[x]) + Len(answers'[x])
    BY <2>3, <2>5, AskNextLeft
  <2>7. ASSUME NEW x \in Storage PROVE LeftAt(x)' <= LeftAt(x)
    <3>1. LeftAt(x) = Sent(x)
      BY <1>1, LeftAtCases DEF Asked
    <3> QED BY <1>1, <2>6, <3>1 DEF Sent
  <2> QED BY <1>2, <2>6, <2>7, LeftStep
<1>7. UNCHANGED <<inbox, work>> \/ HandleWriteChunk \/ HandleRemove \/ HandleReadChunk
  BY DEF WorkerHandle, HandleCreateFile, HandleWriteFile, HandleReadFile, HandleRename,
         HandleMakeDir, HandleList, HandleStat, storageVars
<1> QED BY <1>3, <1>4, <1>5, <1>6, <1>7

\* Clients and heartbeats leave the messages of the storage nodes alone.
LEMMA ElsewhereLeft ==
    ASSUME Typed, Typed', LeftoverInv,
           \/ \E c \in Client : Issue(c) \/ ClientReceive(c) \/ ClientTimeout(c) \/ ClientRestart(c)
           \/ \E s \in Storage : HandleHeartbeat(s) \/ ExpireHeartbeat(s)
           \/ UNCHANGED vars
    PROVE  LeftoverInv'
<1>0. \/ \E c \in Client : Issue(c)
      \/ \E c \in Client : ClientReceive(c) \/ ClientTimeout(c) \/ ClientRestart(c)
      \/ \E s \in Storage : HandleHeartbeat(s) \/ ExpireHeartbeat(s)
      \/ UNCHANGED vars
  OBVIOUS
<1>1. UNCHANGED <<inbox, answers, work>>
  <2>1. ASSUME NEW c \in Client, Issue(c) PROVE UNCHANGED <<inbox, answers, work>>
    BY <2>1 DEF Issue, Begin, storageVars
  <2> QED BY <1>0, <2>1 DEF ClientReceive, ClientTimeout, ClientRestart, HandleHeartbeat,
                            ExpireHeartbeat, vars, storageVars
<1>2. timeouts' = timeouts \/ timeouts' = timeouts + 1
  <2>1. ASSUME NEW c \in Client, Issue(c) PROVE timeouts' = timeouts
    BY <2>1 DEF Issue, Begin
  <2> QED BY <1>0, <2>1 DEF ClientReceive, ClientTimeout, ClientRestart, HandleHeartbeat,
                            ExpireHeartbeat, vars, Early
<1>3. restarts' = restarts \/ restarts' = [restarts EXCEPT !["client"] = @ + 1]
  <2>1. ASSUME NEW c \in Client, Issue(c) PROVE restarts' = restarts
    BY <2>1 DEF Issue, Begin
  <2> QED BY <1>0, <2>1 DEF ClientReceive, ClientTimeout, ClientRestart, HandleHeartbeat,
                            ExpireHeartbeat, vars, Restart
<1>4. restarts'.metadata = restarts.metadata
  BY <1>3 DEF Typed, MishapsTyped
<1>5. Excused' >= Excused
  BY <1>2, <1>4, SentTypes DEF Excused
<1> QED BY <1>1, <1>5, QuietLeft

\* At the start nothing is left over.
LEMMA InitLeft == ASSUME Init PROVE LeftoverInv
<1>1. work = Idle /\ LeftOk
  BY DEF Init, LeftOk
<1>2. ASSUME NEW x \in Storage PROVE LeftAt(x) = 0
  <2>1. inbox[x] = << >> /\ answers[x] = << >>
    BY DEF Init
  <2>2. Len(inbox[x]) = 0 /\ Len(answers[x]) = 0
    BY <2>1, EmptySeq
  <2>3. Sent(x) = 0
    BY <2>2 DEF Sent
  <2> QED BY <1>1, <2>3 DEF LeftAt, Asked
<1>3. Leftover = {}
  <2>1. ASSUME NEW t \in Leftover PROVE FALSE
    <3>1. PICK x \in Storage : t \in {x} \X (1..LeftAt(x))
      BY <2>1 DEF Leftover, Tokens
    <3>2. LeftAt(x) = 0
      BY <1>2
    <3>3. 1..0 = {}
      OBVIOUS
    <3> QED BY <3>1, <3>2, <3>3
  <2> QED BY <2>1
<1>4. Excused = 0
  BY DEF Init, Excused
<1>5. IsFiniteSet(Leftover) /\ Cardinality(Leftover) = 0
  BY <1>3, FS_EmptySet
<1> QED BY <1>1, <1>4, <1>5 DEF LeftoverInv

\* What is left over is accounted for in every reachable state.
THEOREM LeftoverInvariant == Spec => [](Typed /\ LeftoverInv)
<1>1. Init => Typed /\ LeftoverInv
  BY InitTyped, InitLeft
<1>2. Typed /\ LeftoverInv /\ [Next]_vars => (Typed /\ LeftoverInv)'
  <2> SUFFICES ASSUME Typed, LeftoverInv, [Next]_vars PROVE Typed' /\ LeftoverInv'
    OBVIOUS
  <2>1. Typed'
    BY StepTyped
  <2>2. LeftoverInv'
    BY <2>1, WorkerHandleLeft, WorkerReceiveLeft, WorkerTimeoutLeft, StorageHandleLeft,
       StorageRestartLeft, MetadataRestartLeft, ElsewhereLeft DEF Next
  <2> QED BY <2>1, <2>2
<1> QED BY <1>1, <1>2, PTL DEF Spec

\* Between two jobs the answers that nobody will take, come or still to come,
\* are at most one for each wait that ended too early and two for each restart
\* of the metadata node, whatever the number of clients, nodes and requests:
\* message_queue_ does not fill up with the answers of normal operation.
THEOREM AnswersDoNotPileUp == Spec => []NoLeftoverAnswers
<1>1. Typed /\ LeftoverInv => NoLeftoverAnswers
  <2> SUFFICES ASSUME Typed, LeftoverInv, work = Idle
               PROVE  Cardinality(UNION {{s} \X (1..(Len(answers[s]) + Len(inbox[s]))) : s \in Storage})
                        <= timeouts + 2 * restarts.metadata
    BY DEF NoLeftoverAnswers
  <2>1. ASSUME NEW s \in Storage PROVE LeftAt(s) = Len(answers[s]) + Len(inbox[s])
    <3>1. LeftAt(s) = Len(inbox[s]) + Len(answers[s])
      BY LeftAtCases DEF Asked, Sent
    <3>2. PICK a \in Nat, b \in Nat : a = Len(inbox[s]) /\ b = Len(answers[s])
      BY SentTypes
    <3>3. a + b = b + a
      OBVIOUS
    <3> QED BY <3>1, <3>2, <3>3
  <2>2. Leftover = UNION {{s} \X (1..(Len(answers[s]) + Len(inbox[s]))) : s \in Storage}
    <3>1. Leftover = UNION {{s} \X (1..LeftAt(s)) : s \in Storage}
      BY DEF Leftover, Tokens
    <3> QED BY <2>1, <3>1
  <2> QED BY <2>2 DEF LeftoverInv, Excused
<1> QED BY <1>1, LeftoverInvariant, PTL

-----------------------------------------------------------------------------
(* Leaked storage: the inductive invariant *)

\* No request of a dead metadata node can be under way.
OneEpoch == restarts.metadata = 0

\* Storage node s has data of object o, or will have.
OnDisk(n, o) == n.objects[o] # Absent \/ n.tmp[o] # Absent
PutOf(m, o) == m.job = "PUT" /\ m.o = o
HasData(s, o) == OnDisk(node[s], o) \/ \E i \in 1..Len(inbox[s]) : PutOf(inbox[s][i], o)

\* A file has object o on storage node s.
Homed(s, o) ==
    \E p \in DOMAIN meta : /\ meta[p].obj = o /\ meta[p].replicas # None
                           /\ s \in {meta[p].replicas[1], meta[p].replicas[2]}

\* A pending write goes to the replicas of its file.
ReplicasInv ==
    \A k \in DOMAIN pending_writes, p \in DOMAIN meta :
        meta[p].obj = pending_writes[k].obj => meta[p].replicas = pending_writes[k].replicas

DataInv == \A s \in Storage, o \in Object : HasData(s, o) => Homed(s, o)

\* No request but a PUT, nor the answer to one, has a number that is yet to come.
SidInv ==
    \A s \in Storage :
        /\ \A i \in 1..Len(inbox[s]) : inbox[s][i].job # "PUT" => inbox[s][i].id <= sid
        /\ \A i \in 1..Len(answers[s]) : answers[s][i].job # "PUT" => answers[s][i].id <= sid

\* Message m is the DELETE, or the answer to it, that the worker waits for.
ThisDelete(m) == m.job = "DELETE" /\ m.id = work.id

\* While object o is being deleted on s: behind the DELETE comes no PUT of o,
\* and once s has confirmed it, whether or not the worker has taken that, the
\* data are gone.
Deleting(s, o) ==
    /\ \A i \in 1..Len(inbox[s]) : ThisDelete(inbox[s][i]) =>
          inbox[s][i].o = o /\ \A j \in 1..Len(inbox[s]) : j > i => ~PutOf(inbox[s][j], o)
    /\ \A i \in 1..Len(answers[s]) :
          ThisDelete(answers[s][i]) /\ answers[s][i].status = "Success" => ~HasData(s, o)
    /\ (\E i \in 1..Len(work.left) : work.left[i] = s) \/ (work.ok => ~HasData(s, o))

DeleteInv ==
    work # Idle /\ work.kind = "DELETE" =>
        LET m == meta[work.req.p] IN
        m.replicas # None /\ \A s \in {m.replicas[1], m.replicas[2]} : Deleting(s, m.obj)

EpochInv == OneEpoch => DataInv /\ SidInv /\ DeleteInv

OrphanInv == ReplicasInv /\ EpochInv

-----------------------------------------------------------------------------
(* Leaked storage: what storage nodes do *)

\* Two states of a storage node agree on object o.
SameObject(n, m, o) ==
    n.objects[o] = m.objects[o] /\ n.tmp[o] = m.tmp[o] /\ n.next_chunks[o] = m.next_chunks[o]

\* A PUT touches its own object only.
LEMMA PutElsewhere ==
    ASSUME NEW n \in Node, NEW o \in Object, NEW i \in Nat, NEW final \in BOOLEAN,
           NEW c \in Chunk, NEW out \in write_chunk(n, o, i, final, c),
           NEW x \in Object, x # o
    PROVE  SameObject(out.node, n, x)
<1> DEFINE m == IF i = 0 THEN WithNext(n, o, 0) ELSE n
           broken == WithTmp(m, o, Written(m, o, i, Torn))
           w1 == WithTmp(m, o, Written(m, o, i, c))
           w == WithNext(w1, o, i + 1)
           Failing(nodes, status) == {[node |-> y, status |-> status] : y \in nodes}
           Like == {y \in Node : SameObject(y, n, x)}
<1>1. ASSUME NEW y \in Like, NEW k \in Nat \cup {Absent} PROVE WithNext(y, o, k) \in Like
  <2>1. WithNext(y, o, k) \in Node
    BY NextTyped
  <2>2. y.next_chunks \in [Object -> Nat \cup {Absent}]
    BY DEF Node
  <2> QED BY <2>1, <2>2 DEF WithNext, SameObject
<1>2. ASSUME NEW y \in Like, NEW f \in StoredFile PROVE WithTmp(y, o, f) \in Like
  <2>1. WithTmp(y, o, f) \in Node
    BY TmpTyped
  <2>2. y.tmp \in [Object -> StoredFile]
    BY DEF Node
  <2> QED BY <2>1, <2>2 DEF WithTmp, SameObject
<1>3. ASSUME NEW y \in Like PROVE abort_write(y, o) \subseteq Like
  <2>1. Absent \in StoredFile
    BY DEF StoredFile
  <2> QED BY <1>2, <2>1 DEF abort_write
<1>4. ASSUME NEW y \in Like PROVE Finished(y, o) \in Like
  <2>1. Finished(y, o) \in Node
    BY FinishedTyped
  <2>2. /\ y.tmp \in [Object -> StoredFile] /\ y.objects \in [Object -> StoredFile]
        /\ y.next_chunks \in [Object -> Nat \cup {Absent}]
    BY DEF Node
  <2> QED BY <2>1, <2>2 DEF Finished, SameObject
<1>5. m \in Like
  <2>1. n \in Like /\ 0 \in Nat \cup {Absent}
    BY DEF SameObject
  <2> HIDE DEF Like
  <2> QED BY <1>1, <2>1
<1>6. broken \in Like /\ w1 \in Like
  <2>1. m \in Node
    BY <1>5
  <2>2. Written(m, o, i, Torn) \in StoredFile /\ Written(m, o, i, c) \in StoredFile
    BY <2>1, WrittenTyped
  <2> HIDE DEF Like, m
  <2> QED BY <1>2, <1>5, <2>2
<1>7. w \in Like
  <2> HIDE DEF Like, w1
  <2> QED BY <1>1, <1>6
<1>8. \/ out \in Failing(abort_write(m, o), "InvalidRequest")
      \/ out \in Failing(abort_write(m, o), "NoSpace")
      \/ out \in Failing(abort_write(m, o) \cup abort_write(broken, o), "WriteError")
      \/ out \in Failing(abort_write(w, o), "WriteError")
      \/ out = [node |-> Finished(w, o), status |-> "Success"]
      \/ out = [node |-> w, status |-> "Success"]
  BY DEF write_chunk
<1>9. out.node \in Like
  <2> HIDE DEF m, broken, w1, w, Like
  <2>1. abort_write(m, o) \subseteq Like /\ abort_write(broken, o) \subseteq Like
        /\ abort_write(w, o) \subseteq Like /\ Finished(w, o) \in Like
    BY <1>3, <1>4, <1>5, <1>6, <1>7
  <2>2. ASSUME NEW N \in SUBSET Like, NEW st, out \in Failing(N, st) PROVE out.node \in Like
    BY <2>2
  <2> QED BY <1>7, <1>8, <2>1, <2>2
<1> QED BY <1>9

\* A DELETE touches its own object only, and removes it if it succeeds.
LEMMA DeleteGone ==
    ASSUME NEW n \in Node, NEW o \in Object, NEW out \in delete_object(n, o), NEW x \in Object
    PROVE  /\ OnDisk(out.node, x) => OnDisk(n, x)
           /\ x = o /\ out.status = "Success" => ~OnDisk(out.node, x)
           /\ x # o => SameObject(out.node, n, x)
<1>1. /\ n.objects \in [Object -> StoredFile] /\ n.tmp \in [Object -> StoredFile]
      /\ n.next_chunks \in [Object -> Nat \cup {Absent}]
  BY DEF Node
<1> QED BY <1>1 DEF delete_object, WithNext, WithTmp, OnDisk, SameObject

\* A storage node has data of an object only because of a PUT, and none once
\* it has confirmed a DELETE.
LEMMA OutcomeData ==
    ASSUME StorageTyped, NEW s \in Storage, NEW m \in StorageRequests, NEW out \in Outcomes(s, m),
           NEW o \in Object
    PROVE  /\ OnDisk(out.node, o) => OnDisk(node[s], o) \/ PutOf(m, o)
           /\ m.job = "DELETE" /\ m.o = o /\ out.status = "Success" => ~OnDisk(out.node, o)
           /\ m.job = "GET" \/ m.o # o => SameObject(out.node, node[s], o)
<1>1. /\ m.job \in StorageJobs /\ m.o \in Object /\ m.i \in Nat /\ m.final \in BOOLEAN
      /\ m.job = "PUT" => m.data[1] \in Chunk
  BY Bounds DEF StorageRequests
<1>2. node[s] \in Node
  BY DEF StorageTyped
<1>3. CASE m.job = "PUT"
  <2>1. out \in write_chunk(node[s], m.o, m.i, m.final, m.data[1])
    BY <1>3 DEF Outcomes
  <2>2. o # m.o => SameObject(out.node, node[s], o)
    BY <1>1, <1>2, <1>3, <2>1, PutElsewhere
  <2> QED BY <1>3, <2>2 DEF PutOf, SameObject, OnDisk
<1>4. CASE m.job = "DELETE"
  <2>1. out \in delete_object(node[s], m.o)
    BY <1>4 DEF Outcomes
  <2> QED BY <1>1, <1>2, <1>4, <2>1, DeleteGone
<1>5. CASE m.job = "GET"
  <2>1. out \in get_chunk(node[s], m.o, m.i)
    BY <1>5 DEF Outcomes
  <2>2. out.node = node[s]
    BY <1>1, <1>2, <2>1, GetTyped
  <2> QED BY <1>5, <2>2 DEF SameObject
<1> QED BY <1>1, <1>3, <1>4, <1>5 DEF StorageJobs

\* A node that starts again has what it had.
LEMMA RestartedData == ASSUME NEW n, NEW o PROVE OnDisk(Restarted(n), o) <=> OnDisk(n, o)
BY DEF OnDisk, Restarted

\* What a storage node does with the oldest of its requests.
LEMMA StorageHandleFacts ==
    ASSUME Typed, Typed', NEW s \in Storage, StorageHandle(s)
    PROVE  \E m \in StorageRequests, n \in Nat, l \in Nat, a \in Answer :
             /\ n = Len(inbox[s]) /\ n # 0 /\ m = inbox[s][1] /\ Len(inbox'[s]) = n - 1
             /\ \A i \in 1..(n - 1) : inbox'[s][i] = inbox[s][i + 1]
             /\ l = Len(answers[s]) /\ Len(answers'[s]) = l + 1
             /\ \A i \in 1..l : answers'[s][i] = answers[s][i]
             /\ answers'[s][l + 1] = a /\ a.id = m.id /\ a.job = m.job /\ a.i = m.i
             /\ \A o \in Object :
                  /\ OnDisk(node'[s], o) => OnDisk(node[s], o) \/ PutOf(m, o)
                  /\ m.job = "DELETE" /\ m.o = o /\ a.status = "Success" => ~OnDisk(node'[s], o)
                  /\ m.job = "GET" \/ m.o # o => SameObject(node'[s], node[s], o)
             /\ \A x \in Storage : x # s => inbox'[x] = inbox[x] /\ answers'[x] = answers[x]
                                            /\ node'[x] = node[x]
<1>0. PICK m : m = Head(inbox[s])
  OBVIOUS
<1>1. PICK out, a :
        /\ out \in Outcomes(s, m)
        /\ a.id = m.id /\ a.job = m.job /\ a.i = m.i /\ a.status = out.status
        /\ node' = [node EXCEPT ![s] = out.node]
        /\ answers' = [answers EXCEPT ![s] = Append(answers[s], a)]
  BY <1>0 DEF StorageHandle
<1>2. inbox[s] # << >> /\ inbox' = [inbox EXCEPT ![s] = Tail(inbox[s])]
  BY DEF StorageHandle
<1>3. /\ inbox \in [Storage -> Seq(StorageRequests)] /\ answers \in [Storage -> Seq(Answer)]
      /\ answers' \in [Storage -> Seq(Answer)] /\ node \in [Storage -> Node] /\ StorageTyped
  BY DEF Typed, StorageTyped
<1>4. PICK q : /\ q = inbox[s] /\ q # << >> /\ q \in Seq(StorageRequests)
               /\ inbox'[s] = Tail(q) /\ m = q[1] /\ m \in StorageRequests
  BY <1>0, <1>2, <1>3, HeadTailProperties
<1>5. PICK n \in Nat : n = Len(q) /\ n # 0
  BY <1>4, LenProperties, EmptySeq
<1>6. Len(inbox'[s]) = n - 1 /\ \A i \in 1..(n - 1) : inbox'[s][i] = q[i + 1]
  <2>1. Len(Tail(q)) = Len(q) - 1 /\ \A i \in 1..Len(Tail(q)) : Tail(q)[i] = q[i + 1]
    BY <1>4, HeadTailProperties
  <2>2. Len(Tail(q)) = n - 1
    BY <1>5, <2>1
  <2> QED BY <1>4, <2>1, <2>2
<1>7. PICK r : r = answers[s] /\ r \in Seq(Answer) /\ answers'[s] = Append(r, a)
  BY <1>1, <1>3
<1>8. PICK l \in Nat : l = Len(r)
  BY <1>7, LenProperties
<1>9. /\ Len(answers'[s]) = l + 1 /\ answers'[s][l + 1] = a
      /\ \A i \in 1..l : answers'[s][i] = r[i]
  BY <1>7, <1>8
<1>10. a \in Answer
  <2>1. answers'[s] \in Seq(Answer) /\ l + 1 \in 1..Len(answers'[s])
    BY <1>3, <1>8, <1>9
  <2> QED BY <1>9, <2>1, ElementOfSeq
<1>11. ASSUME NEW o \in Object
       PROVE  /\ OnDisk(node'[s], o) => OnDisk(node[s], o) \/ PutOf(m, o)
              /\ m.job = "DELETE" /\ m.o = o /\ a.status = "Success" => ~OnDisk(node'[s], o)
              /\ m.job = "GET" \/ m.o # o => SameObject(node'[s], node[s], o)
  <2>1. node'[s] = out.node
    BY <1>1, <1>3
  <2>2. /\ OnDisk(out.node, o) => OnDisk(node[s], o) \/ PutOf(m, o)
        /\ m.job = "DELETE" /\ m.o = o /\ out.status = "Success" => ~OnDisk(out.node, o)
        /\ m.job = "GET" \/ m.o # o => SameObject(out.node, node[s], o)
    BY <1>1, <1>3, <1>4, OutcomeData
  <2> QED BY <1>1, <2>1, <2>2
<1>12. \A x \in Storage : x # s => inbox'[x] = inbox[x] /\ answers'[x] = answers[x]
                                   /\ node'[x] = node[x]
  BY <1>1, <1>2, <1>3
<1>13. /\ n = Len(inbox[s]) /\ m = inbox[s][1] /\ l = Len(answers[s])
       /\ \A i \in 1..(n - 1) : inbox'[s][i] = inbox[s][i + 1]
       /\ \A i \in 1..l : answers'[s][i] = answers[s][i]
  BY <1>4, <1>5, <1>6, <1>7, <1>8, <1>9
<1>14. Len(inbox'[s]) = n - 1 /\ Len(answers'[s]) = l + 1 /\ answers'[s][l + 1] = a
  BY <1>6, <1>9
<1>15. m \in StorageRequests /\ a.id = m.id /\ a.job = m.job /\ a.i = m.i
  BY <1>1, <1>4
<1> QED BY <1>5, <1>10, <1>11, <1>12, <1>13, <1>14, <1>15

\* How the node is afterwards, and what it answers.
LEMMA StorageHandleOutcome ==
    ASSUME Typed, NEW s \in Storage, StorageHandle(s)
    PROVE  \E out \in Outcomes(s, inbox[s][1]) :
              LET a == answers'[s][Len(answers[s]) + 1] IN
              /\ node'[s] = out.node /\ a.status = out.status
              /\ inbox[s][1].job = "GET" => a.data = out.data
<1>0. PICK m : m = Head(inbox[s])
  OBVIOUS
<1>1. PICK out, a :
        /\ out \in Outcomes(s, m) /\ a.status = out.status /\ (m.job = "GET" => a.data = out.data)
        /\ node' = [node EXCEPT ![s] = out.node]
        /\ answers' = [answers EXCEPT ![s] = Append(answers[s], a)]
  BY <1>0 DEF StorageHandle
<1>2. /\ inbox[s] \in Seq(StorageRequests) /\ inbox[s] # << >> /\ answers \in [Storage -> Seq(Answer)]
      /\ node \in [Storage -> Node]
  BY DEF Typed, StorageTyped, StorageHandle
<1>3. m = inbox[s][1]
  BY <1>0, <1>2, HeadTailProperties
<1>4. node'[s] = out.node /\ answers'[s] = Append(answers[s], a) /\ answers[s] \in Seq(Answer)
  BY <1>1, <1>2
<1>5. PICK n \in Nat : n = Len(answers[s])
  BY <1>4, LenProperties
<1>6. answers'[s][n + 1] = a
  BY <1>4, <1>5
<1> QED BY <1>1, <1>3, <1>4, <1>5, <1>6

\* What a restart leaves of a storage node and its requests.
LEMMA StorageRestartFacts ==
    ASSUME Typed, NEW s \in Storage, StorageRestart(s)
    PROVE  /\ \E n \in Nat, k \in Nat :
                /\ n = Len(inbox[s]) /\ k <= n /\ Len(inbox'[s]) = n - k
                /\ \A i \in 1..(n - k) : inbox'[s][i] = inbox[s][i + k]
           /\ \A o \in Object :
                /\ OnDisk(node'[s], o) => HasData(s, o)
                /\ node'[s].next_chunks[o] = Absent
                /\ \/ node'[s].objects[o] = node[s].objects[o]
                   \/ \E i \in 1..Len(inbox[s]) : inbox[s][i].job # "GET" /\ inbox[s][i].o = o
           /\ \A x \in Storage : x # s => inbox'[x] = inbox[x] /\ node'[x] = node[x]
<1>1. PICK k \in 0..Len(inbox[s]) :
         /\ inbox' = [inbox EXCEPT ![s] = SubSeq(inbox[s], k + 1, Len(inbox[s]))]
         /\ \/ node' = [node EXCEPT ![s] = Restarted(node[s])]
            \/ /\ k > 0
               /\ \E out \in Outcomes(s, Head(inbox[s])) :
                     node' = [node EXCEPT ![s] = Restarted(out.node)]
  BY DEF StorageRestart
<1>2. /\ inbox \in [Storage -> Seq(StorageRequests)] /\ node \in [Storage -> Node] /\ StorageTyped
  BY DEF Typed, StorageTyped
<1>3. PICK q : q = inbox[s] /\ q \in Seq(StorageRequests)
  BY <1>2
<1>4. PICK n \in Nat : n = Len(q) /\ k \in 0..n /\ n = Len(inbox[s])
  BY <1>1, <1>3, LenProperties
<1>5. Len(inbox'[s]) = n - k /\ \A i \in 1..(n - k) : inbox'[s][i] = q[i + k]
  <2>1. \A j \in (k + 1)..n : q[j] \in StorageRequests
    BY <1>3, <1>4, ElementOfSeq
  <2>2. /\ Len(SubSeq(q, k + 1, n)) = IF k + 1 <= n THEN n - (k + 1) + 1 ELSE 0
        /\ \A i \in 1..(n - (k + 1) + 1) : SubSeq(q, k + 1, n)[i] = q[k + 1 + i - 1]
    BY <1>4, <2>1, SubSeqProperties
  <2>3. inbox'[s] = SubSeq(q, k + 1, n)
    BY <1>1, <1>2, <1>3, <1>4
  <2>4. Len(inbox'[s]) = n - k
    BY <1>4, <2>2, <2>3
  <2>5. ASSUME NEW i \in 1..(n - k) PROVE inbox'[s][i] = q[i + k]
    <3>1. i \in 1..(n - (k + 1) + 1) /\ k + 1 + i - 1 = i + k
      BY <1>4
    <3> QED BY <2>2, <2>3, <3>1
  <2> QED BY <2>4, <2>5
<1>6. ASSUME NEW o \in Object, OnDisk(node'[s], o) PROVE HasData(s, o)
  <2>1. CASE node' = [node EXCEPT ![s] = Restarted(node[s])]
    <3>1. node'[s] = Restarted(node[s])
      BY <1>2, <2>1
    <3> QED BY <1>6, <3>1, RestartedData DEF HasData
  <2>2. CASE k > 0 /\ \E out \in Outcomes(s, Head(inbox[s])) :
                         node' = [node EXCEPT ![s] = Restarted(out.node)]
    <3>1. PICK m : m = Head(q)
      OBVIOUS
    <3>2. PICK out \in Outcomes(s, m) : node' = [node EXCEPT ![s] = Restarted(out.node)]
      BY <1>3, <2>2, <3>1
    <3>3. OnDisk(out.node, o)
      <4>1. node'[s] = Restarted(out.node)
        BY <1>2, <3>2
      <4> QED BY <1>6, <4>1, RestartedData
    <3>4. q # << >> /\ 1 \in 1..n
      <4>1. n # 0 /\ 1 \in 1..n
        BY <1>4, <2>2
      <4>2. Len(q) # 0
        BY <1>4, <4>1
      <4>3. Len(<< >>) = 0
        BY EmptySeq
      <4> QED BY <4>1, <4>2, <4>3
    <3>5. m = q[1] /\ m \in StorageRequests
      BY <1>3, <3>1, <3>4, HeadTailProperties
    <3>6. OnDisk(node[s], o) \/ PutOf(m, o)
      BY <1>2, <3>2, <3>3, <3>5, OutcomeData
    <3> QED BY <1>3, <1>4, <3>4, <3>5, <3>6 DEF HasData
  <2> QED BY <1>1, <2>1, <2>2
<1>8. ASSUME NEW o \in Object
      PROVE  /\ node'[s].next_chunks[o] = Absent
             /\ \/ node'[s].objects[o] = node[s].objects[o]
                \/ \E i \in 1..Len(inbox[s]) : inbox[s][i].job # "GET" /\ inbox[s][i].o = o
  <2>1. CASE node' = [node EXCEPT ![s] = Restarted(node[s])]
    BY <1>2, <2>1 DEF Restarted
  <2>2. CASE k > 0 /\ \E out \in Outcomes(s, Head(inbox[s])) :
                         node' = [node EXCEPT ![s] = Restarted(out.node)]
    <3>1. PICK m : m = Head(q)
      OBVIOUS
    <3>2. PICK out \in Outcomes(s, m) : node' = [node EXCEPT ![s] = Restarted(out.node)]
      BY <1>3, <2>2, <3>1
    <3>3. node'[s].next_chunks[o] = Absent /\ node'[s].objects[o] = out.node.objects[o]
      BY <1>2, <3>2 DEF Restarted
    <3>4. 1 \in 1..n /\ q # << >>
      <4>1. n # 0 /\ 1 \in 1..n
        BY <1>4, <2>2
      <4>2. Len(q) # 0
        BY <1>4, <4>1
      <4>3. Len(<< >>) = 0
        BY EmptySeq
      <4> QED BY <4>1, <4>2, <4>3
    <3>5. m = q[1] /\ m \in StorageRequests
      BY <1>3, <3>1, <3>4, HeadTailProperties
    <3>6. m.job = "GET" \/ m.o # o => out.node.objects[o] = node[s].objects[o]
      BY <1>2, <3>2, <3>5, OutcomeData DEF SameObject
    <3> QED BY <1>3, <1>4, <3>3, <3>4, <3>5, <3>6
  <2> QED BY <1>1, <2>1, <2>2
<1>7. k \in Nat /\ k <= n
  BY <1>4
<1> QED BY <1>1, <1>2, <1>3, <1>4, <1>5, <1>6, <1>7, <1>8

\* Storage nodes get data from nowhere but the worker.
LEMMA StorageKeeps ==
    ASSUME Typed, Typed', NEW s \in Storage, StorageHandle(s) \/ StorageRestart(s),
           NEW x \in Storage, NEW o \in Object, HasData(x, o)'
    PROVE  HasData(x, o)
<1>1. CASE x # s
  <2>1. inbox'[x] = inbox[x] /\ node'[x] = node[x]
    BY <1>1, StorageHandleFacts, StorageRestartFacts
  <2> QED BY <2>1 DEF HasData, OnDisk, PutOf
<1>2. ASSUME x = s, NEW n \in Nat, NEW k \in Nat, n = Len(inbox[s]), Len(inbox'[s]) = n - k,
             \A i \in 1..(n - k) : inbox'[s][i] = inbox[s][i + k],
             NEW i \in 1..Len(inbox'[s]), PutOf(inbox'[s][i], o)
      PROVE  HasData(x, o)
  <2>1. i \in 1..(n - k) /\ i + k \in 1..n
    BY <1>2
  <2>2. PutOf(inbox[s][i + k], o)
    BY <1>2, <2>1
  <2> QED BY <1>2, <2>1, <2>2 DEF HasData
<1>3. HasData(x, o)' => OnDisk(node'[x], o) \/ \E i \in 1..Len(inbox'[x]) : PutOf(inbox'[x][i], o)
  BY DEF HasData, OnDisk, PutOf
<1>4. CASE x = s /\ StorageHandle(s)
  <2>1. PICK m \in StorageRequests, n \in Nat :
             /\ n = Len(inbox[s]) /\ n # 0 /\ m = inbox[s][1] /\ Len(inbox'[s]) = n - 1
             /\ \A i \in 1..(n - 1) : inbox'[s][i] = inbox[s][i + 1]
             /\ OnDisk(node'[s], o) => OnDisk(node[s], o) \/ PutOf(m, o)
    BY <1>4, StorageHandleFacts
  <2>2. 1 \in 1..n /\ 1 \in Nat
    BY <2>1
  <2>3. CASE OnDisk(node'[s], o)
    BY <1>4, <2>1, <2>2, <2>3 DEF HasData
  <2>4. CASE \E i \in 1..Len(inbox'[s]) : PutOf(inbox'[s][i], o)
    BY <1>2, <1>4, <2>1, <2>2, <2>4
  <2> QED BY <1>3, <1>4, <2>3, <2>4
<1>5. CASE x = s /\ StorageRestart(s)
  <2>1. PICK n \in Nat, k \in Nat :
                /\ n = Len(inbox[s]) /\ k <= n /\ Len(inbox'[s]) = n - k
                /\ \A i \in 1..(n - k) : inbox'[s][i] = inbox[s][i + k]
    BY <1>5, StorageRestartFacts
  <2>2. OnDisk(node'[s], o) => HasData(s, o)
    BY <1>5, StorageRestartFacts
  <2>3. CASE \E i \in 1..Len(inbox'[s]) : PutOf(inbox'[s][i], o)
    BY <1>2, <1>5, <2>1, <2>3
  <2> QED BY <1>3, <1>5, <2>2, <2>3
<1> QED BY <1>1, <1>4, <1>5

\* Files and pending writes that are left alone.
LEMMA SameHomes ==
    ASSUME UNCHANGED <<meta, pending_writes>>
    PROVE  /\ ReplicasInv => ReplicasInv'
           /\ \A s \in Storage, o \in Object : Homed(s, o) => Homed(s, o)'
BY DEF ReplicasInv, Homed

\* The deletion under way, as a storage node handles a request.
LEMMA HandleDeleting ==
    ASSUME Typed, Typed', NEW s \in Storage, StorageHandle(s), NEW x \in Storage, NEW o \in Object,
           Deleting(x, o)
    PROVE  Deleting(x, o)'
<1>1. work' = work
  BY DEF StorageHandle
<1>2. PICK gone \in BOOLEAN : gone = ~HasData(x, o)
  OBVIOUS
<1>3. gone => ~HasData(x, o)'
  BY <1>2, StorageKeeps
<1>4. CASE x # s
  <2>1. inbox'[x] = inbox[x] /\ answers'[x] = answers[x] /\ node'[x] = node[x]
    BY <1>4, StorageHandleFacts
  <2> QED BY <1>1, <2>1 DEF Deleting, ThisDelete, HasData, OnDisk, PutOf
<1>5. CASE x = s
  <2>1. PICK m \in StorageRequests, n \in Nat, l \in Nat, a \in Answer :
             /\ n = Len(inbox[s]) /\ n # 0 /\ m = inbox[s][1] /\ Len(inbox'[s]) = n - 1
             /\ \A i \in 1..(n - 1) : inbox'[s][i] = inbox[s][i + 1]
             /\ l = Len(answers[s]) /\ Len(answers'[s]) = l + 1
             /\ \A i \in 1..l : answers'[s][i] = answers[s][i]
             /\ answers'[s][l + 1] = a /\ a.id = m.id /\ a.job = m.job /\ a.i = m.i
             /\ m.job = "DELETE" /\ m.o = o /\ a.status = "Success" => ~OnDisk(node'[s], o)
    BY StorageHandleFacts
  <2>2. \A i \in 1..n : ThisDelete(inbox[s][i]) =>
            inbox[s][i].o = o /\ \A j \in 1..n : j > i => ~PutOf(inbox[s][j], o)
    BY <1>5, <2>1 DEF Deleting
  <2>3. \A i \in 1..l :
            ThisDelete(answers[s][i]) /\ answers[s][i].status = "Success" => gone
    BY <1>2, <1>5, <2>1 DEF Deleting
  <2>4. ASSUME NEW i \in 1..Len(inbox'[s]), ThisDelete(inbox[s][i])'
        PROVE  inbox'[s][i].o = o /\ \A j \in 1..Len(inbox'[s]) : j > i => ~PutOf(inbox'[s][j], o)
    <3>1. i \in 1..(n - 1) /\ i + 1 \in 1..n
      BY <2>1
    <3>2. ThisDelete(inbox[s][i + 1])
      BY <1>1, <2>1, <2>4, <3>1 DEF ThisDelete
    <3>3. ASSUME NEW j \in 1..Len(inbox'[s]), j > i PROVE ~PutOf(inbox'[s][j], o)
      <4>1. j \in 1..(n - 1) /\ j + 1 \in 1..n /\ j + 1 > i + 1
        BY <2>1, <3>1, <3>3
      <4>2. ~PutOf(inbox[s][j + 1], o)
        BY <2>2, <3>1, <3>2, <4>1
      <4> QED BY <2>1, <4>1, <4>2
    <3> QED BY <2>1, <2>2, <3>1, <3>2, <3>3
  <2>5. ASSUME NEW i \in 1..Len(answers'[s]), ThisDelete(answers[s][i])',
               answers'[s][i].status = "Success"
        PROVE  ~HasData(s, o)'
    <3>1. CASE i \in 1..l
      <4>1. ThisDelete(answers[s][i]) /\ answers[s][i].status = "Success"
        BY <1>1, <2>1, <2>5, <3>1 DEF ThisDelete
      <4> QED BY <1>3, <1>5, <2>3, <3>1, <4>1
    <3>2. CASE i \notin 1..l
      <4>1. i = l + 1
        BY <2>1, <3>2
      <4>2. ThisDelete(inbox[s][1]) /\ m.job = "DELETE" /\ a.status = "Success"
        BY <1>1, <2>1, <2>5, <4>1 DEF ThisDelete
      <4>3. 1 \in 1..n
        BY <2>1
      <4>4. m.o = o /\ \A j \in 1..n : j > 1 => ~PutOf(inbox[s][j], o)
        BY <2>1, <2>2, <4>2, <4>3
      <4>5. ~OnDisk(node'[s], o)
        BY <2>1, <4>2, <4>4
      <4>6. ASSUME NEW j \in 1..Len(inbox'[s]) PROVE ~PutOf(inbox'[s][j], o)
        <5>1. j \in 1..(n - 1) /\ j + 1 \in 1..n /\ j + 1 > 1
          BY <2>1
        <5> QED BY <2>1, <4>4, <5>1
      <4> QED BY <4>5, <4>6 DEF HasData, OnDisk, PutOf
    <3> QED BY <3>1, <3>2
  <2>6. (\E i \in 1..Len(work.left) : work.left[i] = s)' \/ (work'.ok => ~HasData(s, o)')
    BY <1>1, <1>2, <1>3, <1>5 DEF Deleting
  <2>7. Deleting(s, o)'
    BY <2>4, <2>5, <2>6 DEF Deleting, PutOf
  <2> QED BY <1>5, <2>7
<1> QED BY <1>4, <1>5

\* A storage node handles a request.
LEMMA StorageHandleOrphans ==
    ASSUME Typed, Typed', OrphanInv, NEW s \in Storage, StorageHandle(s)
    PROVE  OrphanInv'
<1>1. UNCHANGED <<meta, pending_writes, work, sid, restarts>>
  BY DEF StorageHandle, store, tables
<1>2. ReplicasInv'
  BY <1>1, SameHomes DEF OrphanInv
<1>3. ASSUME OneEpoch' PROVE DataInv' /\ SidInv' /\ DeleteInv'
  <2>1. DataInv /\ SidInv /\ DeleteInv
    BY <1>1, <1>3 DEF OneEpoch, OrphanInv, EpochInv
  <2>2. DataInv'
    <3>1. ASSUME NEW x \in Storage, NEW o \in Object, HasData(x, o)' PROVE Homed(x, o)'
      <4>1. HasData(x, o)
        BY <3>1, StorageKeeps
      <4> QED BY <1>1, <2>1, <4>1, SameHomes DEF DataInv
    <3> QED BY <3>1 DEF DataInv
  <2>3. SidInv'
    <3>1. ASSUME NEW x \in Storage
          PROVE  /\ \A i \in 1..Len(inbox'[x]) : inbox'[x][i].job # "PUT" => inbox'[x][i].id <= sid
                 /\ \A i \in 1..Len(answers'[x]) : answers'[x][i].job # "PUT" => answers'[x][i].id <= sid
      <4>1. CASE x # s
        <5>1. inbox'[x] = inbox[x] /\ answers'[x] = answers[x]
          BY <4>1, StorageHandleFacts
        <5> QED BY <2>1, <5>1 DEF SidInv
      <4>2. CASE x = s
        <5>1. PICK m \in StorageRequests, n \in Nat, l \in Nat, a \in Answer :
             /\ n = Len(inbox[s]) /\ n # 0 /\ m = inbox[s][1] /\ Len(inbox'[s]) = n - 1
             /\ \A i \in 1..(n - 1) : inbox'[s][i] = inbox[s][i + 1]
             /\ l = Len(answers[s]) /\ Len(answers'[s]) = l + 1
             /\ \A i \in 1..l : answers'[s][i] = answers[s][i]
             /\ answers'[s][l + 1] = a /\ a.id = m.id /\ a.job = m.job /\ a.i = m.i
             /\ \A o \in Object :
                  /\ OnDisk(node'[s], o) => OnDisk(node[s], o) \/ PutOf(m, o)
                  /\ m.job = "DELETE" /\ m.o = o /\ a.status = "Success" => ~OnDisk(node'[s], o)
             /\ \A y \in Storage : y # s => inbox'[y] = inbox[y] /\ answers'[y] = answers[y]
                                            /\ node'[y] = node[y]
          BY StorageHandleFacts
        <5>2. /\ \A i \in 1..n : inbox[s][i].job # "PUT" => inbox[s][i].id <= sid
              /\ \A i \in 1..l : answers[s][i].job # "PUT" => answers[s][i].id <= sid
          BY <2>1, <5>1 DEF SidInv
        <5>3. ASSUME NEW i \in 1..Len(inbox'[s]), inbox'[s][i].job # "PUT"
              PROVE  inbox'[s][i].id <= sid
          <6>1. i \in 1..(n - 1) /\ i + 1 \in 1..n
            BY <5>1
          <6> QED BY <5>1, <5>2, <5>3, <6>1
        <5>4. ASSUME NEW i \in 1..Len(answers'[s]), answers'[s][i].job # "PUT"
              PROVE  answers'[s][i].id <= sid
          <6>1. i \in 1..l \/ i = l + 1
            BY <5>1
          <6>2. 1 \in 1..n
            BY <5>1
          <6> QED BY <5>1, <5>2, <5>4, <6>1, <6>2
        <5> QED BY <4>2, <5>3, <5>4
      <4> QED BY <4>1, <4>2
    <3> QED BY <1>1, <3>1 DEF SidInv
  <2>4. DeleteInv'
    <3>1. ASSUME work # Idle, work.kind = "DELETE"
          PROVE  meta[work.req.p].replicas # None /\
                 \A x \in {meta[work.req.p].replicas[1], meta[work.req.p].replicas[2]} :
                      Deleting(x, meta[work.req.p].obj)'
      <4>1. PICK r, o : r = meta[work.req.p].replicas /\ o = meta[work.req.p].obj
        OBVIOUS
      <4>2. r \in Pair /\ o \in Object
        BY <2>1, <3>1, <4>1, MetaFacts DEF Typed, WaitInv, DeleteInv
      <4>3. \A x \in {r[1], r[2]} : x \in Storage /\ Deleting(x, o)
        BY <2>1, <3>1, <4>1, <4>2, PairFacts DEF DeleteInv
      <4>4. \A x \in {r[1], r[2]} : Deleting(x, o)'
        BY <4>2, <4>3, HandleDeleting
      <4>5. meta'[work'.req.p] = meta[work.req.p]
        BY <1>1
      <4> QED BY <4>1, <4>2, <4>4, <4>5, PairFacts
    <3> QED BY <1>1, <3>1 DEF DeleteInv
  <2> QED BY <2>2, <2>3, <2>4
<1> QED BY <1>2, <1>3 DEF OrphanInv, EpochInv

\* A storage node starts again.
LEMMA StorageRestartOrphans ==
    ASSUME Typed, Typed', OrphanInv, NEW s \in Storage, StorageRestart(s)
    PROVE  OrphanInv'
<1>1. UNCHANGED <<meta, pending_writes, work, sid, answers>>
  BY DEF StorageRestart, store, tables
<1>2. ReplicasInv'
  BY <1>1, SameHomes DEF OrphanInv
<1>3. OneEpoch' => OneEpoch
  <2>1. restarts' = [restarts EXCEPT !["storage"] = @ + 1]
    BY DEF StorageRestart, Restart
  <2> QED BY <2>1 DEF Typed, MishapsTyped, OneEpoch
<1>4. PICK n \in Nat, k \in Nat :
                /\ n = Len(inbox[s]) /\ k <= n /\ Len(inbox'[s]) = n - k
                /\ \A i \in 1..(n - k) : inbox'[s][i] = inbox[s][i + k]
  BY StorageRestartFacts
<1>5. \A x \in Storage : x # s => inbox'[x] = inbox[x] /\ node'[x] = node[x]
  BY StorageRestartFacts
<1>6. ASSUME OneEpoch' PROVE DataInv' /\ SidInv' /\ DeleteInv'
  <2>1. DataInv /\ SidInv /\ DeleteInv
    BY <1>3, <1>6 DEF OrphanInv, EpochInv
  <2>2. DataInv'
    <3>1. ASSUME NEW x \in Storage, NEW o \in Object, HasData(x, o)' PROVE Homed(x, o)'
      <4>1. HasData(x, o)
        BY <3>1, StorageKeeps
      <4> QED BY <1>1, <2>1, <4>1, SameHomes DEF DataInv
    <3> QED BY <3>1 DEF DataInv
  <2>3. SidInv'
    <3>1. ASSUME NEW x \in Storage, NEW i \in 1..Len(inbox'[x]), inbox'[x][i].job # "PUT"
          PROVE  inbox'[x][i].id <= sid
      <4>1. CASE x # s
        BY <1>5, <2>1, <3>1, <4>1 DEF SidInv
      <4>2. CASE x = s
        <5>1. i \in 1..(n - k) /\ i + k \in 1..n
          BY <1>4, <3>1, <4>2
        <5> QED BY <1>4, <2>1, <3>1, <4>2, <5>1 DEF SidInv
      <4> QED BY <4>1, <4>2
    <3> QED BY <1>1, <2>1, <3>1 DEF SidInv
  <2>4. ASSUME NEW x \in Storage, NEW o \in Object, Deleting(x, o) PROVE Deleting(x, o)'
    <3>0. PICK gone \in BOOLEAN : gone = ~HasData(x, o)
      OBVIOUS
    <3>1. gone => ~HasData(x, o)'
      BY <3>0, StorageKeeps
    <3>2. CASE x # s
      <4>1. inbox'[x] = inbox[x] /\ node'[x] = node[x]
        BY <1>5, <3>2
      <4> QED BY <1>1, <2>4, <4>1 DEF Deleting, ThisDelete, HasData, OnDisk, PutOf
    <3>3. CASE x = s
      <4>1. ASSUME NEW i \in 1..Len(inbox'[s]), ThisDelete(inbox[s][i])'
            PROVE  inbox'[s][i].o = o /\ \A j \in 1..Len(inbox'[s]) : j > i => ~PutOf(inbox'[s][j], o)
        <5>0. \A h \in 1..n : ThisDelete(inbox[s][h]) =>
                inbox[s][h].o = o /\ \A j \in 1..n : j > h => ~PutOf(inbox[s][j], o)
          BY <1>4, <2>4, <3>3 DEF Deleting
        <5>1. i \in 1..(n - k) /\ i + k \in 1..n
          BY <1>4
        <5>2. ThisDelete(inbox[s][i + k])
          BY <1>1, <1>4, <4>1, <5>1 DEF ThisDelete
        <5>3. ASSUME NEW j \in 1..Len(inbox'[s]), j > i PROVE ~PutOf(inbox'[s][j], o)
          <6>1. j \in 1..(n - k) /\ j + k \in 1..n /\ j + k > i + k
            BY <1>4, <5>1, <5>3
          <6>2. ~PutOf(inbox[s][j + k], o)
            BY <5>0, <5>1, <5>2, <6>1
          <6> QED BY <1>4, <6>1, <6>2
        <5> QED BY <1>4, <5>0, <5>1, <5>2, <5>3
      <4>2. ASSUME NEW i \in 1..Len(answers'[s]), ThisDelete(answers[s][i])',
                   answers'[s][i].status = "Success"
            PROVE  ~HasData(s, o)'
        <5>1. i \in 1..Len(answers[s]) /\ ThisDelete(answers[s][i]) /\ answers[s][i].status = "Success"
          BY <1>1, <4>2 DEF ThisDelete
        <5> QED BY <2>4, <3>0, <3>1, <3>3, <5>1 DEF Deleting
      <4>3. (\E i \in 1..Len(work.left) : work.left[i] = s)' \/ (work'.ok => ~HasData(s, o)')
        BY <1>1, <2>4, <3>0, <3>1, <3>3 DEF Deleting
      <4>4. Deleting(s, o)'
        BY <4>1, <4>2, <4>3 DEF Deleting, PutOf
      <4> QED BY <3>3, <4>4
    <3> QED BY <3>2, <3>3
  <2>5. DeleteInv'
    <3>1. ASSUME work # Idle, work.kind = "DELETE"
          PROVE  meta[work.req.p].replicas # None /\
                 \A x \in {meta[work.req.p].replicas[1], meta[work.req.p].replicas[2]} :
                      Deleting(x, meta[work.req.p].obj)'
      <4>1. PICK r, o : r = meta[work.req.p].replicas /\ o = meta[work.req.p].obj
        OBVIOUS
      <4>2. r \in Pair /\ o \in Object
        BY <2>1, <3>1, <4>1, MetaFacts DEF Typed, WaitInv, DeleteInv
      <4>3. \A x \in {r[1], r[2]} : x \in Storage /\ Deleting(x, o)
        BY <2>1, <3>1, <4>1, <4>2, PairFacts DEF DeleteInv
      <4>4. \A x \in {r[1], r[2]} : Deleting(x, o)'
        BY <2>4, <4>2, <4>3
      <4>5. meta'[work'.req.p] = meta[work.req.p]
        BY <1>1
      <4> QED BY <4>1, <4>2, <4>4, <4>5, PairFacts
    <3> QED BY <1>1, <3>1 DEF DeleteInv
  <2> QED BY <2>2, <2>3, <2>5
<1> QED BY <1>2, <1>6 DEF OrphanInv, EpochInv

-----------------------------------------------------------------------------
(* Leaked storage: what the worker does *)

\* Each file after the step is one from before it, perhaps moved or given its
\* replicas, or is new.
FilesFrom ==
    \A q \in DOMAIN meta' :
        \/ meta'[q].obj > objects
        \/ \E p \in DOMAIN meta : /\ meta[p].obj = meta'[q].obj
                                  /\ meta[p].replicas \in {None, meta'[q].replicas}

\* Each file with replicas is there after the step.
FilesKept ==
    \A p \in DOMAIN meta : meta[p].replicas # None =>
        \E q \in DOMAIN meta' : meta'[q].obj = meta[p].obj /\ meta'[q].replicas = meta[p].replicas

\* Each pending write was there before the step, or is entered for a file.
WritesFrom ==
    \A k \in DOMAIN pending_writes' :
        \/ /\ k \in DOMAIN pending_writes
           /\ pending_writes'[k].obj = pending_writes[k].obj
           /\ pending_writes'[k].replicas = pending_writes[k].replicas
        \/ \E p \in DOMAIN meta' : /\ meta'[p].obj = pending_writes'[k].obj
                                   /\ meta'[p].replicas = pending_writes'[k].replicas

\* Nothing is sent to storage nodes but a request for a chunk.
InboxFrom ==
    \A x \in Storage : \A i \in 1..Len(inbox'[x]) :
        \/ inbox'[x][i].job = "GET" /\ inbox'[x][i].id = sid'
        \/ \E j \in 1..Len(inbox[x]) : inbox'[x][i] = inbox[x][j]

AnswersFrom ==
    \A x \in Storage : \A i \in 1..Len(answers'[x]) :
        \E j \in 1..Len(answers[x]) : answers'[x][i] = answers[x][j]

\* Files with data are there after the step.
DataKept ==
    \A x \in Storage, o \in Object : HasData(x, o) /\ Homed(x, o) => Homed(x, o)'

\* A pending write keeps going to the replicas of its file.
LEMMA ReplicasStep ==
    ASSUME Typed, Typed', Ids, Ids', ReplicasInv, FilesFrom, WritesFrom
    PROVE  ReplicasInv'
<1> SUFFICES ASSUME NEW k \in DOMAIN pending_writes', NEW q \in DOMAIN meta',
                    meta'[q].obj = pending_writes'[k].obj
             PROVE  meta'[q].replicas = pending_writes'[k].replicas
  BY DEF ReplicasInv
<1>1. CASE \E p \in DOMAIN meta' : /\ meta'[p].obj = pending_writes'[k].obj
                                   /\ meta'[p].replicas = pending_writes'[k].replicas
  BY <1>1 DEF Ids, ObjectIdentity
<1>2. CASE /\ k \in DOMAIN pending_writes
           /\ pending_writes'[k].obj = pending_writes[k].obj
           /\ pending_writes'[k].replicas = pending_writes[k].replicas
  <2>1. /\ pending_writes[k].obj <= objects /\ pending_writes[k].obj \in Nat
        /\ pending_writes[k].replicas # None /\ objects \in Nat
    <3>1. pending_writes[k].obj \in Object /\ pending_writes[k].replicas \in Pair
      BY <1>2, PendingFacts DEF Typed
    <3>2. objects \in 0..MaxObjects /\ pending_writes[k].obj <= objects
      BY <1>2 DEF Typed, WorkTyped, Ids, ObjectsInv
    <3> QED BY <3>1, <3>2, PairFacts, Bounds DEF Object
  <2>2. ~(meta'[q].obj > objects)
    BY <1>2, <2>1
  <2>3. PICK p \in DOMAIN meta : /\ meta[p].obj = meta'[q].obj
                                 /\ meta[p].replicas \in {None, meta'[q].replicas}
    BY <2>2 DEF FilesFrom
  <2>4. meta[p].replicas = pending_writes[k].replicas
    BY <1>2, <2>3 DEF ReplicasInv
  <2> QED BY <1>2, <2>1, <2>3, <2>4
<1> QED BY <1>1, <1>2 DEF WritesFrom

\* Files that are kept have their data.
LEMMA KeptData == ASSUME FilesKept PROVE DataKept
BY DEF FilesKept, DataKept, Homed

\* A step of the worker that sends no PUT and no DELETE.
LEMMA WorkerOrphans ==
    ASSUME Typed, Typed', Ids, Ids', OrphanInv, FilesFrom, WritesFrom, InboxFrom, AnswersFrom,
           node' = node, restarts' = restarts, sid' >= sid, OneEpoch => DataKept, OneEpoch => DeleteInv'
    PROVE  OrphanInv'
<1>1. ReplicasInv'
  BY ReplicasStep DEF OrphanInv
<1>2. ASSUME OneEpoch' PROVE DataInv' /\ SidInv' /\ DeleteInv'
  <2>1. OneEpoch /\ DataInv /\ SidInv /\ DeleteInv' /\ DataKept
    BY <1>2 DEF OrphanInv, EpochInv, OneEpoch
  <2>2. DataInv'
    <3>1. ASSUME NEW x \in Storage, NEW o \in Object, HasData(x, o)' PROVE Homed(x, o)'
      <4>1. HasData(x, o)
        <5>1. CASE OnDisk(node'[x], o)
          BY <5>1 DEF HasData
        <5>2. CASE \E i \in 1..Len(inbox'[x]) : PutOf(inbox'[x][i], o)
          BY <5>2 DEF HasData, InboxFrom, PutOf
        <5> QED BY <3>1, <5>1, <5>2 DEF HasData, OnDisk, PutOf
      <4>2. Homed(x, o)
        BY <2>1, <4>1 DEF DataInv
      <4> QED BY <2>1, <4>1, <4>2 DEF DataKept
    <3> QED BY <3>1 DEF DataInv
  <2>3. SidInv'
    <3>0. sid \in Nat /\ sid' \in Nat
      BY DEF Typed, WorkTyped
    <3>1. ASSUME NEW x \in Storage, NEW i \in 1..Len(inbox'[x]), inbox'[x][i].job # "PUT"
          PROVE  inbox'[x][i].id <= sid'
      <4>0. SUFFICES ASSUME inbox'[x][i].id # sid' PROVE inbox'[x][i].id <= sid'
        BY <3>0
      <4>1. PICK j \in 1..Len(inbox[x]) : inbox'[x][i] = inbox[x][j]
        BY <3>1, <4>0 DEF InboxFrom
      <4>2. inbox[x][j].id <= sid
        BY <2>1, <3>1, <4>1 DEF SidInv
      <4>3. inbox[x][j].id \in Nat
        <5>1. inbox[x] \in Seq(StorageRequests)
          BY SentTypes
        <5>2. inbox[x][j] \in StorageRequests
          BY <4>1, <5>1, ElementOfSeq
        <5> QED BY <5>2 DEF StorageRequests
      <4> QED BY <3>0, <4>1, <4>2, <4>3
    <3>2. ASSUME NEW x \in Storage, NEW i \in 1..Len(answers'[x]), answers'[x][i].job # "PUT"
          PROVE  answers'[x][i].id <= sid'
      <4>1. PICK j \in 1..Len(answers[x]) : answers'[x][i] = answers[x][j]
        BY <3>2 DEF AnswersFrom
      <4>2. answers[x][j].id <= sid
        BY <2>1, <3>2, <4>1 DEF SidInv
      <4>3. answers[x][j].id \in Nat
        <5>1. answers[x] \in Seq(Answer)
          BY SentTypes
        <5>2. answers[x][j] \in Answer
          BY <4>1, <5>1, ElementOfSeq
        <5> QED BY <5>2 DEF Answer
      <4> QED BY <3>0, <4>1, <4>2, <4>3
    <3> QED BY <3>1, <3>2 DEF SidInv
  <2> QED BY <2>1, <2>2, <2>3
<1> QED BY <1>1, <1>2 DEF OrphanInv, EpochInv

\* What is left alone.
LEMMA SameFiles == ASSUME meta' = meta PROVE FilesFrom /\ FilesKept
BY DEF FilesFrom, FilesKept

\* No message is new where none is sent.
LEMMA SameMessages == (inbox' = inbox => InboxFrom) /\ (answers' = answers => AnswersFrom)
BY DEF InboxFrom, AnswersFrom

\* Pending writes that are left alone, erased or advanced.
LEMMA WritesFromStay ==
    ASSUME TableTyped(pending_writes), NEW k,
           \/ pending_writes' = pending_writes
           \/ pending_writes' = Drop(pending_writes, k)
           \/ /\ k \in DOMAIN pending_writes
              /\ pending_writes' = [pending_writes EXCEPT ![k].next = @ + 1]
    PROVE  WritesFrom
<1>1. CASE pending_writes' = pending_writes
  BY <1>1 DEF WritesFrom
<1>2. CASE pending_writes' = Drop(pending_writes, k)
  BY <1>2 DEF WritesFrom, Drop
<1>3. CASE /\ k \in DOMAIN pending_writes
           /\ pending_writes' = [pending_writes EXCEPT ![k].next = @ + 1]
  <2>1. \A x \in DOMAIN pending_writes : pending_writes[x] \in Pending
    BY PendingFacts
  <2>2. DOMAIN pending_writes' = DOMAIN pending_writes
    BY <1>3
  <2>3. ASSUME NEW x \in DOMAIN pending_writes
        PROVE  /\ pending_writes'[x].obj = pending_writes[x].obj
               /\ pending_writes'[x].replicas = pending_writes[x].replicas
    BY <1>3, <2>1 DEF Pending
  <2> QED BY <2>2, <2>3 DEF WritesFrom
<1> QED BY <1>1, <1>2, <1>3

\* A file is stored: the one that was there, or a new one.
LEMMA FilesSet ==
    ASSUME Typed, NEW p, NEW f, meta' = Set(meta, p, f), objects \in Nat,
           \/ p \in DOMAIN meta /\ f.obj = meta[p].obj /\ meta[p].replicas \in {None, f.replicas}
           \/ p \notin DOMAIN meta /\ f.obj = objects + 1
    PROVE  FilesFrom /\ FilesKept /\ p \in DOMAIN meta' /\ meta'[p] = f
<1>1. /\ DOMAIN meta' = DOMAIN meta \cup {p} /\ meta'[p] = f
      /\ \A x \in DOMAIN meta : x # p => meta'[x] = meta[x]
  BY DEF Set
<1>2. ASSUME NEW q \in DOMAIN meta'
      PROVE  \/ meta'[q].obj > objects
             \/ \E x \in DOMAIN meta : /\ meta[x].obj = meta'[q].obj
                                       /\ meta[x].replicas \in {None, meta'[q].replicas}
  <2>1. CASE q # p
    BY <1>1, <2>1
  <2>2. CASE q = p /\ p \in DOMAIN meta
    BY <1>1, <2>2
  <2>3. CASE q = p /\ p \notin DOMAIN meta
    <3>1. meta'[q].obj = objects + 1
      BY <1>1, <2>3
    <3> QED BY <3>1
  <2> QED BY <2>1, <2>2, <2>3
<1>3. ASSUME NEW x \in DOMAIN meta, meta[x].replicas # None
      PROVE  \E q \in DOMAIN meta' : meta'[q].obj = meta[x].obj /\ meta'[q].replicas = meta[x].replicas
  BY <1>1, <1>3
<1> QED BY <1>1, <1>2, <1>3 DEF FilesFrom, FilesKept

\* The worker has handled a request without any storage node.
LEMMA HandledOrphans ==
    ASSUME Typed, Typed', Ids, Ids', OrphanInv, work' = Idle, FilesFrom, FilesKept, WritesFrom,
           UNCHANGED <<inbox, answers, node, sid, restarts>>
    PROVE  OrphanInv'
<1>1. DeleteInv'
  BY DEF DeleteInv
<1>2. sid' >= sid
  BY DEF Typed, WorkTyped
<1> QED BY <1>1, <1>2, SameMessages, KeptData, WorkerOrphans

\* CREATE_FILE and RENAME
LEMMA CreateOrphans ==
    ASSUME Typed, Typed', Ids, Ids', OrphanInv, HandleCreateFile
    PROVE  OrphanInv'
<1>1. PICK req : req = Head(jobs)
  OBVIOUS
<1>2. work' = Idle /\ pending_writes' = pending_writes /\ UNCHANGED <<inbox, answers, node, sid, restarts>>
  BY DEF HandleCreateFile, Taking, tables, storageVars
<1>3. meta' = meta \/ (req.p \notin DOMAIN meta /\ meta' = Set(meta, req.p, NewFile(objects + 1)))
  BY <1>1, ChangeCases DEF HandleCreateFile, Refuse, store, exists
<1>4. objects \in Nat
  BY Bounds DEF Typed, WorkTyped
<1>5. NewFile(objects + 1).obj = objects + 1
  BY DEF NewFile
<1>6. FilesFrom /\ FilesKept
  BY <1>3, <1>4, <1>5, SameFiles, FilesSet
<1>7. WritesFrom
  BY <1>2, WritesFromStay DEF Typed
<1> QED BY <1>2, <1>6, <1>7, HandledOrphans

\* RENAME moves files; their objects and replicas stay theirs.
LEMMA RenameOrphans ==
    ASSUME Typed, Typed', Ids, Ids', OrphanInv, HandleRename
    PROVE  OrphanInv'
<1>1. PICK req : req = Head(jobs)
  OBVIOUS
<1>2. work' = Idle /\ pending_writes' = pending_writes /\ UNCHANGED <<inbox, answers, node, sid, restarts>>
  BY DEF HandleRename, Taking, tables, storageVars
<1>3. \/ meta' = meta
      \/ /\ req.p \in DOMAIN meta /\ req.q \notin DOMAIN meta
         /\ meta' = Set(Drop(meta, req.p), req.q, meta[req.p])
  BY <1>1, ChangeCases DEF HandleRename, Refuse, store, exists
<1>4. CASE /\ req.p \in DOMAIN meta /\ req.q \notin DOMAIN meta
           /\ meta' = Set(Drop(meta, req.p), req.q, meta[req.p])
  <2>1. /\ DOMAIN meta' = (DOMAIN meta \ {req.p}) \cup {req.q}
        /\ meta'[req.q] = meta[req.p]
        /\ \A x \in DOMAIN meta \ {req.p} : x # req.q => meta'[x] = meta[x]
    BY <1>4 DEF Set, Drop
  <2>2. FilesFrom
    BY <1>4, <2>1 DEF FilesFrom
  <2>3. FilesKept
    BY <1>4, <2>1 DEF FilesKept
  <2> QED BY <1>2, <2>2, <2>3, WritesFromStay, HandledOrphans DEF Typed
<1> QED BY <1>2, <1>3, <1>4, SameFiles, WritesFromStay, HandledOrphans DEF Typed

\* WRITE_FILE
LEMMA EnterFrom ==
    ASSUME TableTyped(pending_writes), NEW req, NEW m, EnterWrite(req, m),
           req.p \in DOMAIN meta', meta'[req.p].obj = m.obj, meta'[req.p].replicas = m.replicas
    PROVE  WritesFrom
<1>1. PICK k : k = key(req)
  OBVIOUS
<1>2. PICK w : w = [path |-> req.p, obj |-> m.obj, count |-> req.x, next |-> 0, replicas |-> m.replicas]
  OBVIOUS
<1>3. CASE pending_writes' = pending_writes
  BY <1>3, WritesFromStay
<1>4. CASE pending_writes' = Set(pending_writes, k, w)
  <2>1. /\ DOMAIN pending_writes' = DOMAIN pending_writes \cup {k} /\ pending_writes'[k] = w
        /\ \A x \in DOMAIN pending_writes : x # k => pending_writes'[x] = pending_writes[x]
    BY <1>4 DEF Set
  <2>2. w.obj = meta'[req.p].obj /\ w.replicas = meta'[req.p].replicas
    BY <1>2
  <2> QED BY <2>1, <2>2 DEF WritesFrom
<1> QED BY <1>1, <1>2, <1>3, <1>4 DEF EnterWrite

\* WRITE_FILE registers the new object before a chunk of it is stored.
LEMMA WriteFileOrphans ==
    ASSUME Typed, Typed', Ids, Ids', OrphanInv, HandleWriteFile
    PROVE  OrphanInv'
<1>1. PICK req \in Req : req = Head(jobs)
  BY TakingTyped DEF HandleWriteFile
<1>2. PICK m : m = Target(req.p)
  OBVIOUS
<1>3. work' = Idle /\ UNCHANGED <<inbox, answers, node, sid, restarts>> /\ req.p \in Path
  BY <1>1, ReqFacts DEF HandleWriteFile, Taking, storageVars
<1>4. /\ m \in Metadata
      /\ req.p \in DOMAIN meta => m = meta[req.p]
      /\ req.p \notin DOMAIN meta => m.obj = objects + 1 /\ m.replicas = None
  <2>1. req.p \notin DOMAIN meta => objects < MaxObjects
    BY <1>1 DEF HandleWriteFile
  <2>2. /\ m \in Metadata
        /\ req.p \in DOMAIN meta => m = meta[req.p]
        /\ req.p \notin DOMAIN meta => m.obj = objects + 1
    BY <1>2, <1>3, <2>1, TargetTyped DEF Typed, WorkTyped
  <2>3. req.p \notin DOMAIN meta => m.replicas = None
    BY <1>2 DEF Target, NewFile
  <2> QED BY <2>2, <2>3
<1>5. objects \in Nat
  BY Bounds DEF Typed, WorkTyped
<1>6. ASSUME NEW f, f.obj = m.obj, m.replicas \in {None, f.replicas}, meta' = Set(meta, req.p, f)
      PROVE  FilesFrom /\ FilesKept /\ req.p \in DOMAIN meta' /\ meta'[req.p] = f
  BY <1>4, <1>5, <1>6, FilesSet
<1>7. CASE meta' = meta /\ UNCHANGED pending_writes
  BY <1>3, <1>7, SameFiles, WritesFromStay, HandledOrphans DEF Typed
<1>8. CASE /\ StoreChange(req, Set(meta, req.p, [m EXCEPT !.size = 0]), dirs)
           /\ UNCHANGED pending_writes
  <2>1. PICK f : f = [m EXCEPT !.size = 0]
    OBVIOUS
  <2>2. f.obj = m.obj /\ f.replicas = m.replicas
    BY <1>4, <2>1 DEF Metadata
  <2>3. meta' = Set(meta, req.p, f) \/ meta' = meta
    BY <1>8, <2>1, ChangeCases
  <2>4. FilesFrom /\ FilesKept
    BY <1>6, <2>2, <2>3, SameFiles
  <2> QED BY <1>3, <1>8, <2>4, WritesFromStay, HandledOrphans DEF Typed
<1>9. CASE req.x # 0 /\ m.replicas # None /\ EnterWrite(req, m) /\ meta' = meta
  <2>1. req.p \in DOMAIN meta' /\ meta'[req.p] = m
    BY <1>4, <1>9
  <2>2. WritesFrom
    BY <1>9, <2>1, EnterFrom DEF Typed
  <2> QED BY <1>3, <1>9, <2>2, SameFiles, HandledOrphans
<1>10. ASSUME m.replicas = None, NEW r \in Pair, meta' = Set(meta, req.p, [m EXCEPT !.replicas = r]),
              EnterWrite(req, [m EXCEPT !.replicas = r])
       PROVE  OrphanInv'
  <2>1. PICK f : f = [m EXCEPT !.replicas = r]
    OBVIOUS
  <2>2. f.obj = m.obj /\ f.replicas = r
    BY <1>4, <2>1 DEF Metadata
  <2>3. meta' = Set(meta, req.p, f) /\ EnterWrite(req, f)
    BY <1>10, <2>1
  <2>4. FilesFrom /\ FilesKept /\ req.p \in DOMAIN meta' /\ meta'[req.p] = f
    BY <1>6, <1>10, <2>2, <2>3
  <2>5. WritesFrom
    BY <2>3, <2>4, EnterFrom DEF Typed
  <2> QED BY <1>3, <2>4, <2>5, HandledOrphans
<1>11. \/ meta' = meta /\ UNCHANGED pending_writes
       \/ /\ StoreChange(req, Set(meta, req.p, [m EXCEPT !.size = 0]), dirs)
          /\ UNCHANGED pending_writes
       \/ req.x # 0 /\ m.replicas # None /\ EnterWrite(req, m) /\ meta' = meta
       \/ /\ m.replicas = None
          /\ \E r \in Pair : /\ meta' = Set(meta, req.p, [m EXCEPT !.replicas = r])
                             /\ EnterWrite(req, [m EXCEPT !.replicas = r])
  BY <1>1, <1>2 DEF HandleWriteFile, Refuse, store
<1> QED BY <1>7, <1>8, <1>9, <1>10, <1>11

\* Handlers that change neither files nor pending writes.
LEMMA LookOrphans ==
    ASSUME Typed, Typed', Ids, Ids', OrphanInv,
           HandleMakeDir \/ HandleList \/ HandleStat \/ HandleReadFile
    PROVE  OrphanInv'
<1>1. /\ work' = Idle /\ pending_writes' = pending_writes
      /\ UNCHANGED <<inbox, answers, node, sid, restarts>>
  BY DEF HandleMakeDir, HandleList, HandleStat, HandleReadFile, Taking, tables, storageVars
<1>2. meta' = meta
  BY ChangeCases DEF HandleMakeDir, HandleList, HandleStat, HandleReadFile, Refuse, store
<1> QED BY <1>1, <1>2, SameFiles, WritesFromStay, HandledOrphans DEF Typed

\* A chunk is asked for.
LEMMA AskFrom ==
    ASSUME Typed, NEW req, NEW left, left \in Seq(Storage), AskNext(req, left)
    PROVE  InboxFrom /\ sid' >= sid /\ (work' = Idle \/ work'.kind = "GET")
<1>1. inbox \in [Storage -> Seq(StorageRequests)] /\ sid \in Nat
  BY DEF Typed, StorageTyped, WorkTyped
<1>2. CASE work' = Idle /\ inbox' = inbox /\ sid' = sid
  BY <1>1, <1>2, SameMessages
<1>3. ASSUME NEW i, i \in 1..Len(left), NEW msg, msg.job = "GET", msg.id = sid', sid' = sid + 1,
             inbox' = [inbox EXCEPT ![left[i]] = Append(inbox[left[i]], msg)],
             work'.kind = "GET"
      PROVE  InboxFrom /\ sid' >= sid /\ (work' = Idle \/ work'.kind = "GET")
  <2>1. left[i] \in Storage
    BY <1>3, ElementOfSeq
  <2>2. ASSUME NEW x \in Storage, NEW h \in 1..Len(inbox'[x])
        PROVE  \/ inbox'[x][h].job = "GET" /\ inbox'[x][h].id = sid'
               \/ \E j \in 1..Len(inbox[x]) : inbox'[x][h] = inbox[x][j]
    <3>1. CASE x # left[i]
      <4>1. inbox'[x] = inbox[x]
        BY <1>1, <1>3, <3>1
      <4> QED BY <2>2, <4>1
    <3>2. CASE x = left[i]
      <4>1. PICK q : q = inbox[x] /\ q \in Seq(StorageRequests) /\ inbox'[x] = Append(q, msg)
        BY <1>1, <1>3, <3>2
      <4>2. PICK n \in Nat : n = Len(q)
        BY <4>1, LenProperties
      <4>3. Len(inbox'[x]) = n + 1 /\ inbox'[x][n + 1] = msg /\ \A j \in 1..n : inbox'[x][j] = q[j]
        BY <4>1, <4>2
      <4>4. h \in 1..n \/ h = n + 1
        BY <4>2, <4>3
      <4> QED BY <1>3, <4>1, <4>2, <4>3, <4>4
    <3> QED BY <3>1, <3>2
  <2> QED BY <1>1, <1>3, <2>2 DEF InboxFrom
<1>4. ASSUME NEW i, i \in 1..Len(left), sid' = sid + 1,
             inbox' = [inbox EXCEPT ![left[i]] = Append(@, StorageRequest(sid', "GET",
                          pending_reads[key(req)].obj, req.x, FALSE, << >>))],
             Wait("GET", req, sid', SubSeq(left, i, Len(left)))
      PROVE  InboxFrom /\ sid' >= sid /\ (work' = Idle \/ work'.kind = "GET")
  <2>1. PICK msg : msg = StorageRequest(sid', "GET", pending_reads[key(req)].obj, req.x, FALSE, << >>)
    OBVIOUS
  <2>2. msg.job = "GET" /\ msg.id = sid' /\ work'.kind = "GET"
    BY <1>4, <2>1 DEF StorageRequest, Wait
  <2> QED BY <1>3, <1>4, <2>1, <2>2
<1> QED BY <1>2, <1>4 DEF AskNext

\* READ_CHUNK
LEMMA ReadChunkOrphans ==
    ASSUME Typed, Typed', Ids, Ids', OrphanInv, HandleReadChunk
    PROVE  OrphanInv'
<1>1. /\ UNCHANGED <<meta, pending_writes, answers, node, restarts>> /\ work = Idle
  BY DEF HandleReadChunk, Taking, store
<1>2. FilesFrom /\ FilesKept /\ WritesFrom
  BY <1>1, SameFiles, WritesFromStay DEF Typed
<1>3. InboxFrom /\ sid' >= sid /\ (work' = Idle \/ work'.kind = "GET")
  <2>1. CASE UNCHANGED <<work, inbox, sid>>
    BY <1>1, <2>1, SameMessages DEF Typed, WorkTyped
  <2>2. CASE ~UNCHANGED <<work, inbox, sid>>
    <3>1. PICK req : req = Head(jobs)
      OBVIOUS
    <3>2. PICK r : r = pending_reads[key(req)]
      OBVIOUS
    <3>3. key(req) \in DOMAIN pending_reads /\ AskNext(req, r.replicas)
      BY <2>2, <3>1, <3>2 DEF HandleReadChunk
    <3>4. r.replicas \in Seq(Storage)
      BY <3>2, <3>3, PendingFacts, PairFacts DEF Typed
    <3> QED BY <3>3, <3>4, AskFrom
  <2> QED BY <2>1, <2>2
<1>4. DeleteInv'
  BY <1>3 DEF DeleteInv
<1> QED BY <1>1, <1>2, <1>3, <1>4, SameMessages, KeptData, WorkerOrphans

\* What is sent to both replicas is the last thing on its way to each.
LEMMA SentBoth ==
    ASSUME Typed, NEW r \in Pair, NEW msg, SendBoth(r, msg), NEW x \in Storage
    PROVE  /\ x \notin {r[1], r[2]} => inbox'[x] = inbox[x]
           /\ x \in {r[1], r[2]} =>
                \E n \in Nat : /\ n = Len(inbox[x]) /\ Len(inbox'[x]) = n + 1
                               /\ inbox'[x][n + 1] = msg
                               /\ \A i \in 1..n : inbox'[x][i] = inbox[x][i]
<1>1. x \notin {r[1], r[2]} => inbox'[x] = inbox[x]
  BY DEF SendBoth
<1>2. ASSUME x \in {r[1], r[2]}
      PROVE  \E n \in Nat : /\ n = Len(inbox[x]) /\ Len(inbox'[x]) = n + 1
                            /\ inbox'[x][n + 1] = msg
                            /\ \A i \in 1..n : inbox'[x][i] = inbox[x][i]
  <2>1. PICK q : q = inbox[x] /\ q \in Seq(StorageRequests)
    BY SentTypes
  <2>2. inbox'[x] = Append(q, msg)
    BY <1>2, <2>1 DEF SendBoth
  <2>3. PICK n \in Nat : n = Len(q)
    BY <2>1, LenProperties
  <2>4. Len(Append(q, msg)) = n + 1 /\ Append(q, msg)[n + 1] = msg
        /\ \A i \in 1..n : Append(q, msg)[i] = q[i]
    BY <2>1, <2>3
  <2> QED BY <2>1, <2>2, <2>3, <2>4
<1> QED BY <1>1, <1>2

\* WRITE_CHUNK: the chunk goes to the replicas of a file.
LEMMA WriteChunkOrphans ==
    ASSUME Typed, Typed', Ids, Ids', OrphanInv, HandleWriteChunk
    PROVE  OrphanInv'
<1>1. PICK req \in Req : req = Head(jobs)
  BY TakingTyped DEF HandleWriteChunk
<1>2. PICK k : k = key(req)
  OBVIOUS
<1>3. UNCHANGED <<meta, answers, node, sid, restarts>> /\ work = Idle /\ jobs # << >>
  BY DEF HandleWriteChunk, Taking, store
<1>4. CASE pending_writes' = Drop(pending_writes, k) /\ UNCHANGED <<work, inbox>>
  BY <1>3, <1>4, SameFiles, WritesFromStay, HandledOrphans DEF Typed
<1>5. CASE ~(pending_writes' = Drop(pending_writes, k) /\ UNCHANGED <<work, inbox>>)
  <2>1. PICK w : w = pending_writes[k]
    OBVIOUS
  <2>2. PICK msg : msg = StorageRequest(req.id, "PUT", w.obj, req.x,
                          req.x + 1 = w.count, << <<req.v, req.x>> >>)
    OBVIOUS
  <2>3. /\ k \in DOMAIN pending_writes /\ pending_writes' = pending_writes
        /\ SendBoth(w.replicas, msg) /\ Wait("PUT", req, req.id, w.replicas)
    BY <1>1, <1>2, <1>5, <2>1, <2>2 DEF HandleWriteChunk
  <2>4. w.replicas \in Pair /\ w.path \in DOMAIN meta /\ meta[w.path].obj = w.obj
        /\ meta[w.path].replicas = w.replicas
    <3>1. w.replicas \in Pair
      BY <2>1, <2>3, PendingFacts DEF Typed
    <3>2. Underway(k)
      <4>1. jobs \in Seq(Req) /\ Head(jobs) = jobs[1] /\ 1 \in 1..Len(jobs)
        <5>1. jobs \in Seq(Req)
          BY DEF Typed, JobsTyped
        <5>2. Len(jobs) \in Nat /\ Len(jobs) # 0 /\ Head(jobs) = jobs[1]
          BY <1>3, <5>1, LenProperties, EmptySeq, HeadTailProperties
        <5>3. PICK n \in Nat : n = Len(jobs) /\ n # 0
          BY <5>2
        <5>4. 1 \in 1..n
          BY <5>3
        <5> QED BY <5>1, <5>2, <5>3, <5>4
      <4> QED BY <1>1, <1>2, <4>1 DEF Underway
    <3>3. w.path \in DOMAIN meta /\ meta[w.path].obj = w.obj
      BY <2>1, <2>3, <3>2 DEF Ids, BoundInv, BoundAt
    <3>4. meta[w.path].replicas = w.replicas
      BY <2>1, <2>3, <3>3 DEF OrphanInv, ReplicasInv
    <3> QED BY <3>1, <3>3, <3>4
  <2>5. msg.job = "PUT" /\ msg.o = w.obj
    BY <2>2 DEF StorageRequest
  <2>6. ReplicasInv'
    BY <1>3, <2>3, SameHomes DEF OrphanInv
  <2>7. ASSUME OneEpoch' PROVE DataInv' /\ SidInv' /\ DeleteInv'
    <3>1. DataInv /\ SidInv
      BY <1>3, <2>7 DEF OneEpoch, OrphanInv, EpochInv
    <3>2. DeleteInv'
      BY <2>3 DEF Wait, DeleteInv
    <3>3. ASSUME NEW x \in Storage, NEW o \in Object, HasData(x, o)' PROVE Homed(x, o)'
      <4>1. CASE HasData(x, o)
        <5>1. Homed(x, o)
          BY <3>1, <4>1 DEF DataInv
        <5> QED BY <1>3, <5>1 DEF Homed
      <4>2. CASE ~HasData(x, o)
        <5>1. PICK i \in 1..Len(inbox'[x]) : PutOf(inbox'[x][i], o)
          BY <1>3, <3>3, <4>2 DEF HasData, OnDisk, PutOf
        <5>2. x \in {w.replicas[1], w.replicas[2]}
          <6>1. CASE inbox'[x] = inbox[x]
            BY <4>2, <5>1, <6>1 DEF HasData
          <6> QED BY <2>3, <2>4, <6>1, SentBoth
        <5>3. PICK n \in Nat : /\ n = Len(inbox[x]) /\ Len(inbox'[x]) = n + 1
                               /\ inbox'[x][n + 1] = msg
                               /\ \A j \in 1..n : inbox'[x][j] = inbox[x][j]
          BY <2>3, <2>4, <5>2, SentBoth
        <5>4. i \notin 1..n
          BY <4>2, <5>1, <5>3 DEF HasData
        <5>5. i = n + 1
          BY <5>1, <5>3, <5>4
        <5>6. o = w.obj
          BY <2>5, <5>1, <5>3, <5>5 DEF PutOf
        <5> QED BY <1>3, <2>4, <5>2, <5>6, PairFacts DEF Homed
      <4> QED BY <4>1, <4>2
    <3>4. ASSUME NEW x \in Storage, NEW i \in 1..Len(inbox'[x]), inbox'[x][i].job # "PUT"
          PROVE  inbox'[x][i].id <= sid
      <4>1. CASE x \notin {w.replicas[1], w.replicas[2]}
        <5>1. inbox'[x] = inbox[x]
          BY <2>3, <2>4, <4>1, SentBoth
        <5> QED BY <3>1, <3>4, <5>1 DEF SidInv
      <4>2. CASE x \in {w.replicas[1], w.replicas[2]}
        <5>1. PICK n \in Nat : /\ n = Len(inbox[x]) /\ Len(inbox'[x]) = n + 1
                               /\ inbox'[x][n + 1] = msg
                               /\ \A j \in 1..n : inbox'[x][j] = inbox[x][j]
          BY <2>3, <2>4, <4>2, SentBoth
        <5>2. i \in 1..n \/ i = n + 1
          BY <3>4, <5>1
        <5>3. i \in 1..n
          BY <2>5, <3>4, <5>1, <5>2
        <5> QED BY <3>1, <3>4, <5>1, <5>3 DEF SidInv
      <4> QED BY <4>1, <4>2
    <3>5. SidInv'
      BY <1>3, <3>1, <3>4 DEF SidInv
    <3> QED BY <3>2, <3>3, <3>5 DEF DataInv
  <2> QED BY <2>6, <2>7 DEF OrphanInv, EpochInv
<1> QED BY <1>4, <1>5

\* REMOVE that needs no storage node, or none is available.
LEMMA RemoveAtOnce ==
    ASSUME Typed, Typed', Ids, Ids', OrphanInv, HandleRemove, UNCHANGED <<work, inbox, sid>>
    PROVE  OrphanInv'
<1>1. PICK req : req = Head(jobs)
  OBVIOUS
<1>2. work' = Idle /\ UNCHANGED <<pending_writes, answers, node, restarts>>
  BY DEF HandleRemove, Taking, tables, Idle
<1>3. \/ meta' = meta
      \/ /\ req.p \in DOMAIN meta /\ meta[req.p].replicas = None /\ meta' = Drop(meta, req.p)
  <2>1. ~(sid' = sid + 1)
    BY DEF Typed, WorkTyped
  <2> QED BY <1>1, <2>1, ChangeCases DEF HandleRemove, Refuse, store
<1>4. FilesFrom /\ FilesKept
  <2>1. CASE meta' = meta
    BY <2>1, SameFiles
  <2>2. CASE req.p \in DOMAIN meta /\ meta[req.p].replicas = None /\ meta' = Drop(meta, req.p)
    <3>1. DOMAIN meta' = DOMAIN meta \ {req.p} /\ \A x \in DOMAIN meta : x # req.p => meta'[x] = meta[x]
      BY <2>2 DEF Drop
    <3> QED BY <2>2, <3>1 DEF FilesFrom, FilesKept
  <2> QED BY <1>3, <2>1, <2>2
<1>5. WritesFrom
  BY <1>2, WritesFromStay DEF Typed
<1> QED BY <1>2, <1>4, <1>5, HandledOrphans

\* REMOVE that deletes an object: its DELETE is the last thing on its way, and
\* the only one with its number.
LEMMA RemoveSends ==
    ASSUME Typed, Typed', OrphanInv, HandleRemove, ~UNCHANGED <<work, inbox, sid>>
    PROVE  OrphanInv'
<1>1. PICK req : req = Head(jobs)
  OBVIOUS
<1>2. PICK m : m = meta[req.p]
  OBVIOUS
<1>3. PICK id : id = sid'
  OBVIOUS
<1>4. PICK msg : msg = StorageRequest(id, "DELETE", m.obj, 0, FALSE, << >>)
  OBVIOUS
<1>5. /\ req.p \in DOMAIN meta /\ m.replicas # None /\ sid' = sid + 1
      /\ SendBoth(m.replicas, msg) /\ Wait("DELETE", req, id, m.replicas)
      /\ UNCHANGED store
  BY <1>1, <1>2, <1>3, <1>4 DEF HandleRemove
<1>6. UNCHANGED <<meta, pending_writes, answers, node, restarts>>
  BY <1>5 DEF HandleRemove, tables, store
<1>7. PICK r \in Pair : r = m.replicas
  BY <1>2, <1>5, MetaFacts DEF Typed
<1>8. sid \in Nat /\ id = sid + 1 /\ r[1] \in Storage /\ r[2] \in Storage /\ Len(r) = 2
  BY <1>3, <1>5, PairFacts DEF Typed, WorkTyped
<1>9. msg.job = "DELETE" /\ msg.o = m.obj /\ msg.id = id
  BY <1>4 DEF StorageRequest
<1>10. ReplicasInv'
  BY <1>6, SameHomes DEF OrphanInv
<1>11. ASSUME NEW x \in Storage
       PROVE  \/ inbox'[x] = inbox[x] /\ x \notin {r[1], r[2]}
              \/ /\ x \in {r[1], r[2]}
                 /\ \E n \in Nat : /\ n = Len(inbox[x]) /\ Len(inbox'[x]) = n + 1
                                   /\ inbox'[x][n + 1] = msg
                                   /\ \A j \in 1..n : inbox'[x][j] = inbox[x][j]
  <2>1. CASE x \in {r[1], r[2]}
    BY <1>5, <1>7, <2>1, SentBoth
  <2>2. CASE x \notin {r[1], r[2]}
    BY <1>5, <1>7, <2>2, SentBoth
  <2> QED BY <2>1, <2>2
<1>12. ASSUME OneEpoch' PROVE DataInv' /\ SidInv' /\ DeleteInv'
  <2>1. DataInv /\ SidInv
    BY <1>6, <1>12 DEF OneEpoch, OrphanInv, EpochInv
  <2>2. ASSUME NEW x \in Storage, NEW o \in Object, HasData(x, o)' PROVE Homed(x, o)'
    <3>1. HasData(x, o)
      <4>1. CASE OnDisk(node'[x], o)
        BY <1>6, <4>1 DEF HasData
      <4>2. CASE \E i \in 1..Len(inbox'[x]) : PutOf(inbox'[x][i], o)
        <5>1. PICK i \in 1..Len(inbox'[x]) : PutOf(inbox'[x][i], o)
          BY <4>2
        <5>2. CASE inbox'[x] = inbox[x]
          BY <5>1, <5>2 DEF HasData
        <5>3. ASSUME NEW n \in Nat, n = Len(inbox[x]), Len(inbox'[x]) = n + 1,
                     inbox'[x][n + 1] = msg, \A j \in 1..n : inbox'[x][j] = inbox[x][j]
              PROVE  HasData(x, o)
          <6>1. i \in 1..n \/ i = n + 1
            BY <5>1, <5>3
          <6>2. i \in 1..n
            BY <1>9, <5>1, <5>3, <6>1 DEF PutOf
          <6> QED BY <5>1, <5>3, <6>2 DEF HasData
        <5> QED BY <1>11, <5>2, <5>3
      <4> QED BY <2>2, <4>1, <4>2 DEF HasData, OnDisk, PutOf
    <3>2. Homed(x, o)
      BY <2>1, <3>1 DEF DataInv
    <3> QED BY <1>6, <3>2 DEF Homed
  <2>3. ASSUME NEW x \in Storage, NEW i \in 1..Len(inbox[x]), inbox[x][i].job # "PUT"
        PROVE  inbox[x][i].id \in Nat /\ inbox[x][i].id < id
    <3>1. inbox[x] \in Seq(StorageRequests)
      BY SentTypes
    <3>2. inbox[x][i] \in StorageRequests
      BY <3>1, ElementOfSeq
    <3>3. inbox[x][i].id \in Nat /\ inbox[x][i].id <= sid
      BY <2>1, <2>3, <3>2 DEF SidInv, StorageRequests
    <3> QED BY <1>8, <3>3
  <2>4. ASSUME NEW x \in Storage, NEW i \in 1..Len(answers[x]), answers[x][i].job # "PUT"
        PROVE  answers[x][i].id \in Nat /\ answers[x][i].id < id
    <3>1. answers[x] \in Seq(Answer)
      BY SentTypes
    <3>2. answers[x][i] \in Answer
      BY <3>1, ElementOfSeq
    <3>3. answers[x][i].id \in Nat /\ answers[x][i].id <= sid
      BY <2>1, <2>4, <3>2 DEF SidInv, Answer
    <3> QED BY <1>8, <3>3
  <2>5. SidInv'
    <3>1. ASSUME NEW x \in Storage, NEW i \in 1..Len(inbox'[x]), inbox'[x][i].job # "PUT"
          PROVE  inbox'[x][i].id <= id
      <4>1. CASE inbox'[x] = inbox[x]
        BY <1>8, <2>3, <3>1, <4>1
      <4>2. ASSUME NEW n \in Nat, n = Len(inbox[x]), Len(inbox'[x]) = n + 1,
                   inbox'[x][n + 1] = msg, \A j \in 1..n : inbox'[x][j] = inbox[x][j]
            PROVE  inbox'[x][i].id <= id
        <5>1. i \in 1..n \/ i = n + 1
          BY <3>1, <4>2
        <5>2. CASE i \in 1..n
          BY <1>8, <2>3, <3>1, <4>2, <5>2
        <5>3. CASE i = n + 1
          BY <1>8, <1>9, <4>2, <5>3
        <5> QED BY <5>1, <5>2, <5>3
      <4> QED BY <1>11, <4>1, <4>2
    <3>2. ASSUME NEW x \in Storage, NEW i \in 1..Len(answers'[x]), answers'[x][i].job # "PUT"
          PROVE  answers'[x][i].id <= id
      BY <1>6, <1>8, <2>4, <3>2
    <3> QED BY <1>3, <3>1, <3>2 DEF SidInv
  <2>6. work'.id = id /\ work'.left = r /\ work'.req = req
    BY <1>5, <1>7 DEF Wait
  <2>7. ASSUME NEW x \in {r[1], r[2]}, NEW o, o = m.obj PROVE Deleting(x, o)'
    <3>2. x \in Storage
      BY <1>8, <2>7
    <3>1. PICK n \in Nat : /\ n = Len(inbox[x]) /\ Len(inbox'[x]) = n + 1
                           /\ inbox'[x][n + 1] = msg
                           /\ \A j \in 1..n : inbox'[x][j] = inbox[x][j]
      BY <1>11, <2>7, <3>2
    <3>3. ASSUME NEW i \in 1..Len(inbox'[x]), ThisDelete(inbox[x][i])'
          PROVE  inbox'[x][i].o = o /\ \A j \in 1..Len(inbox'[x]) : j > i => ~PutOf(inbox'[x][j], o)
      <4>1. inbox'[x][i].job = "DELETE" /\ inbox'[x][i].id = id
        BY <2>6, <3>3 DEF ThisDelete
      <4>2. i \in 1..n \/ i = n + 1
        BY <3>1
      <4>3. i = n + 1
        <5>1. CASE i \in 1..n
          <6>1. inbox[x][i].job = "DELETE" /\ inbox[x][i].id = id /\ i \in 1..Len(inbox[x])
            BY <3>1, <4>1, <5>1
          <6>2. id \in Nat /\ id < id
            BY <2>3, <3>2, <6>1
          <6> QED BY <6>2
        <5> QED BY <4>2, <5>1
      <4>4. \A j \in 1..Len(inbox'[x]) : ~(j > i)
        BY <3>1, <4>3
      <4> QED BY <1>9, <2>7, <3>1, <4>3, <4>4
    <3>4. ASSUME NEW i \in 1..Len(answers'[x]), ThisDelete(answers[x][i])' PROVE FALSE
      <4>1. answers[x][i].job = "DELETE" /\ answers[x][i].id = id /\ i \in 1..Len(answers[x])
        BY <1>6, <2>6, <3>4 DEF ThisDelete
      <4>2. id \in Nat /\ id < id
        BY <2>4, <3>2, <4>1
      <4> QED BY <4>2
    <3>5. \E i \in 1..Len(work'.left) : work'.left[i] = x
      <4>1. 1 \in 1..Len(r) /\ 2 \in 1..Len(r)
        BY <1>8
      <4> QED BY <2>6, <4>1
    <3> QED BY <3>3, <3>4, <3>5 DEF Deleting, PutOf
  <2>8. DeleteInv'
    <3>1. meta'[work'.req.p] = m
      BY <1>2, <1>6, <2>6
    <3>2. PICK o : o = m.obj
      OBVIOUS
    <3>3. \A x \in {r[1], r[2]} : Deleting(x, o)'
      BY <2>7, <3>2
    <3> QED BY <1>5, <1>7, <3>1, <3>2, <3>3 DEF DeleteInv
  <2> QED BY <2>2, <2>5, <2>8 DEF DataInv
<1> QED BY <1>10, <1>12 DEF OrphanInv, EpochInv

-----------------------------------------------------------------------------
(* Leaked storage: the worker's waits *)

\* The end of a PUT: the file keeps its object and its replicas.
LEMMA FinishPutOrphans ==
    ASSUME Typed, Typed', Ids, Ids', OrphanInv, work # Idle, work.kind = "PUT", NEW ok, FinishPut(ok)
    PROVE  FilesFrom /\ FilesKept /\ WritesFrom
<1>1. PICK k : k = key(work.req)
  OBVIOUS
<1>2. PICK w : w = pending_writes[k]
  OBVIOUS
<1>3. k \in DOMAIN pending_writes
  BY <1>1 DEF Typed, WaitInv, Awaited
<1>4. WritesFrom
  <2>1. \/ pending_writes' = Drop(pending_writes, k)
        \/ pending_writes' = [pending_writes EXCEPT ![k].next = @ + 1]
    BY <1>1 DEF FinishPut
  <2> QED BY <1>3, <2>1, WritesFromStay DEF Typed
<1>5. meta' = meta \/ meta' = Set(meta, w.path, Completed(w))
  BY <1>1, <1>2, ChangeCases DEF FinishPut, Refuse, store
<1>6. Underway(k)
  BY <1>1 DEF Underway
<1>7. w.path \in DOMAIN meta /\ meta[w.path].obj = w.obj
  BY <1>2, <1>3, <1>6 DEF Ids, BoundInv, BoundAt
<1>8. meta[w.path].replicas = w.replicas
  BY <1>2, <1>3, <1>7 DEF OrphanInv, ReplicasInv
<1>9. Completed(w).obj = w.obj /\ Completed(w).replicas = w.replicas
  BY DEF Completed
<1>10. objects \in Nat
  BY Bounds DEF Typed, WorkTyped
<1> QED BY <1>4, <1>5, <1>7, <1>8, <1>9, <1>10, SameFiles, FilesSet

\* Every storage node the removed file had has confirmed the deletion.
LEMMA DeletedData ==
    ASSUME Typed, Ids, DataInv, DeleteInv, work # Idle, work.kind = "DELETE", Tail(work.left) = << >>,
           work.ok, ~HasData(Head(work.left), meta[work.req.p].obj), NEW x \in Storage
    PROVE  ~HasData(x, meta[work.req.p].obj)
<1>1. PICK r, o : r = meta[work.req.p].replicas /\ o = meta[work.req.p].obj
  OBVIOUS
<1>2. work.req.p \in DOMAIN meta /\ o \in Object /\ r \in Pair
  BY <1>1, MetaFacts DEF Typed, WaitInv, DeleteInv
<1>3. SUFFICES ASSUME HasData(x, o) PROVE FALSE
  BY <1>1
<1>4. x \in {r[1], r[2]}
  <2>1. PICK p \in DOMAIN meta : /\ meta[p].obj = o /\ meta[p].replicas # None
                                 /\ x \in {meta[p].replicas[1], meta[p].replicas[2]}
    BY <1>2, <1>3 DEF DataInv, Homed
  <2>2. p = work.req.p
    BY <1>1, <1>2, <2>1 DEF Ids, ObjectIdentity
  <2> QED BY <1>1, <2>1, <2>2
<1>5. Deleting(x, o)
  BY <1>1, <1>4 DEF DeleteInv
<1>6. PICK i \in 1..Len(work.left) : work.left[i] = x
  BY <1>3, <1>5 DEF Deleting
<1>7. PICK q : q = work.left /\ q \in Seq(Storage) /\ q # << >>
  BY WorkFacts DEF Typed
<1>8. Head(q) = q[1] /\ Len(Tail(q)) = Len(q) - 1 /\ Len(q) \in Nat
  BY <1>7, HeadTailProperties, LenProperties
<1>9. Len(q) = 1
  <2>1. Len(Tail(q)) = 0
    BY <1>7, EmptySeq
  <2>2. PICK n \in Nat : n = Len(q)
    BY <1>8
  <2>3. n - 1 = 0
    BY <1>8, <2>1, <2>2
  <2>4. n = 1
    BY <2>3
  <2> QED BY <2>2, <2>4
<1>10. i = 1
  BY <1>6, <1>7, <1>9
<1> QED BY <1>1, <1>3, <1>6, <1>7, <1>8, <1>10

\* The worker goes on with a DELETE.
LEMMA StillDeleting ==
    ASSUME Typed, Ids, DataInv, DeleteInv, work # Idle, work.kind = "DELETE", NEW s, s = Head(work.left),
           NEW ok, ok \in BOOLEAN, NEW rest, rest = Tail(work.left), rest # << >>,
           work' = [work EXCEPT !.left = rest, !.ok = AllOk(ok)],
           UNCHANGED <<inbox, meta, node>>, AnswersFrom, ok => ~HasData(s, meta[work.req.p].obj)
    PROVE  DeleteInv'
<1>1. PICK m : m = meta[work.req.p]
  OBVIOUS
<1>2. /\ work'.kind = "DELETE" /\ work'.req = work.req /\ work'.id = work.id
      /\ work'.left = rest /\ work'.ok = AllOk(ok) /\ work \in Work
  BY WorkFacts DEF Typed, Work
<1>3. m.replicas # None /\ \A x \in {m.replicas[1], m.replicas[2]} : Deleting(x, m.obj)
  BY <1>1 DEF DeleteInv
<1>4. work.req.p \in DOMAIN meta /\ m.replicas \in Pair
  BY <1>1, <1>3, MetaFacts DEF Typed, WaitInv
<1>5. ASSUME NEW x \in {m.replicas[1], m.replicas[2]}, NEW o, o = m.obj PROVE Deleting(x, o)'
  <2>1. x \in Storage /\ Deleting(x, o)
    BY <1>3, <1>4, <1>5, PairFacts
  <2>2. HasData(x, o)' <=> HasData(x, o)
    BY DEF HasData
  <2>3. \A i \in 1..Len(inbox'[x]) : ThisDelete(inbox[x][i])' =>
          inbox'[x][i].o = o /\ \A j \in 1..Len(inbox'[x]) : j > i => ~PutOf(inbox'[x][j], o)
    BY <1>2, <2>1 DEF Deleting, ThisDelete
  <2>4. ASSUME NEW i \in 1..Len(answers'[x]), ThisDelete(answers[x][i])', answers'[x][i].status = "Success"
        PROVE  ~HasData(x, o)'
    <3>1. PICK j \in 1..Len(answers[x]) : answers'[x][i] = answers[x][j]
      BY <2>1 DEF AnswersFrom
    <3>2. ThisDelete(answers[x][j]) /\ answers[x][j].status = "Success"
      BY <1>2, <2>4, <3>1 DEF ThisDelete
    <3> QED BY <2>1, <2>2, <3>2 DEF Deleting
  <2>5. (\E i \in 1..Len(work'.left) : work'.left[i] = x) \/ (work'.ok => ~HasData(x, o)')
    <3>1. SUFFICES ASSUME AllOk(ok), HasData(x, o) PROVE \E i \in 1..Len(rest) : rest[i] = x
      BY <1>2, <2>2
    <3>2. work.ok /\ ok
      BY <3>1 DEF AllOk
    <3>3. x # s
      BY <1>1, <1>5, <3>1, <3>2
    <3>4. PICK i \in 1..Len(work.left) : work.left[i] = x
      BY <2>1, <3>1, <3>2 DEF Deleting
    <3>5. PICK q : q = work.left /\ q \in Seq(Storage) /\ q # << >>
      BY WorkFacts DEF Typed
    <3>6. PICK n \in Nat : n = Len(q)
      BY <3>5, LenProperties
    <3>7. /\ Head(q) = q[1] /\ Len(Tail(q)) = n - 1
          /\ \A j \in 1..Len(Tail(q)) : Tail(q)[j] = q[j + 1]
      BY <3>5, <3>6, HeadTailProperties
    <3>8. i # 1 /\ i \in 1..n
      BY <3>3, <3>4, <3>5, <3>6, <3>7
    <3>9. i - 1 \in 1..(n - 1) /\ (i - 1) + 1 = i
      BY <3>8
    <3>10. Tail(q)[i - 1] = q[i] /\ i - 1 \in 1..Len(Tail(q))
      BY <3>7, <3>9
    <3> QED BY <3>4, <3>5, <3>10
  <2> QED BY <2>3, <2>4, <2>5 DEF Deleting
<1>6. meta'[work'.req.p] = m
  BY <1>1, <1>2
<1>7. PICK o : o = m.obj
  OBVIOUS
<1>8. \A x \in {m.replicas[1], m.replicas[2]} : Deleting(x, o)'
  BY <1>5, <1>7
<1> QED BY <1>3, <1>6, <1>7, <1>8 DEF DeleteInv

\* The end of a REMOVE: no data are left of the file, or it stays.
LEMMA FinishDeleteOrphans ==
    ASSUME Typed, Typed', Ids, OrphanInv, work # Idle, work.kind = "DELETE", NEW s, s = Head(work.left),
           Tail(work.left) = << >>, NEW ok, FinishDelete(AllOk(ok)), node' = node, inbox' = inbox,
           OneEpoch /\ ok => ~HasData(s, meta[work.req.p].obj)
    PROVE  FilesFrom /\ (OneEpoch => DataKept)
<1>1. CASE meta' = meta
  BY <1>1, SameFiles, KeptData
<1>2. CASE AllOk(ok) /\ meta' = Drop(meta, work.req.p)
  <2>1. DOMAIN meta' = DOMAIN meta \ {work.req.p} /\ \A x \in DOMAIN meta' : meta'[x] = meta[x]
    BY <1>2 DEF Drop
  <2>2. FilesFrom
    BY <2>1 DEF FilesFrom
  <2>3. ASSUME OneEpoch, NEW x \in Storage, NEW o \in Object, HasData(x, o), Homed(x, o)
        PROVE  Homed(x, o)'
    <3>1. DataInv /\ DeleteInv /\ work.ok /\ ok
      BY <1>2, <2>3 DEF OrphanInv, EpochInv, AllOk
    <3>2. o # meta[work.req.p].obj
      BY <2>3, <3>1, DeletedData
    <3> QED BY <2>1, <2>3, <3>2 DEF Homed
  <2> QED BY <2>2, <2>3 DEF DataKept
<1> QED BY <1>1, <1>2, ChangeCases DEF FinishDelete, Refuse, store

\* The worker goes on: an object whose deletion is confirmed has no data.
LEMMA ProceedOrphans ==
    ASSUME Typed, Typed', Ids, Ids', OrphanInv, work # Idle, NEW s, s = Head(work.left),
           NEW ok, ok \in BOOLEAN, NEW data, Proceed(ok, data), AnswersFrom,
           node' = node, restarts' = restarts,
           OneEpoch /\ work.kind = "DELETE" /\ ok => ~HasData(s, meta[work.req.p].obj)
    PROVE  OrphanInv'
<1>0. PICK rest : rest = Tail(work.left)
  OBVIOUS
<1>1. work' = Idle => DeleteInv'
  BY DEF DeleteInv
<1>2. sid \in Nat
  BY DEF Typed, WorkTyped
<1>3. CASE /\ work.kind \in {"PUT", "DELETE"} /\ rest # << >>
           /\ work' = [work EXCEPT !.left = rest, !.ok = AllOk(ok)]
           /\ UNCHANGED <<meta, pending_writes, sid, inbox>>
  <2>1. FilesFrom /\ FilesKept /\ WritesFrom /\ InboxFrom /\ sid' >= sid
    BY <1>2, <1>3, SameFiles, SameMessages, WritesFromStay DEF Typed
  <2>2. ASSUME OneEpoch PROVE DeleteInv'
    <3>1. DataInv /\ DeleteInv
      BY <2>2 DEF OrphanInv, EpochInv
    <3>2. CASE work.kind = "DELETE"
      BY <1>0, <1>3, <2>2, <3>1, <3>2, StillDeleting
    <3>3. CASE work.kind = "PUT"
      <4>1. work'.kind = "PUT"
        BY <1>3, <3>3, WorkFacts DEF Typed, Work
      <4> QED BY <4>1 DEF DeleteInv
    <3> QED BY <1>3, <3>2, <3>3
  <2> QED BY <2>1, <2>2, KeptData, WorkerOrphans
<1>4. CASE /\ work.kind = "PUT" /\ FinishPut(AllOk(ok)) /\ work' = Idle
           /\ UNCHANGED <<sid, inbox>>
  <2>1. FilesFrom /\ FilesKept /\ WritesFrom
    BY <1>4, FinishPutOrphans
  <2> QED BY <1>1, <1>2, <1>4, <2>1, SameMessages, KeptData, WorkerOrphans
<1>5. CASE /\ work.kind = "DELETE" /\ rest = << >> /\ FinishDelete(AllOk(ok)) /\ work' = Idle
           /\ UNCHANGED <<pending_writes, sid, inbox>>
  <2>1. FilesFrom /\ (OneEpoch => DataKept)
    BY <1>0, <1>5, FinishDeleteOrphans
  <2>2. WritesFrom
    BY <1>5, WritesFromStay DEF Typed
  <2> QED BY <1>1, <1>2, <1>5, <2>1, <2>2, SameMessages, WorkerOrphans
<1>6. CASE work' = Idle /\ UNCHANGED <<meta, pending_writes, sid, inbox>>
  <2>1. FilesFrom /\ FilesKept /\ WritesFrom
    BY <1>6, SameFiles, WritesFromStay DEF Typed
  <2> QED BY <1>1, <1>2, <1>6, <2>1, SameMessages, KeptData, WorkerOrphans
<1>7. CASE AskNext(work.req, rest) /\ UNCHANGED <<meta, pending_writes>>
  <2>1. FilesFrom /\ FilesKept /\ WritesFrom
    BY <1>7, SameFiles, WritesFromStay DEF Typed
  <2>2. rest \in Seq(Storage)
    <3>1. work.left \in Seq(Storage) /\ work.left # << >>
      BY WorkFacts DEF Typed
    <3> QED BY <1>0, <3>1, HeadTailProperties
  <2>3. InboxFrom /\ sid' >= sid /\ (work' = Idle \/ work'.kind = "GET")
    BY <1>7, <2>2, AskFrom
  <2>4. DeleteInv'
    BY <2>3 DEF DeleteInv
  <2> QED BY <2>1, <2>3, <2>4, KeptData, WorkerOrphans
<1> QED BY <1>0, <1>3, <1>4, <1>5, <1>6, <1>7 DEF Proceed, StillLeft, store, tables

\* What is left after one message was taken was there before.
LEMMA ErasedElements ==
    ASSUME NEW q \in Seq(Answer), NEW i \in 1..Len(q), NEW h \in 1..Len(Erased(q, i))
    PROVE  \E j \in 1..Len(q) : Erased(q, i)[h] = q[j]
<1>1. PICK S : S = {q[j] : j \in 1..Len(q)}
  OBVIOUS
<1>2. PICK n \in Nat : n = Len(q)
  BY LenProperties
<1>3. (\A j \in 1..i - 1 : q[j] \in S) /\ (\A j \in i + 1..n : q[j] \in S)
  BY <1>1, <1>2
<1>4. SubSeq(q, 1, i - 1) \in Seq(S) /\ SubSeq(q, i + 1, n) \in Seq(S)
  BY <1>2, <1>3, SubSeqProperties
<1>5. Erased(q, i) \in Seq(S)
  BY <1>2, <1>4, ConcatProperties DEF Erased
<1>6. Erased(q, i)[h] \in S
  BY <1>5, ElementOfSeq
<1> QED BY <1>1, <1>6

\* A storage node that has confirmed the DELETE has none of the object's data.
LEMMA ConfirmedGone ==
    ASSUME Typed, Ids, OrphanInv, OneEpoch, work # Idle, work.kind = "DELETE",
           NEW s \in Storage, NEW i \in 1..Len(answers[s]), ThisDelete(answers[s][i]),
           answers[s][i].status = "Success"
    PROVE  ~HasData(s, meta[work.req.p].obj)
<1>1. PICK m : m = meta[work.req.p]
  OBVIOUS
<1>2. DataInv /\ m.replicas # None /\ \A x \in {m.replicas[1], m.replicas[2]} : Deleting(x, m.obj)
  BY <1>1 DEF OrphanInv, EpochInv, DeleteInv
<1>3. work.req.p \in DOMAIN meta /\ m.obj \in Object
  BY <1>1, MetaFacts DEF Typed, WaitInv
<1>4. SUFFICES ASSUME HasData(s, m.obj) PROVE FALSE
  BY <1>1
<1>5. PICK p \in DOMAIN meta : meta[p].obj = m.obj /\ s \in {meta[p].replicas[1], meta[p].replicas[2]}
  BY <1>2, <1>3, <1>4 DEF DataInv, Homed
<1>6. p = work.req.p
  BY <1>1, <1>3, <1>5 DEF Ids, ObjectIdentity
<1>7. Deleting(s, m.obj)
  BY <1>1, <1>2, <1>5, <1>6
<1> QED BY <1>4, <1>7 DEF Deleting

\* The worker takes an answer.
LEMMA WorkerReceiveOrphans ==
    ASSUME Typed, Typed', Ids, Ids', OrphanInv, WorkerReceive
    PROVE  OrphanInv'
<1>1. work # Idle /\ node' = node /\ restarts' = restarts
  BY DEF WorkerReceive
<1>2. PICK s : s = Head(work.left)
  OBVIOUS
<1>3. PICK i, a :
        /\ i \in 1..Len(answers[s]) /\ a = answers[s][i]
        /\ Matches(a) /\ answers' = [answers EXCEPT ![s] = Erased(answers[s], i)]
        /\ Proceed(a.status = "Success" /\ (a.job = "GET" => a.data # << >>), a.data)
  BY <1>2 DEF WorkerReceive
<1>4. PICK ok : /\ ok \in BOOLEAN /\ (ok => a.status = "Success")
                /\ ok = (a.status = "Success" /\ (a.job = "GET" => a.data # << >>))
  OBVIOUS
<1>5. s \in Storage /\ answers \in [Storage -> Seq(Answer)]
  <2>1. work.left \in Seq(Storage) /\ work.left # << >>
    BY <1>1, WorkFacts DEF Typed
  <2> QED BY <1>2, <2>1, HeadTailProperties DEF Typed, StorageTyped
<1>6. AnswersFrom
  <2>1. \A x \in Storage : x # s => answers'[x] = answers[x]
    BY <1>3, <1>5
  <2>2. PICK q : q = answers[s] /\ q \in Seq(Answer) /\ i \in 1..Len(q) /\ answers'[s] = Erased(q, i)
    BY <1>3, <1>5
  <2>3. ASSUME NEW h \in 1..Len(Erased(q, i)) PROVE \E j \in 1..Len(q) : Erased(q, i)[h] = q[j]
    BY <2>2, <2>3, ErasedElements
  <2>4. ASSUME NEW x \in Storage, NEW h \in 1..Len(answers'[x])
        PROVE  \E j \in 1..Len(answers[x]) : answers'[x][h] = answers[x][j]
    <3>1. CASE x = s
      BY <2>2, <2>3, <2>4, <3>1
    <3>2. CASE x # s
      BY <2>1, <2>4, <3>2
    <3> QED BY <3>1, <3>2
  <2> QED BY <2>4 DEF AnswersFrom
<1>7. ASSUME OneEpoch, work.kind = "DELETE", ok PROVE ~HasData(s, meta[work.req.p].obj)
  <2>1. ThisDelete(a) /\ a.status = "Success"
    BY <1>3, <1>4, <1>7 DEF Matches, ThisDelete
  <2> QED BY <1>1, <1>3, <1>5, <1>7, <2>1, ConfirmedGone
<1>8. Proceed(ok, a.data)
  BY <1>3, <1>4
<1> QED BY <1>1, <1>2, <1>4, <1>6, <1>7, <1>8, ProceedOrphans

\* The worker stops waiting.
LEMMA WorkerTimeoutOrphans ==
    ASSUME Typed, Typed', Ids, Ids', OrphanInv, WorkerTimeout
    PROVE  OrphanInv'
<1>1. /\ work # Idle /\ UNCHANGED <<node, restarts, answers>> /\ Proceed(FALSE, << >>)
  BY DEF WorkerTimeout
<1>2. PICK s : s = Head(work.left)
  OBVIOUS
<1>3. FALSE \in BOOLEAN
  OBVIOUS
<1> QED BY <1>1, <1>2, <1>3, SameMessages, ProceedOrphans

\* The worker takes a request from its queue.
LEMMA WorkerHandleOrphans ==
    ASSUME Typed, Typed', Ids, Ids', OrphanInv, WorkerHandle
    PROVE  OrphanInv'
BY CreateOrphans, WriteFileOrphans, WriteChunkOrphans, ReadChunkOrphans, RemoveAtOnce, RemoveSends,
   RenameOrphans, LookOrphans DEF WorkerHandle

-----------------------------------------------------------------------------
(* Leaked storage: the theorems *)

\* A metadata node that starts again has no pending writes.
LEMMA MetadataRestartOrphans ==
    ASSUME Typed, MetadataRestart
    PROVE  OrphanInv'
<1>1. pending_writes' = << >> /\ restarts' = [restarts EXCEPT !["metadata"] = @ + 1]
  BY DEF MetadataRestart, Restart
<1>2. restarts.metadata \in Nat /\ restarts'.metadata = restarts.metadata + 1
  BY <1>1, Bounds DEF Typed, MishapsTyped
<1>3. ~OneEpoch'
  BY <1>2 DEF OneEpoch
<1>4. DOMAIN pending_writes' = {}
  BY <1>1
<1> QED BY <1>3, <1>4 DEF OrphanInv, EpochInv, ReplicasInv

\* Clients and heartbeats change nothing the invariant is about.
LEMMA ElsewhereOrphans ==
    ASSUME Typed, OrphanInv,
           \/ \E c \in Client : Issue(c) \/ ClientReceive(c) \/ ClientTimeout(c) \/ ClientRestart(c)
           \/ \E s \in Storage : HandleHeartbeat(s) \/ ExpireHeartbeat(s)
           \/ UNCHANGED vars
    PROVE  OrphanInv'
<1>0. \/ \E c \in Client : Issue(c)
      \/ \E c \in Client : ClientReceive(c) \/ ClientTimeout(c) \/ ClientRestart(c)
      \/ \E s \in Storage : HandleHeartbeat(s) \/ ExpireHeartbeat(s)
      \/ UNCHANGED vars
  OBVIOUS
<1>1. UNCHANGED <<inbox, answers, node, work, meta, pending_writes, sid>>
  <2>1. ASSUME NEW c \in Client, Issue(c)
        PROVE  UNCHANGED <<inbox, answers, node, work, meta, pending_writes, sid>>
    BY <2>1 DEF Issue, Begin, storageVars, store, tables
  <2> QED BY <1>0, <2>1 DEF ClientReceive, ClientTimeout, ClientRestart, HandleHeartbeat,
                            ExpireHeartbeat, vars, storageVars, store, tables
<1>2. restarts' = restarts \/ restarts' = [restarts EXCEPT !["client"] = @ + 1]
  <2>1. ASSUME NEW c \in Client, Issue(c) PROVE restarts' = restarts
    BY <2>1 DEF Issue, Begin
  <2> QED BY <1>0, <2>1 DEF ClientReceive, ClientTimeout, ClientRestart, HandleHeartbeat,
                            ExpireHeartbeat, vars, Restart
<1>3. restarts'.metadata = restarts.metadata
  BY <1>2 DEF Typed, MishapsTyped
<1>4. ReplicasInv' /\ (OneEpoch' => OneEpoch)
  BY <1>1, <1>3 DEF OrphanInv, ReplicasInv, OneEpoch
<1>5. (DataInv => DataInv') /\ (SidInv => SidInv') /\ (DeleteInv => DeleteInv')
  <2>1. DataInv => DataInv'
    BY <1>1 DEF DataInv, HasData, Homed
  <2>2. SidInv => SidInv'
    BY <1>1 DEF SidInv
  <2>3. ASSUME NEW x, NEW o, Deleting(x, o) PROVE Deleting(x, o)'
    BY <1>1, <2>3 DEF Deleting, HasData, ThisDelete
  <2>4. PICK m : m = meta[work.req.p]
    OBVIOUS
  <2>5. PICK o : o = m.obj
    OBVIOUS
  <2>6. DeleteInv => DeleteInv'
    BY <1>1, <2>3, <2>4, <2>5 DEF DeleteInv
  <2> QED BY <2>1, <2>2, <2>6
<1> QED BY <1>4, <1>5 DEF OrphanInv, EpochInv

\* At the start there are no data and no requests.
LEMMA InitOrphans == ASSUME Init PROVE OrphanInv
<1>1. \A s \in Storage : inbox[s] = << >> /\ answers[s] = << >> /\ node[s] = FreshNode
  BY DEF Init
<1>2. \A s \in Storage : Len(inbox[s]) = 0 /\ Len(answers[s]) = 0
  BY <1>1, EmptySeq
<1>3. \A s \in Storage : (\A i \in 1..Len(inbox[s]) : FALSE) /\ (\A i \in 1..Len(answers[s]) : FALSE)
  BY <1>2
<1>4. \A s \in Storage, o \in Object : ~OnDisk(node[s], o)
  BY <1>1 DEF FreshNode, OnDisk
<1>5. work = Idle /\ DOMAIN pending_writes = {}
  BY DEF Init
<1> QED BY <1>3, <1>4, <1>5 DEF OrphanInv, EpochInv, ReplicasInv, DataInv, HasData, SidInv, DeleteInv

\* Where no file is removed or renamed under a writer that can go on, data are
\* where their files are in every reachable state.
THEOREM OrphanInvariant == ASSUME Undisputed PROVE Spec => [](Typed /\ Ids /\ OrphanInv)
<1>1. Init => Typed /\ Ids /\ OrphanInv
  BY InitTyped, InitIds, InitOrphans
<1>2. Typed /\ Ids /\ OrphanInv /\ [Next]_vars => (Typed /\ Ids /\ OrphanInv)'
  <2> SUFFICES ASSUME Typed, Ids, OrphanInv, [Next]_vars PROVE Typed' /\ Ids' /\ OrphanInv'
    OBVIOUS
  <2>1. Typed' /\ Ids'
    BY StepTyped, StepIds
  <2>2. OrphanInv'
    BY <2>1, WorkerHandleOrphans, WorkerReceiveOrphans, WorkerTimeoutOrphans, StorageHandleOrphans,
       StorageRestartOrphans, MetadataRestartOrphans, ElsewhereOrphans DEF Next
  <2> QED BY <2>1, <2>2
<1> QED BY <1>1, <1>2, PTL DEF Spec

\* What the invariant says of leaked storage.
LEMMA NothingLeaks == Typed /\ OrphanInv => NoOrphansOneEpoch
BY DEF OrphanInv, EpochInv, OneEpoch, DataInv, HasData, OnDisk, PutOf, Homed, NoOrphansOneEpoch, NoOrphans

\* Storage is not leaked as long as the metadata node has not died: where
\* nothing is renamed and clients spell each path in one way, or all requests
\* come from one client process, each chunk on the disk of a storage node or on its way there belongs to a file,
\* whatever timeouts, disk errors and restarts of storage nodes do.  A DELETE
\* that was not confirmed leaves the file in place.
THEOREM DataHaveFiles == ASSUME Undisputed PROVE Spec => []NoOrphansOneEpoch
<1> QED BY NothingLeaks, OrphanInvariant, PTL

\* A metadata node that is never restarted leaks no storage at all, under the
\* same condition on clients.
THEOREM NoLeaks ==
    ASSUME Undisputed, "metadata" \notin Restarting PROVE Spec => []NoOrphans
<1>1. Init => OneEpoch
  BY DEF Init, OneEpoch
<1>2. Typed /\ OneEpoch /\ [Next]_vars => OneEpoch'
  <2> SUFFICES ASSUME Typed, OneEpoch, [Next]_vars PROVE OneEpoch'
    OBVIOUS
  <2>1. restarts' = restarts \/ \E k \in Restarting : restarts' = [restarts EXCEPT ![k] = @ + 1]
    <3>1. ASSUME NEW c \in Client, Issue(c) PROVE restarts' = restarts
      BY <3>1 DEF Issue, Begin
    <3>2. WorkerHandle \/ WorkerReceive \/ WorkerTimeout => restarts' = restarts
      BY DEF WorkerHandle, HandleCreateFile, HandleWriteFile, HandleWriteChunk, HandleReadFile,
             HandleReadChunk, HandleRemove, HandleRename, HandleMakeDir, HandleList, HandleStat,
             WorkerReceive, WorkerTimeout
    <3> QED BY <3>1, <3>2 DEF Next, vars, ClientReceive, ClientTimeout, ClientRestart, StorageHandle,
                   StorageRestart, HandleHeartbeat, ExpireHeartbeat, MetadataRestart, Restart
  <2>2. restarts'.metadata = restarts.metadata
    BY <2>1, KindsAssumption DEF Typed, MishapsTyped
  <2> QED BY <2>2 DEF OneEpoch
<1>3. OneEpoch /\ NoOrphansOneEpoch => NoOrphans
  BY DEF OneEpoch, NoOrphansOneEpoch
<1>4. Spec => [](Typed /\ LeftoverInv)
  BY LeftoverInvariant
<1>5. Spec => []NoOrphansOneEpoch
  BY DataHaveFiles
<1> QED BY <1>1, <1>2, <1>3, <1>4, <1>5, PTL DEF Spec

-----------------------------------------------------------------------------
(* Pending conversations: the inductive invariant *)

ReadJobs == {"READ_FILE", "READ_CHUNK"}

\* The client is in conversation k.
Current(k) == client[k[1]].req # NoReq /\ client[k[1]].req.id = k[2]

\* A request, a handler or a response of conversation k is under way.
Queued(k) == \E i \in 1..Len(jobs) : key(jobs[i]) = k
Handled(k) == work # Idle /\ key(work.req) = k
Replied(k) == \E m \in replies[k[1]] : m.id = k[2]

NoEntry(k) == k \notin DOMAIN pending_writes /\ k \notin DOMAIN pending_reads

\* The entry of conversation k, if it is there, is at chunk x of n.
EntryAt(f, k, x, n) ==
    k \in DOMAIN f => f[k].next = x /\ f[k].count = n /\ f[k].next < f[k].count

\* What the tables hold of a conversation whose request req, of a client that
\* counts n chunks, is not answered yet ...
Unanswered(k, req, n) ==
    /\ IF req.job = "WRITE_CHUNK" THEN EntryAt(pending_writes, k, req.x, n)
       ELSE k \notin DOMAIN pending_writes
    /\ IF req.job = "READ_CHUNK" THEN EntryAt(pending_reads, k, req.x, n)
       ELSE k \notin DOMAIN pending_reads
    /\ req.job = "WRITE_FILE" => req.x = n

\* ... or has been answered with m.
Following(req) == IF req.job \in ChunkJobs THEN req.x + 1 ELSE 0
Counted(req, n, m) == IF req.job = "READ_FILE" THEN m.n ELSE n

Answered(k, req, n, m) ==
    \/ NoEntry(k)
    \/ /\ m.status = "Success" /\ req.job \in WriteJobs /\ k \notin DOMAIN pending_reads
       /\ EntryAt(pending_writes, k, Following(req), n)
    \/ /\ m.status = "Success" /\ req.job \in ReadJobs /\ k \notin DOMAIN pending_writes
       /\ EntryAt(pending_reads, k, Following(req), Counted(req, n, m))

\* One message at most is under way in the conversation the client is in, and
\* the entry fits it; without one there is no entry.
OnlyJob(k, req) ==
    \A i \in 1..Len(jobs) : key(jobs[i]) = k =>
        jobs[i] = req /\ \A j \in 1..Len(jobs) : key(jobs[j]) = k => i = j

OnlyReply(k, req, n) ==
    \E m \in replies[k[1]] :
        /\ m.id = k[2] /\ Answers(m, req) /\ Answered(k, req, n, m)
        /\ \A l \in replies[k[1]] : l.id = k[2] => l = m

Engaged(k, req, n) ==
    /\ Queued(k) => OnlyJob(k, req) /\ Unanswered(k, req, n) /\ ~Handled(k) /\ ~Replied(k)
    /\ Handled(k) => work.req = req /\ Unanswered(k, req, n) /\ ~Replied(k)
    /\ Replied(k) => OnlyReply(k, req, n)
    /\ Queued(k) \/ Handled(k) \/ Replied(k) \/ NoEntry(k)

\* Nothing is left of a conversation that is over.
Ended(k) == ~Queued(k) /\ ~Handled(k) /\ ~Replied(k) /\ NoEntry(k)

Clean(k) ==
    IF Current(k) THEN Engaged(k, client[k[1]].req, client[k[1]].n) ELSE Ended(k)

\* The conversations that a client left without an answer, and those that
\* have the id of one.
Dirty == {k \in Keys : ~Clean(k)}
Abandoned == timeouts + faults + restarts.client

\* What the worker waits for is what the request is about.
KindInv ==
    work # Idle => <<work.kind, work.req.job>> \in {<<"PUT", "WRITE_CHUNK">>, <<"GET", "READ_CHUNK">>,
                                                    <<"DELETE", "REMOVE">>}

PendingInv == KindInv /\ IsFiniteSet(Dirty) /\ Cardinality(Dirty) <= Abandoned

-----------------------------------------------------------------------------
(* Pending conversations: what a step leaves alone *)

SameEntry(f, g, k) == (k \in DOMAIN g <=> k \in DOMAIN f) /\ (k \in DOMAIN f => g[k] = f[k])
SameEntries(k) ==
    SameEntry(pending_writes, pending_writes', k) /\ SameEntry(pending_reads, pending_reads', k)
SameQueue(k) == (Queued(k)' <=> Queued(k)) /\ \A r : OnlyJob(k, r) => OnlyJob(k, r)'
SameWork(k) == (Handled(k)' <=> Handled(k)) /\ (Handled(k) => work'.req = work.req)
SameReplies(k) == \A m : m.id = k[2] => (m \in replies'[k[1]] <=> m \in replies[k[1]])
SameClient(k) ==
    \/ client'[k[1]].req = client[k[1]].req /\ client'[k[1]].n = client[k[1]].n
    \/ ~Current(k) /\ ~Current(k)'

\* Entries that stay mean the same.
LEMMA SameEntryFacts ==
    ASSUME NEW k, SameEntries(k)
    PROVE  /\ NoEntry(k)' <=> NoEntry(k)
           /\ \A req, n : Unanswered(k, req, n) => Unanswered(k, req, n)'
           /\ \A req, n, m : Answered(k, req, n, m) => Answered(k, req, n, m)'
<1>1. NoEntry(k)' <=> NoEntry(k)
  BY DEF NoEntry, SameEntries, SameEntry
<1>2. ASSUME NEW x, NEW n
      PROVE  /\ EntryAt(pending_writes, k, x, n) => EntryAt(pending_writes', k, x, n)
             /\ EntryAt(pending_reads, k, x, n) => EntryAt(pending_reads', k, x, n)
  BY DEF EntryAt, SameEntries, SameEntry
<1>3. (k \in DOMAIN pending_writes' <=> k \in DOMAIN pending_writes)
      /\ (k \in DOMAIN pending_reads' <=> k \in DOMAIN pending_reads)
  BY DEF SameEntries, SameEntry
<1>4. ASSUME NEW req, NEW n, Unanswered(k, req, n) PROVE Unanswered(k, req, n)'
  BY <1>2, <1>3, <1>4 DEF Unanswered
<1>5. ASSUME NEW req, NEW n, NEW m, Answered(k, req, n, m) PROVE Answered(k, req, n, m)'
  BY <1>1, <1>2, <1>3, <1>5 DEF Answered
<1> QED BY <1>1, <1>4, <1>5

\* A conversation that a step does not touch is as clean as before.
LEMMA CleanStays ==
    ASSUME NEW k, Clean(k), SameEntries(k), SameQueue(k), SameWork(k), SameReplies(k), SameClient(k)
    PROVE  Clean(k)'
<1>1. PICK req, n : req = client[k[1]].req /\ n = client[k[1]].n
  OBVIOUS
<1>2. /\ NoEntry(k)' <=> NoEntry(k)
      /\ \A r, x : Unanswered(k, r, x) => Unanswered(k, r, x)'
      /\ \A r, x, m : Answered(k, r, x, m) => Answered(k, r, x, m)'
  BY SameEntryFacts
<1>3. Replied(k)' <=> Replied(k)
  BY DEF Replied, SameReplies
<1>4. CASE ~Current(k) /\ ~Current(k)'
  BY <1>2, <1>3, <1>4 DEF Clean, Ended, SameQueue, SameWork
<1>5. CASE client'[k[1]].req = req /\ client'[k[1]].n = n
  <2>1. Current(k)' <=> Current(k)
    BY <1>1, <1>5 DEF Current
  <2>2. CASE Current(k)
    <3>1. Engaged(k, req, n)
      BY <1>1, <2>2 DEF Clean
    <3>2. Replied(k) => OnlyReply(k, req, n)'
      <4>1. SUFFICES ASSUME Replied(k) PROVE OnlyReply(k, req, n)'
        OBVIOUS
      <4>2. PICK m \in replies[k[1]] :
              /\ m.id = k[2] /\ Answers(m, req) /\ Answered(k, req, n, m)
              /\ \A l \in replies[k[1]] : l.id = k[2] => l = m
        BY <3>1, <4>1 DEF Engaged, OnlyReply
      <4>3. m \in replies'[k[1]] /\ Answered(k, req, n, m)'
            /\ \A l \in replies'[k[1]] : l.id = k[2] => l = m
        BY <1>2, <4>2 DEF SameReplies
      <4> QED BY <4>2, <4>3 DEF OnlyReply
    <3>3. Engaged(k, req, n)'
      BY <1>2, <1>3, <3>1, <3>2 DEF Engaged, SameQueue, SameWork
    <3> QED BY <1>5, <2>1, <2>2, <3>3 DEF Clean
  <2>3. CASE ~Current(k)
    BY <1>4, <2>1, <2>3
  <2> QED BY <2>2, <2>3
<1> QED BY <1>1, <1>4, <1>5 DEF SameClient

\* What is unchanged is the same.
LEMMA UnchangedSame ==
    ASSUME NEW k
    PROVE  /\ UNCHANGED tables => SameEntries(k)
           /\ UNCHANGED jobs => SameQueue(k)
           /\ UNCHANGED work => SameWork(k)
           /\ UNCHANGED replies => SameReplies(k)
           /\ UNCHANGED client => SameClient(k)
<1>1. UNCHANGED tables => SameEntries(k)
  BY DEF tables, SameEntries, SameEntry
<1>2. UNCHANGED jobs => SameQueue(k)
  BY DEF SameQueue, Queued, OnlyJob
<1>3. UNCHANGED work => SameWork(k)
  BY DEF SameWork, Handled
<1>4. UNCHANGED replies => SameReplies(k)
  BY DEF SameReplies
<1>5. UNCHANGED client => SameClient(k)
  BY DEF SameClient
<1> QED BY <1>1, <1>2, <1>3, <1>4, <1>5

\* A request joins the queue.
LEMMA SentQueue ==
    ASSUME jobs \in Seq(Req), NEW r \in Req, jobs' = Append(jobs, r), NEW k
    PROVE  /\ key(r) # k => SameQueue(k)
           /\ key(r) = k /\ ~Queued(k) => Queued(k)' /\ OnlyJob(k, r)'
<1>1. PICK n \in Nat : n = Len(jobs)
  BY LenProperties
<1>2. Len(jobs') = n + 1 /\ jobs'[n + 1] = r /\ \A i \in 1..n : jobs'[i] = jobs[i]
  BY <1>1
<1>3. \A i \in 1..Len(jobs') : i \in 1..n \/ i = n + 1
  BY <1>2
<1>4. \A i \in 1..n : i \in 1..Len(jobs')
  BY <1>2
<1>5. n + 1 \in 1..Len(jobs') /\ n + 1 \notin 1..n
  BY <1>2
<1>6. ASSUME key(r) # k PROVE SameQueue(k)
  <2>1. Queued(k)' <=> Queued(k)
    BY <1>1, <1>2, <1>3, <1>4, <1>6 DEF Queued, key
  <2>2. ASSUME NEW q, OnlyJob(k, q) PROVE OnlyJob(k, q)'
    BY <1>1, <1>2, <1>3, <1>6, <2>2 DEF OnlyJob, key
  <2> QED BY <2>1, <2>2 DEF SameQueue
<1>7. ASSUME key(r) = k, ~Queued(k) PROVE Queued(k)' /\ OnlyJob(k, r)'
  <2>1. Queued(k)'
    BY <1>2, <1>5, <1>7 DEF Queued, key
  <2>2. \A i \in 1..Len(jobs') : key(jobs'[i]) = k => i = n + 1
    BY <1>1, <1>2, <1>3, <1>7 DEF Queued, key
  <2> QED BY <1>2, <2>1, <2>2 DEF OnlyJob, key
<1> QED BY <1>6, <1>7

\* The worker takes the first request.
LEMMA TakenQueue ==
    ASSUME jobs \in Seq(Req), jobs # << >>, jobs' = Tail(jobs), NEW k
    PROVE  /\ key(Head(jobs)) # k => SameQueue(k)
           /\ key(Head(jobs)) = k => Queued(k) /\ \A r : OnlyJob(k, r) => r = Head(jobs) /\ ~Queued(k)'
<1>1. PICK n \in Nat : n = Len(jobs)
  BY LenProperties
<1>2. n # 0
  BY <1>1, EmptySeq
<1>3. Head(jobs) = jobs[1] /\ Len(jobs') = n - 1 /\ \A i \in 1..Len(jobs') : jobs'[i] = jobs[i + 1]
  BY <1>1, HeadTailProperties
<1>4. 1 \in 1..n /\ \A i \in 1..Len(jobs') : i + 1 \in 1..n /\ i + 1 # 1
  BY <1>2, <1>3
<1>5. \A i \in 1..n : i = 1 \/ (i - 1 \in 1..Len(jobs') /\ (i - 1) + 1 = i)
  BY <1>2, <1>3
<1>6. ASSUME key(jobs[1]) # k PROVE SameQueue(k)
  <2>1. ASSUME Queued(k)' PROVE Queued(k)
    BY <1>1, <1>3, <1>4, <2>1 DEF Queued, key
  <2>2. ASSUME Queued(k) PROVE Queued(k)'
    <3>1. PICK i \in 1..n : key(jobs[i]) = k
      BY <1>1, <2>2 DEF Queued
    <3>2. i - 1 \in 1..Len(jobs') /\ jobs'[i - 1] = jobs[i]
      BY <1>3, <1>5, <1>6, <3>1
    <3> QED BY <3>1, <3>2 DEF Queued, key
  <2>3. ASSUME NEW q, OnlyJob(k, q) PROVE OnlyJob(k, q)'
    <3>1. ASSUME NEW i \in 1..Len(jobs'), key(jobs'[i]) = k, NEW j \in 1..Len(jobs'), key(jobs'[j]) = k
          PROVE  jobs'[i] = q /\ i = j
      <4>1. jobs[i + 1] = q /\ i + 1 = j + 1
        BY <1>1, <1>3, <1>4, <2>3, <3>1 DEF OnlyJob
      <4> QED BY <1>3, <3>1, <4>1
    <3> QED BY <3>1 DEF OnlyJob, key
  <2> QED BY <2>1, <2>2, <2>3 DEF SameQueue
<1>7. ASSUME key(jobs[1]) = k
      PROVE  Queued(k) /\ \A r : OnlyJob(k, r) => r = jobs[1] /\ ~Queued(k)'
  <2>1. Queued(k)
    BY <1>1, <1>4, <1>7 DEF Queued
  <2>2. ASSUME NEW r, OnlyJob(k, r) PROVE r = jobs[1] /\ ~Queued(k)'
    BY <1>1, <1>3, <1>4, <1>7, <2>2 DEF OnlyJob, Queued, key
  <2> QED BY <2>1, <2>2
<1> QED BY <1>3, <1>6, <1>7

-----------------------------------------------------------------------------
(* Pending conversations: the clients *)

\* A key is its parts.
LEMMA KeyFacts ==
    ASSUME NEW r \in Req
    PROVE  /\ key(r)[1] = r.c /\ key(r)[2] = r.id /\ key(r) \in Keys
           /\ \A k \in Keys : k[1] = r.c /\ k[2] = r.id => k = key(r)
BY ReqFacts DEF key, Keys

\* A client begins a conversation: nothing was left of one with this id.
LEMMA IssueClean ==
    ASSUME Typed, Typed', NEW c \in Client, Issue(c), NEW k \in Keys, Clean(k)
    PROVE  Clean(k)'
<1>1. PICK job \in Jobs, p \in Path, q \in Path, n \in 0..MaxChunks : Begin(c, job, p, q, n)
  BY IssueCases
<1>2. PICK req : req = Request(c, client[c].id + 1, job, p, q, n,
                               IF job = "WRITE_FILE" THEN writes + 1 ELSE 0)
  OBVIOUS
<1>3. /\ client[c].req = NoReq /\ jobs' = Append(jobs, req)
      /\ client' = [d \in Client |->
            IF d = c
            THEN [id |-> req.id, req |-> req, n |-> n, got |-> << >>,
                  snap |-> settled[p], result |-> None]
            ELSE [client[d] EXCEPT !.snap = IF Disturbs(req, client[d].req) THEN None ELSE @]]
      /\ UNCHANGED <<replies, work, tables>>
  BY <1>1, <1>2 DEF Begin
<1>4. req.c = c /\ req.job = job /\ req.x = n /\ DOMAIN req = {"c", "id", "job", "p", "q", "x", "v"}
  BY <1>2 DEF Request
<1>5. client'[c].req = req /\ client'[c].n = n
  BY <1>3
<1>6. ASSUME NEW d \in Client, d # c
      PROVE  client'[d].req = client[d].req /\ client'[d].n = client[d].n
  <2>1. client[d] \in ClientState
    BY ClientFacts DEF Typed
  <2> QED BY <1>3, <1>6, <2>1 DEF ClientState
<1>7. req \in Req
  <2>1. client'[c].req \in Req \cup {NoReq}
    BY DEF Typed, ClientTyped, ClientState
  <2>2. DOMAIN NoReq = {"job"}
    BY DEF NoReq
  <2> QED BY <1>4, <1>5, <2>1, <2>2
<1>8. jobs \in Seq(Req) /\ k[1] \in Client
  BY DEF Typed, JobsTyped, Keys
<1>9. SameEntries(k) /\ SameWork(k) /\ SameReplies(k)
  BY <1>3, UnchangedSame
<1>10. CASE key(req) # k
  <2>1. SameQueue(k)
    BY <1>3, <1>7, <1>8, <1>10, SentQueue
  <2>2. SameClient(k)
    <3>1. CASE k[1] # c
      BY <1>6, <1>8, <3>1 DEF SameClient
    <3>2. CASE k[1] = c
      <4>1. req.id # k[2]
        BY <1>4, <1>7, <1>10, <3>2, KeyFacts
      <4> QED BY <1>3, <1>5, <3>2, <4>1 DEF SameClient, Current
    <3> QED BY <3>1, <3>2
  <2> QED BY <1>9, <2>1, <2>2, CleanStays
<1>11. CASE key(req) = k
  <2>1. k[1] = c /\ k[2] = req.id /\ req # NoReq
    BY <1>4, <1>7, <1>11, KeyFacts, ReqFacts
  <2>2. Ended(k)
    BY <1>3, <2>1 DEF Clean, Current
  <2>3. Queued(k)' /\ OnlyJob(k, req)'
    BY <1>3, <1>7, <1>8, <1>11, <2>2, SentQueue DEF Ended
  <2>4. ~Handled(k)' /\ ~Replied(k)' /\ NoEntry(k)'
    BY <1>3, <2>2 DEF Ended, Handled, Replied, NoEntry, tables
  <2>5. job \notin ChunkJobs
    BY JobsAssumption DEF ChunkJobs
  <2>6. Unanswered(k, req, n)'
    BY <1>4, <2>4, <2>5 DEF Unanswered, NoEntry, ChunkJobs
  <2>7. Engaged(k, req, n)'
    BY <2>3, <2>4, <2>6 DEF Engaged
  <2>8. Current(k)'
    BY <1>5, <2>1 DEF Current
  <2> QED BY <1>5, <2>1, <2>7, <2>8 DEF Clean
<1> QED BY <1>10, <1>11

\* The conversation goes on, or is over, where the entry is.
LEMMA AnsweredFacts ==
    ASSUME NEW k, NEW req, NEW n, NEW m, Answered(k, req, n, m)
    PROVE  /\ m.status # "Success" => NoEntry(k)
           /\ req.job \notin WriteJobs \cup ReadJobs => NoEntry(k)
           /\ req.job \in WriteJobs => /\ k \notin DOMAIN pending_reads
                                       /\ EntryAt(pending_writes, k, Following(req), n)
           /\ req.job \in ReadJobs => /\ k \notin DOMAIN pending_writes
                                      /\ EntryAt(pending_reads, k, Following(req), Counted(req, n, m))
BY DEF Answered, NoEntry, EntryAt, WriteJobs, ReadJobs

\* At its end there is no entry.
LEMMA EntryAtEnd ==
    ASSUME NEW f, TableTyped(f), NEW k, NEW x, EntryAt(f, k, x, x)
    PROVE  k \notin DOMAIN f
<1>1. SUFFICES ASSUME k \in DOMAIN f PROVE FALSE
  OBVIOUS
<1>2. f[k].next = f[k].count /\ f[k].next < f[k].count
  BY <1>1 DEF EntryAt
<1>3. f[k].count \in Nat
  BY <1>1, PendingFacts, Bounds
<1> QED BY <1>2, <1>3

\* A client leaves its conversation: the others are as clean as before.
LEMMA LeftOthers ==
    ASSUME Typed, NEW c \in Client, NEW k \in Keys, Clean(k), k[1] = c => ~Current(k),
           client'[c].req = NoReq, \A d \in Client : d # c => client'[d] = client[d],
           SameQueue(k), SameReplies(k), UNCHANGED <<work, tables>>
    PROVE  Clean(k)'
<1>1. k[1] \in Client
  BY DEF Keys
<1>2. SameClient(k)
  BY <1>1 DEF SameClient, Current
<1> QED BY <1>2, UnchangedSame, CleanStays

\* A client takes a response and leaves, or goes on.
LEMMA ReceiveCases ==
    ASSUME Typed, Typed', NEW c \in Client, ClientReceive(c), NEW req, req = client[c].req
    PROVE  /\ req \in Req /\ UNCHANGED <<work, tables>>
           /\ \E m \in replies[c] :
                /\ Answers(m, req) /\ replies' = [replies EXCEPT ![c] = replies[c] \ {m}]
                /\ \A d \in Client : d # c => client'[d] = client[d]
                /\ \/ /\ client'[c].req = NoReq /\ jobs' = jobs
                      /\ \/ faults' = faults + 1
                         \/ m.status # "Success"
                         \/ /\ req.job \in WriteJobs \cup ReadJobs
                                 => Following(req) = Counted(req, client[c].n, m)
                   \/ \E r \in Req :
                         /\ req.job \in WriteJobs \cup ReadJobs
                         /\ r.c = c /\ r.id = req.id /\ r.x = Following(req)
                         /\ r.job = IF req.job \in WriteJobs THEN "WRITE_CHUNK" ELSE "READ_CHUNK"
                         /\ jobs' = Append(jobs, r)
                         /\ client'[c].req = r /\ client'[c].n = Counted(req, client[c].n, m)
<1>0. client \in [Client -> ClientState] /\ client' \in [Client -> ClientState]
  BY DEF Typed, ClientTyped
<1>1. req \in Req /\ UNCHANGED <<work, tables>>
  BY ClientFacts DEF ClientReceive, Typed
<1>2. PICK m \in replies[c] :
        /\ Answers(m, req)
        /\ replies' = [replies EXCEPT ![c] = replies[c] \ {m}]
        /\ \/ m.status = "Success" /\ ReceiveSuccess(c, m)
           \/ /\ m.status # "Success"
              /\ client' = [client EXCEPT ![c].req = NoReq]
              /\ jobs' = jobs
  BY DEF ClientReceive
<1>3. PICK n, i : n = Counted(req, client[c].n, m) /\ i = Following(req)
  OBVIOUS
<1>5. CASE m.status # "Success"
  <2>1. client' = [client EXCEPT ![c].req = NoReq] /\ jobs' = jobs
    BY <1>2, <1>5
  <2>2. client'[c].req = NoReq /\ \A d \in Client : d # c => client'[d] = client[d]
    BY <1>0, <2>1 DEF ClientState
  <2> QED BY <1>1, <1>2, <1>5, <2>1, <2>2
<1>6. CASE ReceiveSuccess(c, m)
  <2>1. PICK got, job, next, res :
          /\ got = client[c].got \o m.data
          /\ job = IF req.job \in WriteJobs THEN "WRITE_CHUNK" ELSE "READ_CHUNK"
          /\ next = Request(c, req.id, job, req.p, req.q, i, req.v)
          /\ res = Result(req, m, got)
    OBVIOUS
  <2>2. {"WRITE_FILE", "READ_FILE"} \cup ChunkJobs = WriteJobs \cup ReadJobs
    BY DEF ChunkJobs, WriteJobs, ReadJobs
  <2>3. \/ /\ req.job \in {"WRITE_FILE", "READ_FILE"} \cup ChunkJobs
           /\ jobs' = Append(jobs, next)
           /\ client' = [client EXCEPT ![c].req = next, ![c].got = got, ![c].n = n]
        \/ /\ req.job \in {"WRITE_FILE", "READ_FILE"} \cup ChunkJobs => i = n
           /\ client' = [client EXCEPT ![c].req = NoReq, ![c].result = res]
           /\ jobs' = jobs
        \/ /\ faults' = faults + 1
           /\ client' = [client EXCEPT ![c].req = NoReq]
           /\ jobs' = jobs
    BY <1>3, <1>6, <2>1 DEF ReceiveSuccess, Following, Counted, WriteJobs, Fault
  <2>4. CASE /\ req.job \in {"WRITE_FILE", "READ_FILE"} \cup ChunkJobs
             /\ jobs' = Append(jobs, next)
             /\ client' = [client EXCEPT ![c].req = next, ![c].got = got, ![c].n = n]
    <3>1. client' = [client EXCEPT ![c] = [client[c] EXCEPT !.req = next, !.got = got, !.n = n]]
      BY <2>4
    <3>2. /\ client'[c].req = next /\ client'[c].n = n
          /\ \A d \in Client : d # c => client'[d] = client[d]
      BY <1>0, <3>1 DEF ClientState
    <3>3. /\ next.c = c /\ next.id = req.id /\ next.x = i /\ next.job = job
          /\ DOMAIN next = {"c", "id", "job", "p", "q", "x", "v"}
      BY <2>1 DEF Request
    <3>4. next \in Req
      <4>1. client'[c].req \in Req \cup {NoReq}
        BY <1>0 DEF ClientState
      <4>2. DOMAIN NoReq = {"job"}
        BY DEF NoReq
      <4> QED BY <3>2, <3>3, <4>1, <4>2
    <3> QED BY <1>1, <1>2, <1>3, <2>1, <2>2, <2>4, <3>2, <3>3, <3>4
  <2>5. CASE /\ req.job \in {"WRITE_FILE", "READ_FILE"} \cup ChunkJobs => i = n
             /\ client' = [client EXCEPT ![c].req = NoReq, ![c].result = res]
             /\ jobs' = jobs
    <3>1. client' = [client EXCEPT ![c] = [client[c] EXCEPT !.req = NoReq, !.result = res]]
      BY <2>5
    <3>2. client'[c].req = NoReq /\ \A d \in Client : d # c => client'[d] = client[d]
      BY <1>0, <3>1 DEF ClientState
    <3> QED BY <1>1, <1>2, <1>3, <2>2, <2>5, <3>2
  <2>6. CASE /\ faults' = faults + 1
             /\ client' = [client EXCEPT ![c].req = NoReq]
             /\ jobs' = jobs
    <3>1. client'[c].req = NoReq /\ \A d \in Client : d # c => client'[d] = client[d]
      BY <1>0, <2>6 DEF ClientState
    <3> QED BY <1>1, <1>2, <2>6, <3>1
  <2> QED BY <2>3, <2>4, <2>5, <2>6
<1> QED BY <1>2, <1>5, <1>6

\* What is left of the responses of a client when it takes m.
LEMMA TakenReplies ==
    ASSUME Typed, NEW c \in Client, NEW m \in replies[c],
           replies' = [replies EXCEPT ![c] = replies[c] \ {m}], NEW k \in Keys
    PROVE  k[1] # c \/ k[2] # m.id => SameReplies(k)
<1>1. replies \in [Client -> SUBSET Response] /\ k[1] \in Client
  BY DEF Typed, RepliesTyped, Keys
<1>2. k[1] # c => replies'[k[1]] = replies[k[1]]
  BY <1>1
<1>3. replies'[c] = replies[c] \ {m}
  BY <1>1
<1> QED BY <1>2, <1>3 DEF SameReplies

\* A client takes a response: its conversation goes on or is over, unless a
\* local error makes the client leave it.
LEMMA ReceiveClean ==
    ASSUME Typed, Typed', NEW c \in Client, ClientReceive(c), NEW k \in Keys, Clean(k),
           (k[1] = c => ~Current(k)) \/ faults' = faults
    PROVE  Clean(k)'
<1>0. PICK req, n : req = client[c].req /\ n = client[c].n
  OBVIOUS
<1>1. PICK m \in replies[c] :
        /\ Answers(m, req) /\ replies' = [replies EXCEPT ![c] = replies[c] \ {m}]
        /\ \A d \in Client : d # c => client'[d] = client[d]
        /\ \/ /\ client'[c].req = NoReq /\ jobs' = jobs
              /\ \/ faults' = faults + 1
                 \/ m.status # "Success"
                 \/ /\ req.job \in WriteJobs \cup ReadJobs
                         => Following(req) = Counted(req, n, m)
           \/ \E r \in Req :
                 /\ req.job \in WriteJobs \cup ReadJobs
                 /\ r.c = c /\ r.id = req.id /\ r.x = Following(req)
                 /\ r.job = IF req.job \in WriteJobs THEN "WRITE_CHUNK" ELSE "READ_CHUNK"
                 /\ jobs' = Append(jobs, r)
                 /\ client'[c].req = r /\ client'[c].n = Counted(req, n, m)
  BY <1>0, ReceiveCases
<1>2. req \in Req /\ UNCHANGED <<work, tables>>
  BY <1>0, ReceiveCases
<1>3. m.id = req.id /\ req # NoReq /\ jobs \in Seq(Req) /\ faults \in Nat
  BY <1>1, <1>2, ReqFacts, Bounds DEF Answers, Typed, JobsTyped, MishapsTyped, FaultsTyped
<1>4. CASE k[1] = c => ~Current(k)
  <2>1. k[1] # c \/ k[2] # req.id
    BY <1>0, <1>3, <1>4 DEF Current
  <2>2. SameReplies(k)
    BY <1>1, <1>3, <2>1, TakenReplies
  <2>3. CASE client'[c].req = NoReq /\ jobs' = jobs
    <3>1. SameQueue(k)
      BY <2>3, UnchangedSame
    <3> QED BY <1>1, <1>2, <1>4, <2>2, <2>3, <3>1, LeftOthers
  <2>4. ASSUME NEW r \in Req, r.c = c, r.id = req.id, jobs' = Append(jobs, r), client'[c].req = r
        PROVE  Clean(k)'
    <3>1. key(r) # k
      BY <2>1, <2>4, KeyFacts
    <3>2. SameQueue(k)
      BY <1>3, <2>4, <3>1, SentQueue
    <3>3. SameClient(k)
      <4>1. k[1] \in Client
        BY DEF Keys
      <4>2. CASE k[1] # c
        BY <1>1, <4>1, <4>2 DEF SameClient
      <4>3. CASE k[1] = c
        BY <1>4, <2>1, <2>4, <4>3 DEF SameClient, Current
      <4> QED BY <4>2, <4>3
    <3> QED BY <1>2, <2>2, <3>2, <3>3, UnchangedSame, CleanStays
  <2> QED BY <1>1, <2>3, <2>4
<1>5. CASE k[1] = c /\ Current(k) /\ faults' = faults
  <2>1. k[2] = req.id /\ Engaged(k, req, n)
    BY <1>0, <1>5 DEF Current, Clean
  <2>2. Replied(k)
    BY <1>1, <1>3, <1>5, <2>1 DEF Replied
  <2>3. ~Queued(k) /\ ~Handled(k) /\ OnlyReply(k, req, n)
    BY <2>1, <2>2 DEF Engaged
  <2>4. Answered(k, req, n, m) /\ \A l \in replies[c] : l.id = k[2] => l = m
    BY <1>1, <1>3, <1>5, <2>1, <2>3 DEF OnlyReply
  <2>5. ~Replied(k)'
    <3>1. replies'[k[1]] = replies[c] \ {m}
      <4>1. replies \in [Client -> SUBSET Response]
        BY DEF Typed, RepliesTyped
      <4> QED BY <1>1, <1>5, <4>1
    <3> QED BY <2>4, <3>1 DEF Replied
  <2>6. ~Handled(k)' /\ (NoEntry(k)' <=> NoEntry(k))
    BY <1>2, <2>3 DEF Handled, NoEntry, tables
  <2>7. faults' # faults + 1
    BY <1>3, <1>5
  <2>8. CASE client'[c].req = NoReq /\ jobs' = jobs
    <3>1. NoEntry(k)
      <4>1. CASE m.status # "Success" \/ req.job \notin WriteJobs \cup ReadJobs
        BY <2>4, <4>1, AnsweredFacts
      <4>2. CASE /\ req.job \in WriteJobs \cup ReadJobs
                 /\ Following(req) = Counted(req, n, m)
        <5>1. CASE req.job \in WriteJobs
          <6>1. Counted(req, n, m) = n
            BY <5>1 DEF Counted, WriteJobs
          <6>2. k \notin DOMAIN pending_reads /\ EntryAt(pending_writes, k, n, n)
            BY <2>4, <4>2, <5>1, <6>1, AnsweredFacts
          <6> QED BY <6>2, EntryAtEnd DEF Typed, NoEntry
        <5>2. CASE req.job \in ReadJobs
          <6>1. k \notin DOMAIN pending_writes
                /\ EntryAt(pending_reads, k, Following(req), Following(req))
            BY <2>4, <4>2, <5>2, AnsweredFacts
          <6> QED BY <6>1, EntryAtEnd DEF Typed, NoEntry
        <5> QED BY <4>2, <5>1, <5>2
      <4>3. ~(\E r \in Req : client'[c].req = r)
        BY <2>8, ReqFacts
      <4> QED BY <1>1, <2>7, <4>1, <4>2, <4>3
    <3>2. ~Queued(k)' /\ ~Current(k)'
      BY <1>5, <2>3, <2>8 DEF Queued, Current
    <3> QED BY <2>5, <2>6, <3>1, <3>2 DEF Clean, Ended
  <2>9. ASSUME NEW r \in Req, req.job \in WriteJobs \cup ReadJobs, r.c = c, r.id = req.id,
               r.x = Following(req), jobs' = Append(jobs, r), client'[c].req = r,
               r.job = (IF req.job \in WriteJobs THEN "WRITE_CHUNK" ELSE "READ_CHUNK"),
               client'[c].n = Counted(req, n, m)
        PROVE  Clean(k)'
    <3>0. PICK x : x = Counted(req, n, m)
      OBVIOUS
    <3>1. key(r) = k
      BY <1>5, <2>1, <2>9, KeyFacts
    <3>2. Queued(k)' /\ OnlyJob(k, r)'
      BY <1>3, <2>3, <2>9, <3>1, SentQueue
    <3>3. Unanswered(k, r, x)
      <4>1. CASE req.job \in WriteJobs
        <5>1. Counted(req, n, m) = n
          BY <4>1 DEF Counted, WriteJobs
        <5>2. k \notin DOMAIN pending_reads /\ EntryAt(pending_writes, k, r.x, x)
          BY <2>4, <2>9, <3>0, <4>1, <5>1, AnsweredFacts
        <5>3. r.job = "WRITE_CHUNK"
          BY <2>9, <4>1
        <5> QED BY <5>2, <5>3 DEF Unanswered
      <4>2. CASE req.job \notin WriteJobs /\ req.job \in ReadJobs
        <5>1. k \notin DOMAIN pending_writes /\ EntryAt(pending_reads, k, r.x, x)
          BY <2>4, <2>9, <3>0, <4>2, AnsweredFacts
        <5>2. r.job = "READ_CHUNK"
          BY <2>9, <4>2
        <5> QED BY <5>1, <5>2 DEF Unanswered
      <4> QED BY <2>9, <4>1, <4>2
    <3>4. Unanswered(k, r, x)'
      BY <1>2, <3>3, SameEntryFacts, UnchangedSame
    <3>5. Engaged(k, r, x)'
      BY <2>5, <2>6, <3>2, <3>4 DEF Engaged
    <3>6. Current(k)'
      BY <1>5, <2>1, <2>9, ReqFacts DEF Current
    <3> QED BY <1>5, <2>9, <3>0, <3>5, <3>6 DEF Clean
  <2> QED BY <1>1, <2>8, <2>9
<1> QED BY <1>4, <1>5

\* A client stops waiting: nothing is left of the conversation unless it was
\* too early.
LEMMA TimeoutClean ==
    ASSUME Typed, NEW c \in Client, ClientTimeout(c), NEW k \in Keys, Clean(k),
           (k[1] = c => ~Current(k)) \/ timeouts' = timeouts
    PROVE  Clean(k)'
<1>0. PICK req, n : req = client[c].req /\ n = client[c].n
  OBVIOUS
<1>1. /\ req # NoReq /\ client' = [client EXCEPT ![c].req = NoReq]
      /\ UNCHANGED <<replies, jobs, work, tables>>
      /\ IF \/ \E i \in 1..Len(jobs) : jobs[i] = req
            \/ work # Idle /\ work.req = req
            \/ \E m \in replies[c] : Answers(m, req)
         THEN timeouts' = timeouts + 1 ELSE timeouts' = timeouts
  BY <1>0 DEF ClientTimeout, Early
<1>2. client'[c].req = NoReq /\ \A d \in Client : d # c => client'[d] = client[d]
  <2>1. client \in [Client -> ClientState]
    BY DEF Typed, ClientTyped
  <2> QED BY <1>1, <2>1 DEF ClientState
<1>3. SameQueue(k) /\ SameReplies(k)
  BY <1>1, UnchangedSame
<1>4. CASE k[1] = c => ~Current(k)
  BY <1>1, <1>2, <1>3, <1>4, LeftOthers
<1>5. CASE k[1] = c /\ Current(k) /\ timeouts' = timeouts
  <2>1. timeouts' # timeouts + 1
    BY <1>5, Bounds DEF Typed, MishapsTyped
  <2>2. /\ ~\E i \in 1..Len(jobs) : jobs[i] = req
        /\ ~(work # Idle /\ work.req = req)
        /\ ~\E m \in replies[c] : Answers(m, req)
    BY <1>1, <2>1
  <2>3. Engaged(k, req, n)
    BY <1>0, <1>5 DEF Clean
  <2>4. ~Queued(k)
    BY <2>2, <2>3 DEF Engaged, Queued, OnlyJob
  <2>5. ~Handled(k)
    BY <2>2, <2>3 DEF Engaged, Handled
  <2>6. ~Replied(k)
    BY <1>5, <2>2, <2>3 DEF Engaged, OnlyReply
  <2>7. Ended(k)
    BY <2>3, <2>4, <2>5, <2>6 DEF Engaged, Ended
  <2>8. Ended(k)' /\ ~Current(k)'
    BY <1>1, <1>2, <1>5, <2>7 DEF Ended, Queued, Handled, Replied, NoEntry, tables, Current
  <2> QED BY <2>8 DEF Clean
<1> QED BY <1>4, <1>5

\* A client starts again: the conversations it was not in are as clean as before.
LEMMA ClientRestartClean ==
    ASSUME Typed, NEW c \in Client, ClientRestart(c), NEW k \in Keys, Clean(k), k[1] = c => ~Current(k)
    PROVE  Clean(k)'
<1>1. /\ client' = [client EXCEPT ![c] = [client[c] EXCEPT !.id = 0, !.req = NoReq, !.result = None]]
      /\ UNCHANGED <<jobs, work, tables>>
      /\ replies' \in {replies, [replies EXCEPT ![c] = {}]}
  BY DEF ClientRestart
<1>2. client'[c].req = NoReq /\ \A d \in Client : d # c => client'[d] = client[d]
  <2>1. client \in [Client -> ClientState]
    BY DEF Typed, ClientTyped
  <2> QED BY <1>1, <2>1 DEF ClientState
<1>3. SameReplies(k)
  <2>1. CASE replies' = replies
    BY <2>1, UnchangedSame
  <2>2. CASE replies' = [replies EXCEPT ![c] = {}]
    <3>1. replies \in [Client -> SUBSET Response] /\ k[1] \in Client
      BY DEF Typed, RepliesTyped, Keys
    <3>2. CASE k[1] # c
      BY <2>2, <3>1, <3>2 DEF SameReplies
    <3>3. CASE k[1] = c
      <4>1. ~Replied(k)
        BY <3>3 DEF Clean, Ended
      <4>2. replies'[k[1]] = {}
        BY <2>2, <3>1, <3>3
      <4> QED BY <4>1, <4>2 DEF SameReplies, Replied
    <3> QED BY <3>2, <3>3
  <2> QED BY <1>1, <2>1, <2>2
<1>4. SameQueue(k)
  BY <1>1, UnchangedSame
<1> QED BY <1>1, <1>2, <1>3, <1>4, LeftOthers

\* The metadata node starts again, with no entries.
LEMMA MetadataRestartClean ==
    ASSUME Typed, Typed', MetadataRestart, NEW k \in Keys, Clean(k)
    PROVE  Clean(k)'
<1>1. /\ work' = Idle /\ pending_writes' = << >> /\ pending_reads' = << >>
      /\ UNCHANGED <<client, replies>> /\ \E h \in 0..Len(jobs) : jobs' = SubSeq(jobs, h + 1, Len(jobs))
  BY DEF MetadataRestart, clientVars
<1>2. jobs \in Seq(Req) /\ jobs' \in Seq(Req)
  BY DEF Typed, JobsTyped
<1>3. Behind(jobs', jobs)
  BY <1>1, <1>2, BehindFacts
<1>4. PICK h \in Nat : \A i \in 1..Len(jobs') : i + h \in 1..Len(jobs) /\ jobs'[i] = jobs[i + h]
  BY <1>2, <1>3, BehindMember
<1>5. Queued(k)' => Queued(k)
  BY <1>4 DEF Queued, key
<1>6. ASSUME NEW r, OnlyJob(k, r) PROVE OnlyJob(k, r)'
  <2>1. ASSUME NEW i \in 1..Len(jobs'), key(jobs'[i]) = k, NEW j \in 1..Len(jobs'), key(jobs'[j]) = k
        PROVE  jobs'[i] = r /\ i = j
    <3>1. jobs[i + h] = r /\ i + h = j + h
      BY <1>4, <1>6, <2>1 DEF OnlyJob
    <3>2. i \in Int /\ j \in Int
      BY <2>1
    <3> QED BY <1>4, <3>1, <3>2
  <2> QED BY <2>1 DEF OnlyJob, key
<1>7. ~Handled(k)' /\ NoEntry(k)' /\ (Replied(k)' <=> Replied(k)) /\ (Current(k)' <=> Current(k))
  <2>1. DOMAIN pending_writes' = {} /\ DOMAIN pending_reads' = {}
    BY <1>1
  <2> QED BY <1>1, <2>1 DEF Handled, NoEntry, Replied, Current
<1>8. PICK req, n : req = client[k[1]].req /\ n = client[k[1]].n
  OBVIOUS
<1>9. CASE Current(k)
  <2>1. Engaged(k, req, n)
    BY <1>8, <1>9 DEF Clean
  <2>2. Unanswered(k, req, n) => Unanswered(k, req, n)'
    BY <1>7 DEF Unanswered, NoEntry, EntryAt
  <2>3. OnlyReply(k, req, n) => OnlyReply(k, req, n)'
    BY <1>1, <1>7 DEF OnlyReply, Answered
  <2>4. Engaged(k, req, n)'
    BY <1>5, <1>6, <1>7, <2>1, <2>2, <2>3 DEF Engaged
  <2> QED BY <1>1, <1>7, <1>8, <1>9, <2>4 DEF Clean
<1>10. CASE ~Current(k)
  BY <1>5, <1>7, <1>10 DEF Clean, Ended
<1> QED BY <1>9, <1>10

-----------------------------------------------------------------------------
(* Pending conversations: the worker *)

\* The worker is at request req, taken from the queue or waited for.
Serving(req) ==
    \/ work = Idle /\ jobs # << >> /\ req = Head(jobs) /\ jobs' = Tail(jobs)
    \/ work # Idle /\ req = work.req /\ jobs' = jobs

\* Nothing else is under way in its conversation, if that is clean.
LEMMA ServingFacts ==
    ASSUME Typed, NEW req, Serving(req)
    PROVE  /\ req \in Req
           /\ \A k \in Keys : k # key(req) => SameQueue(k) /\ ~Handled(k)
           /\ Clean(key(req)) =>
                \E n : /\ Current(key(req)) /\ client[req.c].req = req /\ client[req.c].n = n
                       /\ ~Queued(key(req))' /\ ~Replied(key(req)) /\ Unanswered(key(req), req, n)
<1>1. jobs \in Seq(Req)
  BY DEF Typed, JobsTyped
<1>2. req \in Req
  <2>1. CASE work # Idle
    BY <2>1, WorkFacts DEF Typed, Serving
  <2>2. CASE work = Idle
    BY <1>1, <2>2, HeadTailProperties DEF Serving
  <2> QED BY <2>1, <2>2
<1>3. ASSUME NEW k \in Keys, k # key(req) PROVE SameQueue(k) /\ ~Handled(k)
  <2>1. CASE work # Idle
    BY <1>3, <2>1, UnchangedSame DEF Serving, Handled
  <2>2. CASE work = Idle
    BY <1>1, <1>3, <2>2, TakenQueue DEF Serving, Handled
  <2> QED BY <2>1, <2>2
<1>4. ASSUME NEW k, k = key(req), Clean(k)
      PROVE  \E n : /\ Current(k) /\ client[req.c].req = req /\ client[req.c].n = n
                    /\ ~Queued(k)' /\ ~Replied(k) /\ Unanswered(k, req, n)
  <2>1. Queued(k) \/ Handled(k)
    <3>1. CASE work # Idle
      BY <1>4, <3>1 DEF Serving, Handled
    <3>2. CASE work = Idle
      BY <1>1, <1>4, <3>2, TakenQueue DEF Serving
    <3> QED BY <3>1, <3>2
  <2>2. PICK r, n : r = client[k[1]].req /\ n = client[k[1]].n
    OBVIOUS
  <2>3. Current(k) /\ Engaged(k, r, n)
    BY <1>4, <2>1, <2>2 DEF Clean, Ended
  <2>4. k[1] = req.c
    BY <1>2, <1>4, KeyFacts
  <2>5. Unanswered(k, r, n) /\ ~Replied(k)
    BY <2>1, <2>3 DEF Engaged
  <2>6. r = req /\ ~Queued(k)'
    <3>1. CASE work # Idle
      <4>1. Handled(k) /\ jobs' = jobs
        BY <1>4, <3>1 DEF Serving, Handled
      <4>2. ~Queued(k) /\ r = req
        BY <2>3, <3>1, <4>1 DEF Engaged, Serving
      <4> QED BY <4>1, <4>2 DEF Queued
    <3>2. CASE work = Idle
      <4>1. Queued(k)
        BY <2>1, <3>2 DEF Handled
      <4>2. OnlyJob(k, r)
        BY <2>3, <4>1 DEF Engaged
      <4>3. jobs # << >> /\ jobs' = Tail(jobs) /\ req = Head(jobs)
        BY <3>2 DEF Serving
      <4> QED BY <1>1, <1>4, <4>2, <4>3, TakenQueue
    <3> QED BY <3>1, <3>2
  <2> QED BY <2>2, <2>3, <2>4, <2>5, <2>6
<1>5. key(req) \in Keys
  BY <1>2, KeyFacts
<1>6. PICK k : k = key(req)
  OBVIOUS
<1> QED BY <1>2, <1>3, <1>4

\* The worker waits.
LEMMA WaitClean ==
    ASSUME Typed, NEW req, Serving(req), work' # Idle, work'.req = req,
           UNCHANGED <<client, replies, tables>>, NEW k \in Keys, Clean(k)
    PROVE  Clean(k)'
<1>1. SameEntries(k) /\ SameReplies(k) /\ SameClient(k)
  BY UnchangedSame
<1>2. PICK k0 : k0 = key(req)
  OBVIOUS
<1>3. CASE k # k0
  <2>1. SameQueue(k) /\ ~Handled(k)
    BY <1>2, <1>3, ServingFacts
  <2>2. ~Handled(k)'
    BY <1>2, <1>3 DEF Handled, key
  <2> QED BY <1>1, <2>1, <2>2, CleanStays DEF SameWork
<1>4. CASE k = k0
  <2>1. PICK n : /\ Current(k) /\ client[req.c].req = req /\ client[req.c].n = n
                 /\ ~Queued(k)' /\ ~Replied(k) /\ Unanswered(k, req, n)
    BY <1>2, <1>4, ServingFacts
  <2>2. k[1] = req.c
    BY <1>2, <1>4, KeyFacts, ServingFacts
  <2>3. Handled(k)'
    BY <1>2, <1>4 DEF Handled, key
  <2>4. ~Replied(k)' /\ Current(k)'
    BY <2>1 DEF Replied, Current
  <2>5. Unanswered(k, req, n)'
    BY <1>1, <2>1, SameEntryFacts
  <2>6. Engaged(k, req, n)'
    BY <2>1, <2>3, <2>4, <2>5 DEF Engaged
  <2> QED BY <2>1, <2>2, <2>4, <2>6 DEF Clean
<1> QED BY <1>3, <1>4

\* m is a response to req.
ResponseTo(m, req) ==
    m.id = req.id /\ m.job = req.job /\ m.x = IF req.job \in ChunkJobs THEN req.x ELSE 0

\* The worker answers.
LEMMA AnswerClean ==
    ASSUME Typed, NEW req, Serving(req), work' = Idle, client' = client,
           NEW m, ResponseTo(m, req), replies' = [replies EXCEPT ![req.c] = replies[req.c] \cup {m}],
           NEW k0, k0 = key(req), \A x \in Keys : x # k0 => SameEntries(x),
           \A n : Unanswered(k0, req, n) => Answered(k0, req, n, m)',
           NEW k \in Keys, Clean(k)
    PROVE  Clean(k)'
<1>1. req \in Req /\ k0[1] = req.c /\ k0[2] = req.id /\ k[1] \in Client /\ req.c \in Client
  BY KeyFacts, ServingFacts, ReqFacts DEF Keys
<1>2. replies \in [Client -> SUBSET Response]
  BY DEF Typed, RepliesTyped
<1>3. CASE k # k0
  <2>1. SameQueue(k) /\ ~Handled(k)
    BY <1>3, ServingFacts
  <2>2. ~Handled(k)'
    BY DEF Handled
  <2>3. SameReplies(k)
    <3>1. CASE k[1] # req.c
      <4>1. replies'[k[1]] = replies[k[1]]
        BY <1>1, <1>2, <3>1
      <4> QED BY <4>1 DEF SameReplies
    <3>2. CASE k[1] = req.c
      <4>1. k[2] # m.id
        BY <1>1, <1>3, <3>2, KeyFacts DEF ResponseTo
      <4>2. replies'[k[1]] = replies[k[1]] \cup {m}
        BY <1>1, <1>2, <3>2
      <4> QED BY <4>1, <4>2 DEF SameReplies
    <3> QED BY <3>1, <3>2
  <2>4. SameClient(k) /\ SameEntries(k)
    BY <1>3, UnchangedSame
  <2> QED BY <2>1, <2>2, <2>3, <2>4, CleanStays DEF SameWork
<1>4. CASE k = k0
  <2>1. PICK n : /\ Current(k) /\ client[req.c].req = req /\ client[req.c].n = n
                 /\ ~Queued(k)' /\ ~Replied(k) /\ Unanswered(k, req, n)
    BY <1>4, ServingFacts
  <2>2. replies'[k[1]] = replies[k[1]] \cup {m}
    BY <1>1, <1>2, <1>4
  <2>3. m.id = k[2] /\ Answers(m, req)
    BY <1>1, <1>4 DEF ResponseTo, Answers
  <2>4. \A l \in replies'[k[1]] : l.id = k[2] => l = m
    BY <2>1, <2>2 DEF Replied
  <2>5. Answered(k, req, n, m)'
    BY <1>4, <2>1
  <2>6. OnlyReply(k, req, n)' /\ Replied(k)'
    BY <2>2, <2>3, <2>4, <2>5 DEF OnlyReply, Replied
  <2>7. ~Handled(k)' /\ Current(k)'
    BY <2>1 DEF Handled, Current
  <2>8. Engaged(k, req, n)'
    BY <2>1, <2>6, <2>7 DEF Engaged
  <2> QED BY <1>1, <1>4, <2>1, <2>7, <2>8 DEF Clean
<1> QED BY <1>3, <1>4

\* What Send, Reply and respond put on the way.
LEMMA SentResponse ==
    ASSUME NEW req, NEW status, NEW type, NEW n, NEW data, Send(req, status, type, n, data)
    PROVE  \E m : /\ ResponseTo(m, req) /\ m.status = status
                  /\ m.type = type /\ m.n = n /\ m.data = data
                  /\ replies' = [replies EXCEPT ![req.c] = replies[req.c] \cup {m}]
<1>1. PICK m : m = [id |-> req.id, job |-> req.job, status |-> status,
                    x |-> IF req.job \in ChunkJobs THEN req.x ELSE 0, type |-> type,
                    n |-> n, data |-> data]
  OBVIOUS
<1>2. ResponseTo(m, req) /\ m.status = status /\ m.type = type /\ m.n = n /\ m.data = data
  BY <1>1 DEF ResponseTo
<1>3. replies' = [replies EXCEPT ![req.c] = replies[req.c] \cup {m}]
  BY <1>1 DEF Send
<1> QED BY <1>2, <1>3

\* The worker answers req with something.
Replying(req) == \E status, type, n, data : Send(req, status, type, n, data)

\* Whether or not the store was changed.
LEMMA ReplyingCases ==
    ASSUME NEW req
    PROVE  /\ \A status, n, data : Reply(req, status, n, data) => Replying(req)
           /\ \A status : respond(req, status) \/ Refuse(req, status) => Replying(req)
           /\ \A files, directories : StoreChange(req, files, directories) => Replying(req)
<1>1. ASSUME NEW status, NEW n, NEW data, Reply(req, status, n, data) PROVE Replying(req)
  BY <1>1 DEF Reply, Replying
<1>2. ASSUME NEW status, respond(req, status) \/ Refuse(req, status) PROVE Replying(req)
  BY <1>1, <1>2 DEF respond, Refuse
<1>3. ASSUME NEW files, NEW directories, StoreChange(req, files, directories) PROVE Replying(req)
  BY <1>2, <1>3 DEF StoreChange
<1> QED BY <1>1, <1>2, <1>3

\* A request that is not about a chunk is answered and nothing entered.
LEMMA PlainClean ==
    ASSUME Typed, NEW req, Serving(req), req.job \notin ChunkJobs, work' = Idle,
           UNCHANGED <<client, tables>>,
           Replying(req), NEW k \in Keys, Clean(k)
    PROVE  Clean(k)'
<1>1. PICK m : ResponseTo(m, req) /\ replies' = [replies EXCEPT ![req.c] = replies[req.c] \cup {m}]
  BY SentResponse DEF Replying
<1>2. PICK k0 : k0 = key(req)
  OBVIOUS
<1>3. ASSUME NEW n, Unanswered(k0, req, n) PROVE Answered(k0, req, n, m)'
  <2>1. NoEntry(k0)
    BY <1>3 DEF Unanswered, NoEntry, ChunkJobs
  <2>2. NoEntry(k0)'
    BY <2>1 DEF NoEntry, tables
  <2> QED BY <2>2 DEF Answered
<1> QED BY <1>1, <1>2, <1>3, UnchangedSame, AnswerClean

\* Requests about names.
LEMMA NamesClean ==
    ASSUME Typed, NEW k \in Keys, Clean(k),
           HandleCreateFile \/ HandleRename \/ HandleMakeDir \/ HandleList \/ HandleStat
    PROVE  Clean(k)'
<1>1. PICK req : req = Head(jobs)
  OBVIOUS
<1>2. /\ work' = Idle /\ UNCHANGED <<client, tables>> /\ Serving(req) /\ req.job \notin ChunkJobs
  BY <1>1 DEF HandleCreateFile, HandleRename, HandleMakeDir, HandleList, HandleStat, Taking, Serving,
              ChunkJobs
<1>3. Replying(req)
  <2>1. CASE HandleCreateFile \/ HandleRename \/ HandleMakeDir
    BY <1>1, <2>1, ReplyingCases DEF HandleCreateFile, HandleRename, HandleMakeDir
  <2>2. CASE HandleList \/ HandleStat
    BY <1>1, <2>2, ReplyingCases DEF HandleList, HandleStat, Replying
  <2> QED BY <2>1, <2>2
<1> QED BY <1>2, <1>3, PlainClean

\* The other entries stay when one is erased.
LEMMA DroppedEntry ==
    ASSUME NEW f, NEW k, NEW x, x # k
    PROVE  SameEntry(f, Drop(f, k), x)
BY DEF SameEntry, Drop

\* A conversation about chunks ends with an answer, and its entry is erased.
LEMMA ErasedClean ==
    ASSUME Typed, NEW req, Serving(req), work' = Idle, client' = client, Replying(req),
           \/ /\ req.job = "WRITE_CHUNK" /\ pending_reads' = pending_reads
              /\ pending_writes' = Drop(pending_writes, key(req))
           \/ /\ req.job = "READ_CHUNK" /\ pending_writes' = pending_writes
              /\ pending_reads' = Drop(pending_reads, key(req)),
           NEW k \in Keys, Clean(k)
    PROVE  Clean(k)'
<1>1. PICK m : ResponseTo(m, req) /\ replies' = [replies EXCEPT ![req.c] = replies[req.c] \cup {m}]
  BY SentResponse DEF Replying
<1>2. PICK k0 : k0 = key(req)
  OBVIOUS
<1>3. ASSUME NEW x \in Keys, x # k0 PROVE SameEntries(x)
  <2>1. SameEntry(pending_writes, pending_writes, x) /\ SameEntry(pending_reads, pending_reads, x)
    BY DEF SameEntry
  <2> QED BY <1>2, <1>3, <2>1, DroppedEntry DEF SameEntries
<1>4. ASSUME NEW n, Unanswered(k0, req, n) PROVE Answered(k0, req, n, m)'
  <2>1. CASE /\ req.job = "WRITE_CHUNK" /\ pending_reads' = pending_reads
             /\ pending_writes' = Drop(pending_writes, k0)
    <3>1. k0 \notin DOMAIN pending_reads' /\ k0 \notin DOMAIN pending_writes'
      BY <1>4, <2>1 DEF Unanswered, Drop
    <3> QED BY <3>1 DEF Answered, NoEntry
  <2>2. CASE /\ req.job = "READ_CHUNK" /\ pending_writes' = pending_writes
             /\ pending_reads' = Drop(pending_reads, k0)
    <3>1. k0 \notin DOMAIN pending_reads' /\ k0 \notin DOMAIN pending_writes'
      BY <1>4, <2>2 DEF Unanswered, Drop
    <3> QED BY <3>1 DEF Answered, NoEntry
  <2> QED BY <1>2, <2>1, <2>2
<1> QED BY <1>1, <1>2, <1>3, <1>4, AnswerClean

\* A write or a read is entered at its start, and its size is in the request
\* or in the response.
LEMMA EnteredClean ==
    ASSUME Typed, NEW req, Serving(req), work' = Idle, client' = client, NEW w, w.next = 0,
           w.count \in Nat \ {0}, NEW num, NEW data, Reply(req, "Success", num, data),
           \/ /\ req.job = "WRITE_FILE" /\ pending_reads' = pending_reads
              /\ pending_writes' = Set(pending_writes, key(req), w) /\ w.count = req.x
           \/ /\ req.job = "READ_FILE" /\ pending_writes' = pending_writes
              /\ pending_reads' = Set(pending_reads, key(req), w) /\ w.count = num,
           NEW k \in Keys, Clean(k)
    PROVE  Clean(k)'
<1>1. PICK m : /\ ResponseTo(m, req) /\ m.status = "Success" /\ m.n = num
               /\ replies' = [replies EXCEPT ![req.c] = replies[req.c] \cup {m}]
  BY SentResponse DEF Reply
<1>2. PICK k0 : k0 = key(req)
  OBVIOUS
<1>3. ASSUME NEW x \in Keys, x # k0 PROVE SameEntries(x)
  <2>1. SameEntry(pending_writes, pending_writes, x) /\ SameEntry(pending_reads, pending_reads, x)
    BY DEF SameEntry
  <2>2. /\ SameEntry(pending_writes, Set(pending_writes, k0, w), x)
        /\ SameEntry(pending_reads, Set(pending_reads, k0, w), x)
    BY <1>3 DEF SameEntry, Set
  <2> QED BY <1>2, <2>1, <2>2 DEF SameEntries
<1>4. 0 < w.count
  OBVIOUS
<1>5. ASSUME NEW n, Unanswered(k0, req, n) PROVE Answered(k0, req, n, m)'
  <2>1. k0 \notin DOMAIN pending_writes /\ k0 \notin DOMAIN pending_reads /\ Following(req) = 0
    BY <1>5 DEF Unanswered, Following, ChunkJobs
  <2>2. CASE /\ req.job = "WRITE_FILE" /\ pending_reads' = pending_reads
             /\ pending_writes' = Set(pending_writes, k0, w) /\ w.count = req.x
    <3>1. k0 \notin DOMAIN pending_reads' /\ pending_writes'[k0] = w /\ req.x = n
      BY <1>5, <2>1, <2>2 DEF Unanswered, Set
    <3>2. EntryAt(pending_writes', k0, Following(req), n)
      BY <1>4, <2>1, <2>2, <3>1 DEF EntryAt
    <3> QED BY <1>1, <2>2, <3>1, <3>2 DEF Answered, WriteJobs
  <2>3. CASE /\ req.job = "READ_FILE" /\ pending_writes' = pending_writes
             /\ pending_reads' = Set(pending_reads, k0, w) /\ w.count = num
    <3>1. k0 \notin DOMAIN pending_writes' /\ pending_reads'[k0] = w
      BY <2>1, <2>3 DEF Set
    <3>2. EntryAt(pending_reads', k0, Following(req), Counted(req, n, m))
      BY <1>1, <1>4, <2>1, <2>3, <3>1 DEF EntryAt, Counted
    <3> QED BY <1>1, <2>3, <3>1, <3>2 DEF Answered, ReadJobs
  <2> QED BY <1>2, <2>2, <2>3
<1> QED BY <1>1, <1>2, <1>3, <1>5, AnswerClean

\* A conversation about chunks goes on to the next one.
LEMMA AdvancedClean ==
    ASSUME Typed, NEW req, Serving(req), work' = Idle, client' = client, NEW f, TableTyped(f),
           key(req) \in DOMAIN f, f[key(req)].next + 1 # f[key(req)].count,
           NEW num, NEW data, Reply(req, "Success", num, data), NEW g,
           g = [f EXCEPT ![key(req)].next = @ + 1],
           \/ /\ req.job = "WRITE_CHUNK" /\ pending_reads' = pending_reads
              /\ pending_writes = f /\ pending_writes' = g
           \/ /\ req.job = "READ_CHUNK" /\ pending_writes' = pending_writes
              /\ pending_reads = f /\ pending_reads' = g,
           NEW k \in Keys, Clean(k)
    PROVE  Clean(k)'
<1>1. PICK m : /\ ResponseTo(m, req) /\ m.status = "Success"
               /\ replies' = [replies EXCEPT ![req.c] = replies[req.c] \cup {m}]
  BY SentResponse DEF Reply
<1>2. PICK k0 : k0 = key(req)
  OBVIOUS
<1>3. PICK v : v = [f[k0] EXCEPT !.next = @ + 1]
  OBVIOUS
<1>4. g = [f EXCEPT ![k0] = v]
  BY <1>2, <1>3
<1>5. /\ v.next = f[k0].next + 1 /\ v.count = f[k0].count
      /\ f[k0].next \in Nat /\ f[k0].count \in Nat
  <2>1. f[k0] \in Pending
    BY <1>2, PendingFacts
  <2> QED BY <1>3, <2>1, Bounds DEF Pending
<1>6. ASSUME NEW x \in Keys, x # k0 PROVE SameEntries(x)
  <2>1. SameEntry(pending_writes, pending_writes, x) /\ SameEntry(pending_reads, pending_reads, x)
    BY DEF SameEntry
  <2>2. SameEntry(f, g, x)
    BY <1>4, <1>6 DEF SameEntry
  <2> QED BY <2>1, <2>2 DEF SameEntries
<1>7. ASSUME NEW n, EntryAt(f, k0, req.x, n), req.job \in ChunkJobs PROVE EntryAt(g, k0, Following(req), n)
  <2>1. f[k0].next = req.x /\ f[k0].count = n /\ f[k0].next < f[k0].count
    BY <1>2, <1>7 DEF EntryAt
  <2>2. g[k0] = v /\ Following(req) = req.x + 1
    BY <1>2, <1>4, <1>7 DEF Following
  <2>3. v.next = req.x + 1 /\ v.count = n /\ v.next < v.count
    BY <1>2, <1>5, <2>1
  <2> QED BY <2>2, <2>3 DEF EntryAt
<1>8. ASSUME NEW n, Unanswered(k0, req, n) PROVE Answered(k0, req, n, m)'
  <2>1. CASE /\ req.job = "WRITE_CHUNK" /\ pending_reads' = pending_reads
             /\ pending_writes = f /\ pending_writes' = g
    <3>1. k0 \notin DOMAIN pending_reads /\ EntryAt(f, k0, req.x, n)
      BY <1>8, <2>1 DEF Unanswered
    <3>2. EntryAt(g, k0, Following(req), n)
      BY <1>7, <2>1, <3>1 DEF ChunkJobs
    <3> QED BY <1>1, <2>1, <3>1, <3>2 DEF Answered, WriteJobs
  <2>2. CASE /\ req.job = "READ_CHUNK" /\ pending_writes' = pending_writes
             /\ pending_reads = f /\ pending_reads' = g
    <3>1. k0 \notin DOMAIN pending_writes /\ EntryAt(f, k0, req.x, n)
      BY <1>8, <2>2 DEF Unanswered
    <3>2. EntryAt(g, k0, Following(req), n) /\ Counted(req, n, m) = n
      BY <1>7, <2>2, <3>1 DEF ChunkJobs, Counted
    <3> QED BY <1>1, <2>2, <3>1, <3>2 DEF Answered, ReadJobs
  <2> QED BY <2>1, <2>2
<1> QED BY <1>1, <1>2, <1>6, <1>8, AnswerClean

\* WRITE_FILE
LEMMA WriteFileClean ==
    ASSUME Typed, NEW k \in Keys, Clean(k), HandleWriteFile
    PROVE  Clean(k)'
<1>1. PICK req : req = Head(jobs)
  OBVIOUS
<1>2. /\ work' = Idle /\ UNCHANGED <<client, pending_reads>> /\ Serving(req) /\ req.job = "WRITE_FILE"
  BY <1>1 DEF HandleWriteFile, Taking, Serving
<1>3. req \in Req /\ req.x \in Nat
  BY <1>2, ServingFacts, ReqFacts, Bounds
<1>4. CASE pending_writes' = pending_writes /\ Replying(req)
  BY <1>2, <1>4, PlainClean DEF tables, ChunkJobs
<1>5. ASSUME NEW m, req.x # 0, EnterWrite(req, m) PROVE Clean(k)'
  <2>1. CASE key(req) \in DOMAIN pending_writes
    <3>1. pending_writes' = pending_writes /\ respond(req, "ServerError")
      BY <1>5, <2>1 DEF EnterWrite
    <3> QED BY <1>4, <3>1, ReplyingCases
  <2>2. CASE key(req) \notin DOMAIN pending_writes
    <3>1. PICK w : w = [path |-> req.p, obj |-> m.obj, count |-> req.x, next |-> 0,
                        replicas |-> m.replicas]
      OBVIOUS
    <3>2. /\ pending_writes' = Set(pending_writes, key(req), w)
          /\ Reply(req, "Success", 0, << >>)
      BY <1>5, <2>2, <3>1 DEF EnterWrite, respond
    <3>3. w.next = 0 /\ w.count = req.x /\ w.count \in Nat \ {0}
      BY <1>3, <1>5, <3>1
    <3> QED BY <1>2, <3>2, <3>3, EnteredClean
  <2> QED BY <2>1, <2>2
<1>6. \/ pending_writes' = pending_writes /\ Replying(req)
      \/ req.x # 0 /\ \E m : EnterWrite(req, m)
  BY <1>1, ReplyingCases DEF HandleWriteFile
<1> QED BY <1>4, <1>5, <1>6

\* READ_FILE
LEMMA ReadFileClean ==
    ASSUME Typed, NEW k \in Keys, Clean(k), HandleReadFile
    PROVE  Clean(k)'
<1>1. PICK req : req = Head(jobs)
  OBVIOUS
<1>2. /\ work' = Idle /\ UNCHANGED <<client, pending_writes>> /\ Serving(req) /\ req.job = "READ_FILE"
  BY <1>1 DEF HandleReadFile, Taking, Serving
<1>3. PICK m, w :
        /\ m = meta[req.p]
        /\ w = [path |-> req.p, obj |-> m.obj, count |-> m.size, next |-> 0, replicas |-> m.replicas]
  OBVIOUS
<1>4. \/ pending_reads' = pending_reads /\ Replying(req)
      \/ /\ req.p \in DOMAIN meta /\ m.size # 0
         /\ pending_reads' = Set(pending_reads, key(req), w) /\ Reply(req, "Success", m.size, << >>)
  BY <1>1, <1>3, ReplyingCases DEF HandleReadFile
<1>5. CASE pending_reads' = pending_reads /\ Replying(req)
  BY <1>2, <1>5, PlainClean DEF tables, ChunkJobs
<1>6. CASE /\ req.p \in DOMAIN meta /\ m.size # 0
           /\ pending_reads' = Set(pending_reads, key(req), w) /\ Reply(req, "Success", m.size, << >>)
  <2>1. m.size \in Nat
    BY <1>3, <1>6, MetaFacts, Bounds DEF Typed
  <2>2. w.next = 0 /\ w.count = m.size /\ w.count \in Nat \ {0}
    BY <1>3, <1>6, <2>1
  <2> QED BY <1>2, <1>6, <2>2, EnteredClean
<1> QED BY <1>4, <1>5, <1>6

\* WRITE_CHUNK
LEMMA WriteChunkClean ==
    ASSUME Typed, NEW k \in Keys, Clean(k), HandleWriteChunk
    PROVE  Clean(k)'
<1>1. PICK req, left : req = Head(jobs) /\ left = pending_writes[key(req)].replicas
  OBVIOUS
<1>2. /\ work = Idle /\ UNCHANGED <<client, pending_reads>> /\ Serving(req) /\ req.job = "WRITE_CHUNK"
  BY <1>1 DEF HandleWriteChunk, Taking, Serving
<1>3. \/ /\ pending_writes' = Drop(pending_writes, key(req)) /\ Replying(req) /\ work' = work
      \/ Wait("PUT", req, req.id, left) /\ UNCHANGED <<pending_writes, replies>>
  BY <1>1, ReplyingCases DEF HandleWriteChunk
<1>4. CASE /\ pending_writes' = Drop(pending_writes, key(req)) /\ Replying(req) /\ work' = work
  BY <1>2, <1>4, ErasedClean
<1>5. CASE Wait("PUT", req, req.id, left) /\ UNCHANGED <<pending_writes, replies>>
  <2>1. work'.req = req /\ work'.kind = "PUT" /\ work' # Idle
    BY <1>5 DEF Wait, Idle
  <2> QED BY <1>2, <1>5, <2>1, WaitClean DEF tables
<1> QED BY <1>3, <1>4, <1>5

\* The worker asks for a chunk, or gives up.
LEMMA AskClean ==
    ASSUME Typed, NEW req, Serving(req), req.job = "READ_CHUNK", NEW left, AskNext(req, left),
           UNCHANGED <<client, pending_writes>>, NEW k \in Keys, Clean(k)
    PROVE  Clean(k)'
<1>1. \/ /\ pending_reads' = Drop(pending_reads, key(req)) /\ Replying(req) /\ work' = Idle
      \/ \E id, rest : Wait("GET", req, id, rest) /\ UNCHANGED <<pending_reads, replies>>
  BY ReplyingCases DEF AskNext
<1>2. CASE pending_reads' = Drop(pending_reads, key(req)) /\ Replying(req) /\ work' = Idle
  BY <1>2, ErasedClean
<1>3. ASSUME NEW id, NEW rest, Wait("GET", req, id, rest), UNCHANGED <<pending_reads, replies>>
      PROVE  Clean(k)'
  <2>1. work'.req = req /\ work'.kind = "GET" /\ work' # Idle
    BY <1>3 DEF Wait, Idle
  <2> QED BY <1>3, <2>1, WaitClean DEF tables
<1> QED BY <1>1, <1>2, <1>3

\* READ_CHUNK
LEMMA ReadChunkClean ==
    ASSUME Typed, NEW k \in Keys, Clean(k), HandleReadChunk
    PROVE  Clean(k)'
<1>1. PICK req, left : req = Head(jobs) /\ left = pending_reads[key(req)].replicas
  OBVIOUS
<1>2. /\ work = Idle /\ UNCHANGED <<client, pending_writes>> /\ Serving(req) /\ req.job = "READ_CHUNK"
  BY <1>1 DEF HandleReadChunk, Taking, Serving
<1>3. \/ pending_reads' = Drop(pending_reads, key(req)) /\ Replying(req) /\ work' = work
      \/ AskNext(req, left)
  BY <1>1, ReplyingCases DEF HandleReadChunk
<1>4. CASE pending_reads' = Drop(pending_reads, key(req)) /\ Replying(req) /\ work' = work
  BY <1>2, <1>4, ErasedClean
<1>5. CASE AskNext(req, left)
  BY <1>2, <1>5, AskClean
<1> QED BY <1>3, <1>4, <1>5

\* REMOVE
LEMMA RemoveClean ==
    ASSUME Typed, NEW k \in Keys, Clean(k), HandleRemove
    PROVE  Clean(k)'
<1>1. PICK req : req = Head(jobs)
  OBVIOUS
<1>2. /\ work = Idle /\ UNCHANGED <<client, tables>> /\ Serving(req) /\ req.job = "REMOVE"
  BY <1>1 DEF HandleRemove, Taking, Serving
<1>3. \/ Replying(req) /\ work' = work
      \/ \E id, left : Wait("DELETE", req, id, left) /\ replies' = replies
  BY <1>1, ReplyingCases DEF HandleRemove
<1>4. CASE Replying(req) /\ work' = work
  BY <1>2, <1>4, PlainClean DEF ChunkJobs
<1>5. ASSUME NEW id, NEW left, Wait("DELETE", req, id, left), replies' = replies
      PROVE  Clean(k)'
  <2>1. work'.req = req /\ work'.kind = "DELETE" /\ work' # Idle
    BY <1>5 DEF Wait, Idle
  <2> QED BY <1>2, <1>5, <2>1, WaitClean
<1> QED BY <1>3, <1>4, <1>5

\* The last replica has answered, or not.
LEMMA FinishPutClean ==
    ASSUME Typed, KindInv, work # Idle, work.kind = "PUT", NEW ok, FinishPut(ok), work' = Idle,
           UNCHANGED <<client, jobs, pending_reads>>, NEW k \in Keys, Clean(k)
    PROVE  Clean(k)'
<1>1. PICK req, f : req = work.req /\ f = pending_writes
  OBVIOUS
<1>2. Serving(req) /\ req.job = "WRITE_CHUNK"
  BY <1>1 DEF Serving, KindInv
<1>3. key(req) \in DOMAIN f /\ TableTyped(f)
  BY <1>1 DEF Typed, WaitInv, Awaited
<1>4. \/ pending_writes' = Drop(f, key(req)) /\ Replying(req)
      \/ /\ f[key(req)].next + 1 # f[key(req)].count
         /\ pending_writes' = [f EXCEPT ![key(req)].next = @ + 1]
         /\ Reply(req, "Success", 0, << >>)
  BY <1>1, ReplyingCases DEF FinishPut, respond
<1>5. CASE pending_writes' = Drop(f, key(req)) /\ Replying(req)
  BY <1>1, <1>2, <1>5, ErasedClean
<1>6. CASE /\ f[key(req)].next + 1 # f[key(req)].count
           /\ pending_writes' = [f EXCEPT ![key(req)].next = @ + 1]
           /\ Reply(req, "Success", 0, << >>)
  <2>1. PICK g : g = [f EXCEPT ![key(req)].next = @ + 1] /\ pending_writes' = g
    BY <1>6
  <2> QED BY <1>1, <1>2, <1>3, <1>6, <2>1, AdvancedClean
<1> QED BY <1>4, <1>5, <1>6

\* A replica has given the chunk.
LEMMA FinishGetClean ==
    ASSUME Typed, KindInv, work # Idle, work.kind = "GET", NEW data, FinishGet(data), work' = Idle,
           UNCHANGED <<client, jobs, pending_writes>>, NEW k \in Keys, Clean(k)
    PROVE  Clean(k)'
<1>1. PICK req, f : req = work.req /\ f = pending_reads
  OBVIOUS
<1>2. Serving(req) /\ req.job = "READ_CHUNK"
  BY <1>1 DEF Serving, KindInv
<1>3. key(req) \in DOMAIN f /\ TableTyped(f)
  BY <1>1 DEF Typed, WaitInv, Awaited
<1>4. Reply(req, "Success", 0, data)
  BY <1>1 DEF FinishGet
<1>5. CASE f[key(req)].next + 1 = f[key(req)].count
  <2>1. pending_reads' = Drop(f, key(req)) /\ Replying(req)
    BY <1>1, <1>4, <1>5, ReplyingCases DEF FinishGet
  <2> QED BY <1>1, <1>2, <2>1, ErasedClean
<1>6. CASE f[key(req)].next + 1 # f[key(req)].count
  <2>1. PICK g : g = [f EXCEPT ![key(req)].next = @ + 1] /\ pending_reads' = g
    BY <1>1, <1>6 DEF FinishGet
  <2> QED BY <1>1, <1>2, <1>3, <1>4, <1>6, <2>1, AdvancedClean
<1> QED BY <1>5, <1>6

\* The worker goes on.
LEMMA ProceedClean ==
    ASSUME Typed, KindInv, work # Idle, NEW ok, NEW data, Proceed(ok, data),
           UNCHANGED <<client, jobs>>, NEW k \in Keys, Clean(k)
    PROVE  Clean(k)'
<1>1. PICK req, rest, all : req = work.req /\ rest = Tail(work.left) /\ all = AllOk(ok)
  OBVIOUS
<1>2. Serving(req)
  BY <1>1 DEF Serving
<1>3. CASE /\ work' = [work EXCEPT !.left = rest, !.ok = all] /\ UNCHANGED <<replies, tables>>
  <2>1. work'.req = req /\ work' # Idle
    BY <1>1, <1>3, WorkFacts DEF Typed, Work, Idle
  <2> QED BY <1>2, <1>3, <2>1, WaitClean
<1>4. CASE work.kind = "PUT" /\ FinishPut(all) /\ work' = Idle /\ pending_reads' = pending_reads
  BY <1>4, FinishPutClean
<1>5. CASE work.kind = "DELETE" /\ FinishDelete(all) /\ work' = Idle /\ UNCHANGED tables
  <2>1. req.job = "REMOVE"
    BY <1>1, <1>5 DEF KindInv
  <2>2. Replying(req)
    BY <1>1, <1>5, ReplyingCases DEF FinishDelete
  <2> QED BY <1>2, <1>5, <2>1, <2>2, PlainClean DEF ChunkJobs
<1>6. CASE work.kind = "GET" /\ FinishGet(data) /\ work' = Idle /\ pending_writes' = pending_writes
  BY <1>6, FinishGetClean
<1>7. CASE work.kind = "GET" /\ AskNext(req, rest) /\ pending_writes' = pending_writes
  <2>1. req.job = "READ_CHUNK"
    BY <1>1, <1>7 DEF KindInv
  <2> QED BY <1>2, <1>7, <2>1, AskClean
<1> QED BY <1>1, <1>3, <1>4, <1>5, <1>6, <1>7 DEF Proceed, StillLeft

\* The worker waits for what the request is about.
LEMMA KindStep ==
    ASSUME Typed, KindInv, [Next]_vars
    PROVE  KindInv'
<1>1. CASE work' = work \/ work' = Idle
  BY <1>1 DEF KindInv
<1>2. ASSUME NEW kind, NEW req, NEW id, NEW left, Wait(kind, req, id, left),
             <<kind, req.job>> \in {<<"PUT", "WRITE_CHUNK">>, <<"GET", "READ_CHUNK">>,
                                    <<"DELETE", "REMOVE">>}
      PROVE  KindInv'
  <2>1. work'.kind = kind /\ work'.req = req
    BY <1>2 DEF Wait
  <2> QED BY <1>2, <2>1 DEF KindInv
<1>3. ASSUME NEW req, NEW left, AskNext(req, left), req.job = "READ_CHUNK" PROVE KindInv'
  <2>1. work' = Idle \/ \E id, rest : Wait("GET", req, id, rest)
    BY <1>3 DEF AskNext
  <2> QED BY <1>1, <1>2, <1>3, <2>1
<1>4. CASE WorkerHandle
  <2>1. PICK req : req = Head(jobs)
    OBVIOUS
  <2>2. CASE HandleWriteChunk
    <3>1. req.job = "WRITE_CHUNK" /\ (work' = work \/ \E left : Wait("PUT", req, req.id, left))
      BY <2>1, <2>2 DEF HandleWriteChunk, Taking
    <3> QED BY <1>1, <1>2, <3>1
  <2>3. CASE HandleReadChunk
    <3>1. req.job = "READ_CHUNK" /\ (work' = work \/ \E left : AskNext(req, left))
      BY <2>1, <2>3 DEF HandleReadChunk, Taking
    <3> QED BY <1>1, <1>3, <3>1
  <2>4. CASE HandleRemove
    <3>1. req.job = "REMOVE" /\ (work' = work \/ \E id, left : Wait("DELETE", req, id, left))
      BY <2>1, <2>4 DEF HandleRemove, Taking
    <3> QED BY <1>1, <1>2, <3>1
  <2>5. CASE ~(HandleWriteChunk \/ HandleReadChunk \/ HandleRemove)
    <3>1. work' = work
      BY <1>4, <2>5 DEF WorkerHandle, HandleCreateFile, HandleWriteFile, HandleReadFile, HandleRename,
             HandleMakeDir, HandleList, HandleStat
    <3> QED BY <1>1, <3>1
  <2> QED BY <2>2, <2>3, <2>4, <2>5
<1>5. CASE WorkerReceive \/ WorkerTimeout
  <2>1. PICK ok, data : Proceed(ok, data) /\ work # Idle
    BY <1>5 DEF WorkerReceive, WorkerTimeout
  <2>2. PICK rest, all : rest = Tail(work.left) /\ all = AllOk(ok)
    OBVIOUS
  <2>3. \/ work' = Idle
        \/ work' = [work EXCEPT !.left = rest, !.ok = all]
        \/ work.kind = "GET" /\ AskNext(work.req, rest)
    BY <2>1, <2>2 DEF Proceed, StillLeft
  <2>4. CASE work' = [work EXCEPT !.left = rest, !.ok = all]
    <3>1. work'.kind = work.kind /\ work'.req = work.req
      BY <2>1, <2>4, WorkFacts DEF Typed, Work
    <3> QED BY <2>1, <3>1 DEF KindInv
  <2>5. CASE work.kind = "GET" /\ AskNext(work.req, rest)
    <3>1. PICK req : req = work.req
      OBVIOUS
    <3>2. req.job = "READ_CHUNK"
      BY <2>1, <2>5, <3>1 DEF KindInv
    <3> QED BY <1>3, <2>5, <3>1, <3>2
  <2> QED BY <1>1, <2>3, <2>4, <2>5
<1>6. ASSUME NEW c \in Client, Issue(c) PROVE KindInv'
  BY <1>1, <1>6 DEF Issue, Begin
<1>7. CASE \E c \in Client : ClientReceive(c) \/ ClientTimeout(c) \/ ClientRestart(c)
  BY <1>1, <1>7 DEF ClientReceive, ClientTimeout, ClientRestart
<1>8. CASE \E s \in Storage : \/ StorageHandle(s) \/ StorageRestart(s)
                              \/ HandleHeartbeat(s) \/ ExpireHeartbeat(s)
  BY <1>1, <1>8 DEF StorageHandle, StorageRestart, HandleHeartbeat, ExpireHeartbeat
<1>9. CASE MetadataRestart \/ UNCHANGED vars
  BY <1>1, <1>9 DEF MetadataRestart, vars
<1> QED BY <1>4, <1>5, <1>6, <1>7, <1>8, <1>9 DEF Next

-----------------------------------------------------------------------------
(* Pending conversations: the theorems *)

\* Where no more conversations are left, or one more is and it is counted.
LEMMA PendingStep ==
    ASSUME Typed, Typed', PendingInv, KindInv', NEW k0,
           \/ Abandoned' >= Abandoned /\ \A k \in Keys : Clean(k) => Clean(k)'
           \/ Abandoned' >= Abandoned + 1 /\ \A k \in Keys : Clean(k) /\ k # k0 => Clean(k)'
    PROVE  PendingInv'
<1>1. Abandoned \in Nat /\ Abandoned' \in Nat
  BY Bounds DEF Typed, MishapsTyped, FaultsTyped, Abandoned
<1>2. PICK D, E : D = Dirty /\ E = Dirty'
  OBVIOUS
<1>3. IsFiniteSet(D) /\ Cardinality(D) <= Abandoned
  BY <1>2 DEF PendingInv
<1>4. Cardinality(D) \in Nat
  BY <1>3, FS_CardinalityType
<1>5. CASE Abandoned' >= Abandoned /\ \A k \in Keys : Clean(k) => Clean(k)'
  <2>1. E \subseteq D
    BY <1>2, <1>5 DEF Dirty, Keys
  <2>2. IsFiniteSet(E) /\ Cardinality(E) <= Cardinality(D) /\ Cardinality(E) \in Nat
    BY <1>3, <2>1, FS_Subset, FS_CardinalityType
  <2>3. Cardinality(E) <= Abandoned'
    BY <1>1, <1>3, <1>4, <1>5, <2>2
  <2> QED BY <1>2, <2>2, <2>3 DEF PendingInv
<1>6. CASE Abandoned' >= Abandoned + 1 /\ \A k \in Keys : Clean(k) /\ k # k0 => Clean(k)'
  <2>1. E \subseteq D \cup {k0}
    BY <1>2, <1>6 DEF Dirty, Keys
  <2>2. IsFiniteSet(D \cup {k0}) /\ Cardinality(D \cup {k0}) <= Cardinality(D) + 1
    BY <1>3, OneMore
  <2>3. /\ IsFiniteSet(E) /\ Cardinality(E) <= Cardinality(D \cup {k0})
        /\ Cardinality(E) \in Nat /\ Cardinality(D \cup {k0}) \in Nat
    BY <2>1, <2>2, FS_Subset, FS_CardinalityType
  <2>4. Cardinality(E) <= Abandoned'
    BY <1>1, <1>3, <1>4, <1>6, <2>2, <2>3
  <2> QED BY <1>2, <2>3, <2>4 DEF PendingInv
<1> QED BY <1>5, <1>6

\* What is counted never decreases, and grows when a client leaves.
LEMMA AbandonedGrows ==
    ASSUME Typed, Typed', [Next]_vars
    PROVE  /\ Abandoned' >= Abandoned
           /\ timeouts' # timeouts \/ faults' # faults \/ restarts'.client # restarts.client
                => Abandoned' >= Abandoned + 1
<1>1. timeouts' = timeouts \/ timeouts' = timeouts + 1
  <2>1. ASSUME NEW c \in Client, Issue(c) PROVE timeouts' = timeouts
    BY <2>1 DEF Issue, Begin
  <2>2. WorkerHandle => timeouts' = timeouts
    BY DEF WorkerHandle, HandleCreateFile, HandleWriteFile, HandleWriteChunk, HandleReadFile,
           HandleReadChunk, HandleRemove, HandleRename, HandleMakeDir, HandleList, HandleStat
  <2> QED BY <2>1, <2>2 DEF Next, vars, ClientReceive, ClientTimeout, ClientRestart, WorkerReceive,
               WorkerTimeout, StorageHandle, StorageRestart, HandleHeartbeat, ExpireHeartbeat,
               MetadataRestart, Early
<1>2. faults' = faults \/ faults' = faults + 1
  <2>1. ASSUME NEW c \in Client, Issue(c) PROVE faults' = faults
    BY <2>1 DEF Issue, Begin
  <2>2. ASSUME NEW req, NEW f, NEW d, StoreChange(req, f, d) PROVE faults' = faults \/ faults' = faults + 1
    BY <2>2 DEF StoreChange, Fault
  <2>3. WorkerHandle => faults' = faults \/ faults' = faults + 1
    BY <2>2 DEF WorkerHandle, HandleCreateFile, HandleWriteFile, HandleWriteChunk, HandleReadFile,
           HandleReadChunk, HandleRemove, HandleRename, HandleMakeDir, HandleList, HandleStat,
           Refuse, Fault
  <2>4. ASSUME NEW ok, NEW data, Proceed(ok, data), WorkerReceive \/ WorkerTimeout
        PROVE  faults' = faults \/ faults' = faults + 1
    BY <2>2, <2>4 DEF Proceed, FinishPut, FinishDelete, Refuse
  <2>5. CASE WorkerReceive \/ WorkerTimeout
    BY <2>4, <2>5 DEF WorkerReceive, WorkerTimeout
  <2>6. ASSUME NEW c \in Client, ClientReceive(c) PROVE faults' = faults \/ faults' = faults + 1
    BY <2>6 DEF ClientReceive, ReceiveSuccess, Fault
  <2>7. ASSUME NEW s \in Storage, StorageHandle(s) PROVE faults' = faults \/ faults' = faults + 1
    BY <2>7 DEF StorageHandle, Fault
  <2> QED BY <2>1, <2>3, <2>5, <2>6, <2>7 DEF Next, vars, ClientTimeout, ClientRestart,
               StorageRestart, HandleHeartbeat, ExpireHeartbeat, MetadataRestart
<1>3. restarts'.client = restarts.client \/ restarts'.client = restarts.client + 1
  <2>1. restarts' = restarts \/ \E kind \in {"client", "metadata", "storage"} :
                                   restarts' = [restarts EXCEPT ![kind] = @ + 1]
    <3>1. ASSUME NEW c \in Client, Issue(c) PROVE restarts' = restarts
      BY <3>1 DEF Issue, Begin
    <3>2. WorkerHandle \/ WorkerReceive \/ WorkerTimeout => restarts' = restarts
      BY DEF WorkerHandle, HandleCreateFile, HandleWriteFile, HandleWriteChunk, HandleReadFile,
             HandleReadChunk, HandleRemove, HandleRename, HandleMakeDir, HandleList, HandleStat,
             WorkerReceive, WorkerTimeout
    <3> QED BY <3>1, <3>2 DEF Next, vars, ClientReceive, ClientTimeout, ClientRestart, StorageHandle,
                   StorageRestart, HandleHeartbeat, ExpireHeartbeat, MetadataRestart, Restart
  <2> QED BY <2>1 DEF Typed, MishapsTyped
<1>4. timeouts \in Nat /\ faults \in Nat /\ restarts.client \in Nat
  BY Bounds DEF Typed, MishapsTyped, FaultsTyped
<1>5. PICK a, b, d, x, y, z :
        /\ a = timeouts /\ b = faults /\ d = restarts.client
        /\ x = timeouts' /\ y = faults' /\ z = restarts'.client
        /\ a \in Nat /\ b \in Nat /\ d \in Nat
  BY <1>4
<1>6. (x = a \/ x = a + 1) /\ (y = b \/ y = b + 1) /\ (z = d \/ z = d + 1)
  BY <1>1, <1>2, <1>3, <1>5
<1>7. x + y + z >= a + b + d /\ (x # a \/ y # b \/ z # d => x + y + z >= a + b + d + 1)
  BY <1>5, <1>6
<1> QED BY <1>5, <1>7 DEF Abandoned

\* The conversations a client is not in.
LEMMA OtherKeys ==
    ASSUME NEW c, NEW k \in Keys, k # <<c, client[c].req.id>>
    PROVE  k[1] = c => ~Current(k)
BY DEF Keys, Current

\* The steps of clients.
LEMMA ClientPending ==
    ASSUME Typed, Typed', PendingInv, KindInv', [Next]_vars, NEW c \in Client,
           ClientReceive(c) \/ ClientTimeout(c) \/ ClientRestart(c)
    PROVE  PendingInv'
<1>1. PICK k0 : k0 = <<c, client[c].req.id>>
  OBVIOUS
<1>2. Abandoned' >= Abandoned
  BY AbandonedGrows
<1>3. \A k \in Keys : k # k0 => (k[1] = c => ~Current(k))
  BY <1>1, OtherKeys
<1>4. CASE ClientReceive(c)
  <2>1. CASE faults' = faults
    <3>1. \A k \in Keys : Clean(k) => Clean(k)'
      BY <1>4, <2>1, ReceiveClean
    <3> QED BY <1>2, <3>1, PendingStep
  <2>2. CASE faults' # faults
    <3>1. \A k \in Keys : Clean(k) /\ k # k0 => Clean(k)'
      BY <1>3, <1>4, ReceiveClean
    <3>2. Abandoned' >= Abandoned + 1
      BY <2>2, AbandonedGrows
    <3> QED BY <3>1, <3>2, PendingStep
  <2> QED BY <2>1, <2>2
<1>5. CASE ClientTimeout(c)
  <2>1. CASE timeouts' = timeouts
    <3>1. \A k \in Keys : Clean(k) => Clean(k)'
      BY <1>5, <2>1, TimeoutClean
    <3> QED BY <1>2, <3>1, PendingStep
  <2>2. CASE timeouts' # timeouts
    <3>1. \A k \in Keys : Clean(k) /\ k # k0 => Clean(k)'
      BY <1>3, <1>5, TimeoutClean
    <3>2. Abandoned' >= Abandoned + 1
      BY <2>2, AbandonedGrows
    <3> QED BY <3>1, <3>2, PendingStep
  <2> QED BY <2>1, <2>2
<1>6. CASE ClientRestart(c)
  <2>1. \A k \in Keys : Clean(k) /\ k # k0 => Clean(k)'
    BY <1>3, <1>6, ClientRestartClean
  <2>2. restarts' = [restarts EXCEPT !["client"] = @ + 1] /\ restarts.client \in Nat
    BY <1>6, Bounds DEF ClientRestart, Restart, Typed, MishapsTyped
  <2>3. restarts'.client # restarts.client
    BY <2>2 DEF Typed, MishapsTyped
  <2>4. Abandoned' >= Abandoned + 1
    BY <2>3, AbandonedGrows
  <2> QED BY <2>1, <2>4, PendingStep
<1> QED BY <1>4, <1>5, <1>6

\* The steps of the nodes: no conversation is left.
LEMMA NodesClean ==
    ASSUME Typed, Typed', KindInv, NEW k \in Keys, Clean(k),
           \/ \E c \in Client : Issue(c)
           \/ WorkerHandle \/ WorkerReceive \/ WorkerTimeout \/ MetadataRestart \/ UNCHANGED vars
           \/ \E s \in Storage : \/ StorageHandle(s) \/ StorageRestart(s)
                                 \/ HandleHeartbeat(s) \/ ExpireHeartbeat(s)
    PROVE  Clean(k)'
<1>1. CASE \E c \in Client : Issue(c)
  BY <1>1, IssueClean
<1>2. CASE WorkerHandle
  BY <1>2, NamesClean, WriteFileClean, ReadFileClean, WriteChunkClean, ReadChunkClean, RemoveClean
     DEF WorkerHandle
<1>3. CASE WorkerReceive \/ WorkerTimeout
  <2>1. PICK ok, data : Proceed(ok, data) /\ work # Idle
    BY <1>3 DEF WorkerReceive, WorkerTimeout
  <2>2. UNCHANGED <<client, jobs>>
    BY <1>3 DEF WorkerReceive, WorkerTimeout
  <2> QED BY <2>1, <2>2, ProceedClean
<1>4. CASE MetadataRestart
  BY <1>4, MetadataRestartClean
<1>5. CASE \/ UNCHANGED vars
           \/ \E s \in Storage : \/ StorageHandle(s) \/ StorageRestart(s)
                                 \/ HandleHeartbeat(s) \/ ExpireHeartbeat(s)
  <2>1. UNCHANGED <<client, replies, jobs, work, tables>>
    BY <1>5 DEF StorageHandle, StorageRestart, HandleHeartbeat, ExpireHeartbeat, vars, clientVars, tables
  <2> QED BY <2>1, UnchangedSame, CleanStays
<1> QED BY <1>1, <1>2, <1>3, <1>4, <1>5

\* At the start there are no conversations.
LEMMA InitPending == ASSUME Init PROVE PendingInv
<1>1. \A i \in 1..Len(jobs) : FALSE
  BY DEF Init
<1>2. /\ work = Idle /\ DOMAIN pending_writes = {} /\ DOMAIN pending_reads = {}
      /\ \A c \in Client : client[c].req = NoReq /\ replies[c] = {}
  BY DEF Init
<1>3. ASSUME NEW k \in Keys PROVE Clean(k)
  <2>1. k[1] \in Client
    BY DEF Keys
  <2> QED BY <1>1, <1>2, <2>1 DEF Clean, Current, Ended, Queued, Handled, Replied, NoEntry
<1>4. Dirty = {}
  BY <1>3 DEF Dirty
<1>5. IsFiniteSet(Dirty) /\ Cardinality(Dirty) = 0
  BY <1>4, FS_EmptySet
<1>6. Abandoned = 0
  BY DEF Init, Abandoned
<1> QED BY <1>2, <1>5, <1>6 DEF PendingInv, KindInv

\* The conversations that were left are accounted for in every reachable
\* state.
THEOREM PendingInvariant == Spec => [](Typed /\ PendingInv)
<1>1. Init => Typed /\ PendingInv
  BY InitTyped, InitPending
<1>2. Typed /\ PendingInv /\ [Next]_vars => (Typed /\ PendingInv)'
  <2> SUFFICES ASSUME Typed, PendingInv, [Next]_vars PROVE Typed' /\ PendingInv'
    OBVIOUS
  <2>1. Typed' /\ KindInv /\ KindInv'
    BY StepTyped, KindStep DEF PendingInv
  <2>2. ASSUME NEW c \in Client, ClientReceive(c) \/ ClientTimeout(c) \/ ClientRestart(c)
        PROVE  PendingInv'
    BY <2>1, <2>2, ClientPending
  <2>3. CASE \/ \E c \in Client : Issue(c)
             \/ WorkerHandle \/ WorkerReceive \/ WorkerTimeout \/ MetadataRestart \/ UNCHANGED vars
             \/ \E s \in Storage : \/ StorageHandle(s) \/ StorageRestart(s)
                                   \/ HandleHeartbeat(s) \/ ExpireHeartbeat(s)
    <3>1. \A k \in Keys : Clean(k) => Clean(k)'
      BY <2>1, <2>3, NodesClean
    <3>2. Abandoned' >= Abandoned
      BY <2>1, AbandonedGrows
    <3> QED BY <2>1, <3>1, <3>2, PendingStep
  <2> QED BY <2>1, <2>2, <2>3 DEF Next
<1> QED BY <1>1, <1>2, PTL DEF Spec

\* The tables of pending conversations do not leak: each entry belongs to the
\* operation its client is in, but for at most one for each premature timeout,
\* fault and client restart, whatever the number of clients, requests and
\* restarts of nodes.  A conversation that ends with an answer, of success or
\* of failure, has erased its entry.
THEOREM TablesDoNotLeak == Spec => []NoStalePending
<1>1. Typed /\ PendingInv => NoStalePending
  <2> SUFFICES ASSUME Typed, PendingInv PROVE NoStalePending
    OBVIOUS
  <2>1. PICK S : S = {k \in DOMAIN pending_writes \cup DOMAIN pending_reads :
                        client[k[1]].req = NoReq \/ client[k[1]].req.id # k[2]}
    OBVIOUS
  <2>2. S \subseteq Dirty
    <3>1. ASSUME NEW k \in S PROVE k \in Dirty
      <4>1. k \in Keys /\ ~Current(k) /\ ~NoEntry(k)
        BY <2>1, <3>1 DEF Current, NoEntry, Typed, TableTyped
      <4> QED BY <4>1 DEF Dirty, Clean, Ended
    <3> QED BY <3>1
  <2>3. IsFiniteSet(Dirty) /\ Cardinality(Dirty) <= Abandoned
    BY DEF PendingInv
  <2>4. Cardinality(S) <= Cardinality(Dirty) /\ Cardinality(S) \in Nat /\ Cardinality(Dirty) \in Nat
    BY <2>2, <2>3, FS_Subset, FS_CardinalityType
  <2>5. Abandoned \in Nat
    BY Bounds DEF Typed, MishapsTyped, FaultsTyped, Abandoned
  <2>6. Cardinality(S) <= Abandoned
    BY <2>3, <2>4, <2>5
  <2> QED BY <2>1, <2>6 DEF NoStalePending, Abandoned
<1> QED BY <1>1, PendingInvariant, PTL
=============================================================================
