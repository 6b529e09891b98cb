------------------------ MODULE BlockingQueueProofs ------------------------
(***************************************************************************)
(* Proofs about BlockingQueue, for any number of producers, consumers,     *)
(* items and predicates: its types, that no wake-up is lost, and that it   *)
(* implements the atomic queue of MessageQueue.                            *)
(***************************************************************************)
EXTENDS BlockingQueue, SequenceTheorems, FiniteSetTheorems,
        WellFoundedInduction, TLAPS

\* Erasing an item of a queue leaves a queue, and no item that was not there.
LEMMA WithoutProperties ==
    ASSUME NEW q \in Seq(Item), NEW i \in 1..Len(q)
    PROVE  /\ MQ!Without(q, i) \in Seq(Item)
           /\ \A j \in 1..Len(MQ!Without(q, i)) :
                 \E k \in 1..Len(q) : MQ!Without(q, i)[j] = q[k]
<1> DEFINE front == SubSeq(q, 1, i - 1)
           back == SubSeq(q, i + 1, Len(q))
<1>1. /\ front \in Seq(Item) /\ Len(front) = i - 1
      /\ \A j \in 1..(i - 1) : front[j] = q[j]
  BY SubSeqProperties
<1>2. /\ back \in Seq(Item) /\ Len(back) = Len(q) - i
      /\ \A j \in 1..(Len(q) - i) : back[j] = q[i + j]
  BY SubSeqProperties
<1>3. MQ!Without(q, i) = front \o back
  BY DEF MQ!Without
<1> HIDE DEF front, back
<1>4. /\ front \o back \in Seq(Item)
      /\ Len(front \o back) = Len(q) - 1
      /\ \A j \in 1..(Len(q) - 1) :
            (front \o back)[j] = IF j <= i - 1 THEN front[j] ELSE back[j - (i - 1)]
  BY <1>1, <1>2, ConcatProperties
<1>5. ASSUME NEW j \in 1..(Len(q) - 1)
      PROVE  \E k \in 1..Len(q) : (front \o back)[j] = q[k]
  <2>1. CASE j <= i - 1
    BY <1>1, <1>4, <2>1
  <2>2. CASE ~(j <= i - 1)
    <3>1. j - (i - 1) \in 1..(Len(q) - i)
      BY <2>2
    <3>2. (front \o back)[j] = q[i + (j - (i - 1))]
      BY <1>2, <1>4, <2>2, <3>1
    <3> QED BY <3>1, <3>2
  <2> QED BY <2>1, <2>2
<1> QED BY <1>3, <1>4, <1>5

\* A non-empty set of natural numbers has a least element, since the
\* intervals that end in one of them cannot shrink for ever.
LEMMA LeastElement ==
    ASSUME NEW M, M \subseteq Nat, M # {}
    PROVE  \E i \in M : \A j \in M : i <= j
<1> DEFINE T == {1..i : i \in M}
           R == StrictSubsetOrdering(Nat)
<1>1. T \subseteq FiniteSubsetsOf(Nat) /\ T # {}
  <2>1. ASSUME NEW i \in M PROVE 1..i \in SUBSET Nat /\ IsFiniteSet(1..i)
    BY FS_Interval
  <2> QED BY <2>1 DEF FiniteSubsetsOf
<1>2. IsWellFoundedOn(R, FiniteSubsetsOf(Nat))
  BY FS_StrictSubsetOrderingWellFounded
<1> HIDE DEF T, R
<1>3. PICK t \in T : \A u \in T : ~(<<u, t>> \in R)
  BY <1>1, <1>2, WFMin
<1>4. PICK i \in M : t = 1..i
  BY DEF T
<1>5. ASSUME NEW j \in M, j < i PROVE FALSE
  <2>1. 1..j \subseteq 1..i /\ 1..j # 1..i /\ i \in Nat /\ j \in Nat
    <3>1. i \in 1..i /\ i \notin 1..j
      BY <1>5
    <3> QED BY <1>5, <3>1
  <2>2. <<1..j, 1..i>> \in R
    BY <2>1 DEF R, StrictSubsetOrdering
  <2> QED BY <1>3, <1>4, <2>2 DEF T
<1> QED BY <1>5

\* If something matches, the first match is a place in the queue, and what
\* is there is an item.
LEMMA FirstMatchingProperties ==
    ASSUME NEW q \in Seq(Item), NEW S, MQ!Matching(q, S) # {}
    PROVE  /\ MQ!FirstMatching(q, S) \in 1..Len(q)
           /\ q[MQ!FirstMatching(q, S)] \in Item
<1>1. MQ!Matching(q, S) \subseteq 1..Len(q)
  BY DEF MQ!Matching
<1>2. MQ!Matching(q, S) \subseteq Nat
  BY <1>1
<1>3. \E i \in MQ!Matching(q, S) : \A j \in MQ!Matching(q, S) : i <= j
  BY <1>2, LeastElement
<1>4. MQ!FirstMatching(q, S) \in MQ!Matching(q, S)
  BY <1>3 DEF MQ!FirstMatching
<1> QED BY <1>1, <1>4

-----------------------------------------------------------------------------

\* What Deliver does to the state, in the terms the invariants speak of.
LEMMA DeliverProperties ==
    ASSUME TypeOK, NEW c \in Consumer, Found(c), Deliver(c)
    PROVE  /\ queue' \in Seq(Item)
           /\ queue[MQ!FirstMatching(queue, want[c])] \in Item
           /\ \A S : MQ!Matching(queue', S) # {} => MQ!Matching(queue, S) # {}
<1> DEFINE i == MQ!FirstMatching(queue, want[c])
<1>1. queue \in Seq(Item)
  BY DEF TypeOK
<1>2. i \in 1..Len(queue) /\ queue[i] \in Item
  BY <1>1, FirstMatchingProperties DEF Found
<1>3. queue' = MQ!Without(queue, i)
  BY DEF Deliver
<1> HIDE DEF i
<1>4. /\ MQ!Without(queue, i) \in Seq(Item)
      /\ \A j \in 1..Len(MQ!Without(queue, i)) :
            \E k \in 1..Len(queue) : MQ!Without(queue, i)[j] = queue[k]
  BY <1>1, <1>2, WithoutProperties
<1>5. ASSUME NEW S, MQ!Matching(queue', S) # {} PROVE MQ!Matching(queue, S) # {}
  <2>1. PICK j \in 1..Len(queue') : queue'[j] \in S
    BY <1>5 DEF MQ!Matching
  <2>2. PICK k \in 1..Len(queue) : queue'[j] = queue[k]
    BY <1>3, <1>4
  <2> QED BY <2>1, <2>2 DEF MQ!Matching
<1> QED BY <1>2, <1>3, <1>4, <1>5 DEF i

\* The empty queue is well typed.
LEMMA InitTyped == Init => TypeOK
<1> SUFFICES ASSUME Init PROVE TypeOK
  OBVIOUS
<1>1. queue \in Seq(Item) /\ pushes \in 0..MaxPushes
  BY ThreadsAssumption, EmptySeq DEF Init
<1>2. /\ pusher \in [Producer -> {"idle", "notify"}]
      /\ pc \in [Consumer -> {"out", "awake", "asleep", "late"}]
      /\ result \in [Consumer -> Item \cup {Nothing}]
  BY DEF Init
<1>3. want \in [Consumer -> (SUBSET Item) \cup {Nothing}]
  BY Zenon DEF Init
<1>4. \A c \in Consumer : pc[c] = "out" <=> want[c] = Nothing
  BY DEF Init
<1> QED BY <1>1, <1>2, <1>3, <1>4 DEF TypeOK

\* Every step keeps the types.
LEMMA StepTyped == TypeOK /\ [Next]_vars => TypeOK'
<1> SUFFICES ASSUME TypeOK, [Next]_vars PROVE TypeOK'
  OBVIOUS
<1> USE ThreadsAssumption
<1>1. ASSUME NEW p \in Producer, NEW x \in Item, push(p, x) PROVE TypeOK'
  <2>1. queue' \in Seq(Item)
    BY <1>1, AppendProperties DEF push, TypeOK
  <2> QED BY <1>1, <2>1 DEF push, TypeOK
<1>2. ASSUME NEW p \in Producer, notify_all(p) PROVE TypeOK'
  BY <1>2 DEF notify_all, TypeOK
<1>3. ASSUME NEW c \in Consumer, NEW S \in Predicates, pop_if(c, S) PROVE TypeOK'
  <2>1. S \in SUBSET Item /\ S # Nothing
    OBVIOUS
  <2> QED BY <1>3, <2>1 DEF pop_if, TypeOK
<1>4. ASSUME NEW c \in Consumer, Found(c), Deliver(c), UNCHANGED <<pusher, pushes>>
      PROVE  TypeOK'
  <2>1. queue' \in Seq(Item) /\ queue[MQ!FirstMatching(queue, want[c])] \in Item
    BY <1>4, DeliverProperties
  <2>2. want' \in [Consumer -> (SUBSET Item) \cup {Nothing}]
    BY <1>4, Zenon DEF Deliver, TypeOK
  <2>3. \A d \in Consumer : pc'[d] = "out" <=> want'[d] = Nothing
    BY <1>4 DEF Deliver, TypeOK
  <2>4. /\ pc' \in [Consumer -> {"out", "awake", "asleep", "late"}]
        /\ result' \in [Consumer -> Item \cup {Nothing}]
    BY <1>4, <2>1 DEF Deliver, TypeOK
  <2> QED BY <1>4, <2>1, <2>2, <2>3, <2>4 DEF TypeOK
<1>5. ASSUME NEW c \in Consumer, Check(c) PROVE TypeOK'
  <2>1. CASE ~Found(c)
    BY <1>5, <2>1 DEF Check, TypeOK
  <2>2. CASE Found(c)
    BY <1>4, <1>5, <2>2 DEF Check
  <2> QED BY <2>1, <2>2
<1>6. ASSUME NEW c \in Consumer, SpuriousWakeup(c) PROVE TypeOK'
  BY <1>6 DEF SpuriousWakeup, TypeOK
<1>7. ASSUME NEW c \in Consumer, Timeout(c) PROVE TypeOK'
  BY <1>7 DEF Timeout, TypeOK
<1>8. ASSUME NEW c \in Consumer, LastCheck(c) PROVE TypeOK'
  <2>1. CASE ~Found(c)
    <3>1. want' \in [Consumer -> (SUBSET Item) \cup {Nothing}]
      BY <1>8, <2>1, Zenon DEF LastCheck, ReturnEmpty, TypeOK
    <3>2. \A d \in Consumer : pc'[d] = "out" <=> want'[d] = Nothing
      BY <1>8, <2>1 DEF LastCheck, ReturnEmpty, TypeOK
    <3>3. /\ pc' \in [Consumer -> {"out", "awake", "asleep", "late"}]
          /\ result' \in [Consumer -> Item \cup {Nothing}]
          /\ UNCHANGED <<queue, pusher, pushes>>
      BY <1>8, <2>1 DEF LastCheck, ReturnEmpty, TypeOK
    <3> QED BY <3>1, <3>2, <3>3 DEF TypeOK
  <2>2. CASE Found(c)
    BY <1>4, <1>8, <2>2 DEF LastCheck
  <2> QED BY <2>1, <2>2
<1>9. CASE UNCHANGED vars
  BY <1>9 DEF vars, TypeOK
<1> QED BY <1>1, <1>2, <1>3, <1>5, <1>6, <1>7, <1>8, <1>9 DEF Next

\* The variables keep their types, and a consumer has a predicate exactly
\* while it is inside pop, pop_if or pop_with_timeout, for any threads, items
\* and predicates.
THEOREM Typed == Spec => []TypeOK
<1>1. Init => TypeOK
  BY InitTyped
<1>2. TypeOK /\ [Next]_vars => TypeOK'
  BY StepTyped
<1> QED BY <1>1, <1>2, PTL DEF Spec

-----------------------------------------------------------------------------

\* A step that wakes nobody's item up and adds none keeps NoLostWakeup: who
\* sleeps beside a wanted item afterwards did so before, and the producers
\* have not moved.
LEMMA StillOnItsWay ==
    ASSUME NoLostWakeup, UNCHANGED pusher,
           \A c \in Consumer : pc'[c] = "asleep" /\ Found(c)' => pc[c] = "asleep" /\ Found(c)
    PROVE  NoLostWakeup'
  BY DEF NoLostWakeup

\* Every step keeps NoLostWakeup.
LEMMA StepWakes == TypeOK /\ NoLostWakeup /\ [Next]_vars => NoLostWakeup'
<1> SUFFICES ASSUME TypeOK, NoLostWakeup, [Next]_vars PROVE NoLostWakeup'
  OBVIOUS
<1>1. ASSUME NEW p \in Producer, NEW x \in Item, push(p, x) PROVE NoLostWakeup'
  <2>1. pusher'[p] = "notify"
    BY <1>1 DEF push, TypeOK
  <2> QED BY <2>1 DEF NoLostWakeup
<1>2. ASSUME NEW p \in Producer, notify_all(p) PROVE NoLostWakeup'
  <2>1. \A c \in Consumer : pc'[c] # "asleep"
    BY <1>2 DEF notify_all
  <2> QED BY <2>1 DEF NoLostWakeup
<1>3. ASSUME NEW c \in Consumer, NEW S \in Predicates, pop_if(c, S) PROVE NoLostWakeup'
  <2>1. ASSUME NEW d \in Consumer, pc'[d] = "asleep"
        PROVE  d # c /\ pc[d] = "asleep" /\ want'[d] = want[d]
    BY <1>3, <2>1 DEF pop_if, TypeOK
  <2>2. UNCHANGED <<pusher, queue>>
    BY <1>3 DEF pop_if
  <2> QED BY <2>1, <2>2, StillOnItsWay DEF Found
<1>4. ASSUME NEW c \in Consumer, Found(c), Deliver(c), UNCHANGED <<pusher, pushes>>
      PROVE  NoLostWakeup'
  <2>1. \A S : MQ!Matching(queue', S) # {} => MQ!Matching(queue, S) # {}
    BY <1>4, DeliverProperties
  <2>2. ASSUME NEW d \in Consumer, pc'[d] = "asleep"
        PROVE  pc[d] = "asleep" /\ want'[d] = want[d]
    BY <1>4, <2>2 DEF Deliver, TypeOK
  <2> QED BY <1>4, <2>1, <2>2, StillOnItsWay DEF Found
<1>5. ASSUME NEW c \in Consumer, Check(c) PROVE NoLostWakeup'
  <2>1. CASE ~Found(c)
    <3>1. UNCHANGED <<pusher, queue, want>>
      BY <1>5, <2>1 DEF Check
    <3>2. \A d \in Consumer \ {c} : pc'[d] = pc[d]
      BY <1>5, <2>1 DEF Check, TypeOK
    <3> QED BY <2>1, <3>1, <3>2, StillOnItsWay DEF Found
  <2>2. CASE Found(c)
    BY <1>4, <1>5, <2>2 DEF Check
  <2> QED BY <2>1, <2>2
<1>6. ASSUME NEW c \in Consumer, SpuriousWakeup(c) \/ Timeout(c) PROVE NoLostWakeup'
  <2>1. \A d \in Consumer : pc'[d] = "asleep" => pc[d] = "asleep"
    BY <1>6 DEF SpuriousWakeup, Timeout, TypeOK
  <2>2. UNCHANGED <<pusher, queue, want>>
    BY <1>6 DEF SpuriousWakeup, Timeout
  <2> QED BY <2>1, <2>2, StillOnItsWay DEF Found
<1>7. ASSUME NEW c \in Consumer, LastCheck(c) PROVE NoLostWakeup'
  <2>1. CASE ~Found(c)
    <3>1. UNCHANGED <<pusher, queue>>
      BY <1>7, <2>1 DEF LastCheck, ReturnEmpty
    <3>2. ASSUME NEW d \in Consumer, pc'[d] = "asleep"
          PROVE  pc[d] = "asleep" /\ want'[d] = want[d]
      BY <1>7, <2>1, <3>2 DEF LastCheck, ReturnEmpty, TypeOK
    <3> QED BY <3>1, <3>2, StillOnItsWay DEF Found
  <2>2. CASE Found(c)
    BY <1>4, <1>7, <2>2 DEF LastCheck
  <2> QED BY <2>1, <2>2
<1>8. CASE UNCHANGED vars
  BY <1>8 DEF vars, NoLostWakeup, Found
<1> QED BY <1>1, <1>2, <1>3, <1>5, <1>6, <1>7, <1>8 DEF Next

\* No wake-up is lost: whatever the threads, items and predicates, a consumer
\* never sleeps beside an item it wants without a notify_all to come.
THEOREM WakeupsReach == Spec => []NoLostWakeup
<1>1. Init => NoLostWakeup
  BY DEF Init, NoLostWakeup
<1>2. TypeOK /\ NoLostWakeup /\ [Next]_vars => NoLostWakeup'
  BY StepWakes
<1> QED BY <1>1, <1>2, Typed, PTL DEF Spec

-----------------------------------------------------------------------------

\* A consumer that takes an item does what Take of the atomic queue does.
LEMMA DeliverIsTake ==
    ASSUME TypeOK, NEW c \in Consumer, pc[c] # "out", Found(c), Deliver(c)
    PROVE  MQ!Take(c)
<1>1. want[c] # Nothing
  BY DEF TypeOK
<1> QED BY <1>1 DEF Found, Deliver, MQ!Take, MQ!FirstMatching, MQ!Without

\* Every step is a step of the atomic queue, or invisible to it.
LEMMA StepImplements ==
    TypeOK /\ [Next]_vars => [MQ!Next]_<<queue, want, result>>
<1> SUFFICES ASSUME TypeOK, [Next]_vars PROVE [MQ!Next]_<<queue, want, result>>
  OBVIOUS
<1>1. ASSUME NEW p \in Producer, NEW x \in Item, push(p, x) PROVE MQ!Next
  BY <1>1 DEF push, MQ!Next, MQ!Push
<1>2. ASSUME NEW c \in Consumer, NEW S \in Predicates, pop_if(c, S) PROVE MQ!Next
  <2>1. want[c] = Nothing
    BY <1>2 DEF pop_if, TypeOK
  <2>2. MQ!Ask(c, S)
    BY <1>2, <2>1 DEF pop_if, MQ!Ask
  <2> QED BY <2>2, ThreadsAssumption DEF MQ!Next
<1>3. ASSUME NEW c \in Consumer, Check(c) PROVE [MQ!Next]_<<queue, want, result>>
  <2>1. CASE Found(c)
    <3>1. MQ!Take(c)
      BY <1>3, <2>1, DeliverIsTake DEF Check
    <3> QED BY <3>1 DEF MQ!Next
  <2>2. CASE ~Found(c)
    BY <1>3, <2>2 DEF Check
  <2> QED BY <2>1, <2>2
<1>4. ASSUME NEW c \in Consumer, LastCheck(c) PROVE MQ!Next
  <2>1. CASE Found(c)
    <3>1. MQ!Take(c)
      BY <1>4, <2>1, DeliverIsTake DEF LastCheck
    <3> QED BY <3>1 DEF MQ!Next
  <2>2. CASE ~Found(c)
    <3>1. want[c] # Nothing
      BY <1>4 DEF LastCheck, TypeOK
    <3>2. MQ!GiveUp(c)
      BY <1>4, <2>2, <3>1 DEF LastCheck, ReturnEmpty, Found, MQ!GiveUp
    <3> QED BY <3>2 DEF MQ!Next
  <2> QED BY <2>1, <2>2
<1>5. ASSUME NEW p \in Producer, notify_all(p) PROVE UNCHANGED <<queue, want, result>>
  BY <1>5 DEF notify_all
<1>6. ASSUME NEW c \in Consumer, SpuriousWakeup(c) \/ Timeout(c)
      PROVE  UNCHANGED <<queue, want, result>>
  BY <1>6 DEF SpuriousWakeup, Timeout
<1>7. CASE UNCHANGED vars
  BY <1>7 DEF vars
<1> QED BY <1>1, <1>2, <1>3, <1>4, <1>5, <1>6, <1>7 DEF Next

\* BlockingQueue implements the atomic queue of MessageQueue, for any
\* threads, items and predicates: what its callers see is a sequence of
\* atomic pushes and takes.
THEOREM ImplementsAtomicQueue == Spec => AtomicQueue
<1>1. Init => MQ!Init
  BY DEF Init, MQ!Init
<1>2. TypeOK /\ [Next]_vars => [MQ!Next]_<<queue, want, result>>
  BY StepImplements
<1> QED BY <1>1, <1>2, Typed, PTL DEF Spec, AtomicQueue, MQ!Spec

=============================================================================
