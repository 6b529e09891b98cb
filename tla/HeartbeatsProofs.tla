------------------------- MODULE HeartbeatsProofs --------------------------
(***************************************************************************)
(* Proofs about Heartbeats for any storage nodes, clients and times that   *)
(* satisfy TimesAssumption: how stale availability is when it is used, why *)
(* a node that is up is given up, and how many heartbeats can wait.        *)
(***************************************************************************)
EXTENDS Heartbeats, FiniteSetTheorems, FunctionTheorems, SequenceTheorems, TLAPS

\* Since the last check an available node grew older by no more than the time
\* the worker has waited, or may handle its request.
AgeInv ==
    /\ worker.at = "pop" => worker.left <= heartbeat_check_interval
    /\ \A s \in available :
        IF worker.at = "pop"
        THEN age[s] + worker.left < heartbeat_timeout + heartbeat_check_interval
        ELSE age[s] + worker.left < heartbeat_timeout + heartbeat_check_interval + MaxHandling

\* Each heartbeat that waits in job_queue_ accounts for one heartrate of the
\* time since a node was heard of, and the first two requests of that time
\* for one MaxHandling.  Nodes are given up for their age only.
SteadyAt(s) ==
    /\ age[s] + sleep[s] <= heartrate * (Count(s) + 1)
    /\ jobs[s] = 0 => age[s] <= heartrate /\ worker.at = "pop"
    /\ jobs[s] = 1 => IF worker.at = "pop" THEN age[s] <= heartrate + MaxHandling
                      ELSE age[s] + worker.left <= heartrate + MaxHandling
    /\ s \notin available => age[s] >= heartbeat_timeout

SteadyInv == \A s \in steady : SteadyAt(s)

\* Where, and how often, e is in q between two positions.
Positions(q, lo, hi, e) == {j \in lo..hi : q[j] = e}
CountIn(q, lo, hi, e) == Cardinality(Positions(q, lo, hi, e))

\* A heartbeat may be sent before the next second.
Pending(s) == IF sleep[s] = 0 THEN 1 ELSE 0

\* The seconds the worker may yet spend on its request.
Busy == IF worker.at = "job" THEN worker.left ELSE 0

\* Each heartbeat of s from position i on took a second, the first of them
\* excepted, and there are no more seconds than the clients' requests take
\* that are not ahead of i.
BacklogAt(s, i) ==
    CountIn(job_queue, i, Len(job_queue), s) + Pending(s)
        + MaxHandling * CountIn(job_queue, 1, i - 1, "job") + Busy
      <= Clients * MaxHandling + 1

Backlog == \A s \in Storage : \A i \in 1..Len(job_queue) : BacklogAt(s, i)

BacklogInv == Waiting <= Clients /\ Backlog

\* The inductive invariant.
IInv == TypeOK /\ AgeInv /\ SteadyInv /\ BacklogInv

-----------------------------------------------------------------------------
(* Counting *)

\* The positions that are counted are finitely many.
LEMMA CountedFinite ==
    ASSUME NEW q, NEW lo \in Int, NEW hi \in Int, NEW e
    PROVE  IsFiniteSet(Positions(q, lo, hi, e))
<1>1. IsFiniteSet(lo..hi)
  BY FS_Interval
<1>2. Positions(q, lo, hi, e) \subseteq lo..hi
  BY DEF Positions
<1> QED BY <1>1, <1>2, FS_Subset

\* A count is a number.
LEMMA CountType ==
    ASSUME NEW q, NEW lo \in Int, NEW hi \in Int, NEW e
    PROVE  CountIn(q, lo, hi, e) \in Nat
BY CountedFinite, FS_CardinalityType DEF CountIn

\* Nothing is counted in an empty range.
LEMMA CountEmpty ==
    ASSUME NEW q, NEW lo \in Int, NEW hi \in Int, NEW e, hi < lo
    PROVE  CountIn(q, lo, hi, e) = 0
<1>1. Positions(q, lo, hi, e) = {}
  BY DEF Positions
<1> QED BY <1>1, FS_EmptySet DEF CountIn

\* The first position of a range is counted or not.
LEMMA CountFirst ==
    ASSUME NEW q, NEW lo \in Int, NEW hi \in Int, NEW e, lo <= hi
    PROVE  CountIn(q, lo, hi, e) = CountIn(q, lo + 1, hi, e) + (IF q[lo] = e THEN 1 ELSE 0)
<1> DEFINE S == Positions(q, lo, hi, e)
           T == Positions(q, lo + 1, hi, e)
<1>1. IsFiniteSet(T)
  BY CountedFinite
<1>2. CASE q[lo] = e
  <2>1. S = T \cup {lo} /\ lo \notin T
    BY <1>2 DEF Positions
  <2>2. Cardinality(S) = Cardinality(T) + 1
    BY <1>1, <2>1, FS_AddElement
  <2> QED BY <1>2, <2>2 DEF CountIn
<1>3. CASE q[lo] # e
  <2>1. S = T
    BY <1>3 DEF Positions
  <2>2. Cardinality(T) \in Nat
    BY <1>1, FS_CardinalityType
  <2> QED BY <1>3, <2>1, <2>2 DEF CountIn
<1> QED BY <1>2, <1>3

\* The last position of a range is counted or not.
LEMMA CountLast ==
    ASSUME NEW q, NEW lo \in Int, NEW hi \in Int, NEW e, lo <= hi
    PROVE  CountIn(q, lo, hi, e) = CountIn(q, lo, hi - 1, e) + (IF q[hi] = e THEN 1 ELSE 0)
<1> DEFINE S == Positions(q, lo, hi, e)
           T == Positions(q, lo, hi - 1, e)
<1>1. IsFiniteSet(T)
  BY CountedFinite
<1>2. CASE q[hi] = e
  <2>1. S = T \cup {hi} /\ hi \notin T
    BY <1>2 DEF Positions
  <2>2. Cardinality(S) = Cardinality(T) + 1
    BY <1>1, <2>1, FS_AddElement
  <2> QED BY <1>2, <2>2 DEF CountIn
<1>3. CASE q[hi] # e
  <2>1. S = T
    BY <1>3 DEF Positions
  <2>2. Cardinality(T) \in Nat
    BY <1>1, FS_CardinalityType
  <2> QED BY <1>3, <2>1, <2>2 DEF CountIn
<1> QED BY <1>2, <1>3

\* The same elements are counted alike.
LEMMA CountSame ==
    ASSUME NEW q, NEW p, NEW lo \in Int, NEW hi \in Int, NEW e,
           \A j \in lo..hi : q[j] = p[j]
    PROVE  CountIn(q, lo, hi, e) = CountIn(p, lo, hi, e)
<1>1. Positions(q, lo, hi, e) = Positions(p, lo, hi, e)
  BY DEF Positions
<1> QED BY <1>1 DEF CountIn

\* A count does not depend on where the elements stand.
LEMMA CountShift ==
    ASSUME NEW q, NEW p, NEW lo \in Int, NEW hi \in Int, NEW e,
           \A j \in lo..hi : q[j] = p[j + 1]
    PROVE  CountIn(q, lo, hi, e) = CountIn(p, lo + 1, hi + 1, e)
<1> DEFINE S == Positions(q, lo, hi, e)
           T == Positions(p, lo + 1, hi + 1, e)
           f == [j \in S |-> j + 1]
<1>1. IsFiniteSet(S)
  BY CountedFinite
<1>2. \A j \in S : j \in lo..hi /\ j + 1 \in T
  BY DEF Positions
<1>3. \A j \in T : j - 1 \in S /\ f[j - 1] = j
  BY DEF Positions
<1>4. f \in Bijection(S, T)
  <2>1. f \in [S -> T]
    BY <1>2
  <2>2. \A a, b \in S : f[a] = f[b] => a = b
    BY <1>2
  <2>3. \A t \in T : \E a \in S : f[a] = t
    BY <1>3
  <2> HIDE DEF f, S, T
  <2> QED BY <2>1, <2>2, <2>3, Fun_IsBij
<1>5. ExistsBijection(S, T)
  BY <1>4 DEF ExistsBijection
<1> QED BY <1>1, <1>5, FS_Bijection DEF CountIn

Event == Storage \cup {"job"}

\* A heartbeat or a request that comes is counted from every position on, and
\* before none.
LEMMA PushCounts ==
    ASSUME TypeOK, NEW x \in Event, job_queue' = Append(job_queue, x)
    PROVE  /\ job_queue' \in Seq(Event) /\ Len(job_queue') = Len(job_queue) + 1
           /\ Len(job_queue) \in Nat
           /\ job_queue'[Len(job_queue')] = x
           /\ \A i \in 1..Len(job_queue) : job_queue'[i] = job_queue[i]
           /\ \A e : \A i \in 1..Len(job_queue') :
                 /\ CountIn(job_queue', i, Len(job_queue'), e) =
                       CountIn(job_queue, i, Len(job_queue), e) + (IF x = e THEN 1 ELSE 0)
                 /\ CountIn(job_queue', 1, i - 1, e) = CountIn(job_queue, 1, i - 1, e)
<1> DEFINE q == job_queue
           p == job_queue'
<1>1. q \in Seq(Event) /\ Len(q) \in Nat
  BY LenProperties DEF TypeOK, Event
<1>2. /\ p \in Seq(Event) /\ Len(p) = Len(q) + 1 /\ p[Len(p)] = x
      /\ \A i \in 1..Len(q) : p[i] = q[i]
  BY <1>1, AppendProperties
<1>3. ASSUME NEW e, NEW i \in 1..Len(p)
      PROVE  /\ CountIn(p, i, Len(p), e) = CountIn(q, i, Len(q), e) + (IF x = e THEN 1 ELSE 0)
             /\ CountIn(p, 1, i - 1, e) = CountIn(q, 1, i - 1, e)
  <2> HIDE DEF p, q
  <2>1. i \in Int /\ Len(p) \in Int /\ i <= Len(p) /\ Len(p) - 1 = Len(q)
    BY <1>1, <1>2
  <2>2. CountIn(p, i, Len(p), e) = CountIn(p, i, Len(p) - 1, e) + (IF p[Len(p)] = e THEN 1 ELSE 0)
    BY <2>1, CountLast
  <2>3. CountIn(p, i, Len(q), e) = CountIn(q, i, Len(q), e)
    BY <1>1, <1>2, <2>1, CountSame
  <2>4. CountIn(p, 1, i - 1, e) = CountIn(q, 1, i - 1, e)
    <3>1. \A j \in 1..i - 1 : p[j] = q[j]
      BY <1>1, <1>2
    <3> QED BY <2>1, <3>1, CountSame
  <2> QED BY <1>2, <2>1, <2>2, <2>3, <2>4
<1> QED BY <1>1, <1>2, <1>3

\* Once the head of the queue is taken everything moves up by one position.
LEMMA PopCounts ==
    ASSUME TypeOK, job_queue # << >>, job_queue' = Tail(job_queue)
    PROVE  /\ job_queue' \in Seq(Event) /\ Len(job_queue') = Len(job_queue) - 1
           /\ Len(job_queue) \in Nat \ {0} /\ Head(job_queue) = job_queue[1]
           /\ Head(job_queue) \in Event
           /\ \A i \in 1..Len(job_queue') : job_queue'[i] = job_queue[i + 1]
           /\ \A e : \A i \in 1..Len(job_queue') + 1 :
                 /\ CountIn(job_queue', i, Len(job_queue'), e) =
                       CountIn(job_queue, i + 1, Len(job_queue), e)
                 /\ CountIn(job_queue, 1, i, e) =
                       CountIn(job_queue', 1, i - 1, e) + (IF Head(job_queue) = e THEN 1 ELSE 0)
<1> DEFINE q == job_queue
           p == job_queue'
<1>1. q \in Seq(Event) /\ Len(q) \in Nat \ {0}
  BY LenProperties, EmptySeq DEF TypeOK, Event
<1>2. /\ p \in Seq(Event) /\ Len(p) = Len(q) - 1 /\ Head(q) = q[1] /\ Head(q) \in Event
      /\ \A i \in 1..Len(p) : p[i] = q[i + 1]
  BY <1>1, HeadTailProperties
<1>3. ASSUME NEW e, NEW i \in 1..Len(p) + 1
      PROVE  /\ CountIn(p, i, Len(p), e) = CountIn(q, i + 1, Len(q), e)
             /\ CountIn(q, 1, i, e) = CountIn(p, 1, i - 1, e) + (IF Head(q) = e THEN 1 ELSE 0)
  <2> HIDE DEF p, q
  <2>1. i \in Int /\ Len(p) \in Int /\ Len(p) + 1 = Len(q) /\ 1 <= i /\ (i - 1) + 1 = i
    BY <1>1, <1>2
  <2>2. CountIn(p, i, Len(p), e) = CountIn(q, i + 1, Len(p) + 1, e)
    <3>1. \A j \in i..Len(p) : p[j] = q[j + 1]
      BY <1>2, <2>1
    <3> QED BY <2>1, <3>1, CountShift
  <2>3. CountIn(p, 1, i - 1, e) = CountIn(q, 1 + 1, i, e)
    <3>1. \A j \in 1..i - 1 : p[j] = q[j + 1]
      BY <1>2, <2>1
    <3>2. i - 1 \in Int /\ 1 \in Int
      BY <2>1
    <3>3. CountIn(p, 1, i - 1, e) = CountIn(q, 1 + 1, (i - 1) + 1, e)
      BY <3>1, <3>2, CountShift
    <3> QED BY <2>1, <3>3
  <2>4. CountIn(q, 1, i, e) = CountIn(q, 1 + 1, i, e) + (IF q[1] = e THEN 1 ELSE 0)
    BY <2>1, CountFirst
  <2> QED BY <1>2, <2>1, <2>2, <2>3, <2>4
<1> QED BY <1>1, <1>2, <1>3

-----------------------------------------------------------------------------
(* Types *)

\* The times are numbers.
LEMMA Times ==
    /\ heartrate \in Nat /\ heartrate > 0 /\ heartbeat_check_interval \in Nat
    /\ heartbeat_timeout \in Nat /\ MaxHandling \in Nat /\ MaxAge \in Nat /\ Clients \in Nat
    /\ heartrate + MaxHandling < heartbeat_timeout /\ heartbeat_check_interval <= MaxHandling
    /\ MaxAge = heartbeat_timeout + heartbeat_check_interval + MaxHandling
BY TimesAssumption DEF MaxHandling, MaxAge

\* Products grow by one factor at a time.
LEMMA TimesNext == \A a, b \in Nat : a * (b + 1) = a * b + a /\ a * b \in Nat
OBVIOUS

\* What a count of the whole queue is.
LEMMA CountWhole ==
    ASSUME TypeOK, NEW e
    PROVE  /\ Count(e) = CountIn(job_queue, 1, Len(job_queue), e)
           /\ Count(e) \in Nat
<1>1. Count(e) = CountIn(job_queue, 1, Len(job_queue), e)
  BY DEF Count, CountIn, Positions
<1>2. Len(job_queue) \in Nat
  BY LenProperties DEF TypeOK
<1> QED BY <1>1, <1>2, CountType

\* A count of the whole queue after the queue grew.
LEMMA CountPushed ==
    ASSUME TypeOK, NEW x \in Event, job_queue' = Append(job_queue, x), NEW e
    PROVE  Count(e)' = Count(e) + (IF x = e THEN 1 ELSE 0)
<1>1. 1 \in 1..Len(job_queue')
  BY PushCounts
<1>2. Count(e)' = CountIn(job_queue', 1, Len(job_queue'), e)
  BY DEF Count, CountIn, Positions
<1> QED BY <1>1, <1>2, PushCounts, CountWhole

\* A count of the whole queue after its head was taken.
LEMMA CountPopped ==
    ASSUME TypeOK, job_queue # << >>, job_queue' = Tail(job_queue), NEW e
    PROVE  /\ Count(e) = Count(e)' + (IF Head(job_queue) = e THEN 1 ELSE 0)
           /\ Count(e)' \in Nat
<1>1. /\ Len(job_queue) \in 1..Len(job_queue') + 1
      /\ Len(job_queue) - 1 = Len(job_queue') /\ Len(job_queue') \in Nat
  BY PopCounts
<1>2. Count(e)' = CountIn(job_queue', 1, Len(job_queue'), e)
  BY DEF Count, CountIn, Positions
<1> QED BY <1>1, <1>2, PopCounts, CountWhole, CountType

\* What the types say of each field.
LEMMA Fields ==
    ASSUME TypeOK
    PROVE  /\ worker.at \in {"pop", "job"} /\ worker.left \in Nat /\ worker.left <= MaxHandling
           /\ worker = [at |-> worker.at, left |-> worker.left]
           /\ \A s \in Storage :
                 /\ sleep[s] \in Nat /\ sleep[s] <= heartrate
                 /\ age[s] \in Nat /\ age[s] <= MaxAge /\ jobs[s] \in {0, 1, 2}
<1> USE Times
<1>1. worker \in [at : {"pop", "job"}, left : 0..MaxHandling]
  BY DEF TypeOK
<1>2. /\ worker.at \in {"pop", "job"} /\ worker.left \in 0..MaxHandling
      /\ worker = [at |-> worker.at, left |-> worker.left]
  BY <1>1
<1>3. \A s \in Storage : sleep[s] \in 0..heartrate /\ age[s] \in 0..MaxAge /\ jobs[s] \in 0..2
  BY DEF TypeOK
<1>4. 0..2 = {0, 1, 2}
  OBVIOUS
<1> QED BY <1>2, <1>3, <1>4

\* A request that is taken keeps the worker busy and counts for every node.
LEMMA TakeFacts ==
    ASSUME TypeOK, TakeJob
    PROVE  /\ worker'.at = "job" /\ worker'.left \in 0..MaxHandling
           /\ worker' = [at |-> "job", left |-> worker'.left]
           /\ jobs' \in [Storage -> {0, 1, 2}]
           /\ \A s \in Storage : jobs'[s] # 0 /\ (jobs'[s] = 1 => jobs[s] = 0)
<1>1. PICK d \in 0..MaxHandling : worker' = [at |-> "job", left |-> d]
  BY DEF TakeJob
<1>2. jobs' = [s \in Storage |-> IF jobs[s] < 2 THEN jobs[s] + 1 ELSE 2]
  BY DEF TakeJob
<1>3. \A s \in Storage : jobs[s] \in {0, 1, 2}
  BY Fields
<1>4. \A s \in Storage : (IF jobs[s] < 2 THEN jobs[s] + 1 ELSE 2) \in {1, 2}
  BY <1>3
<1>5. \A s \in Storage : jobs'[s] \in {1, 2} /\ (jobs'[s] = 1 => jobs[s] = 0)
  BY <1>2, <1>3, <1>4
<1>6. jobs' \in [Storage -> {0, 1, 2}]
  BY <1>2, <1>4
<1> QED BY <1>1, <1>5, <1>6

\* The worker after a second.
LEMMA TickFacts ==
    ASSUME TypeOK, Tick
    PROVE  /\ worker' = [at |-> worker.at, left |-> worker.left - 1]
           /\ worker'.at = worker.at /\ worker'.left = worker.left - 1
           /\ worker.left > 0
<1>1. worker' = [worker EXCEPT !.left = worker.left - 1]
  BY DEF Tick
<1>2. worker = [at |-> worker.at, left |-> worker.left]
  BY Fields
<1>3. worker' = [at |-> worker.at, left |-> worker.left - 1]
  BY <1>1, <1>2
<1> QED BY <1>3 DEF Tick

\* The state is well typed at first.
LEMMA InitTyped == Init => TypeOK
<1> SUFFICES ASSUME Init PROVE TypeOK
  OBVIOUS
<1>1. worker \in [at : {"pop", "job"}, left : 0..MaxHandling]
  BY Times DEF Init
<1>2. job_queue \in Seq(Storage \cup {"job"})
  BY EmptySeq DEF Init
<1> QED BY <1>1, <1>2, Times DEF Init, TypeOK

\* Every step keeps the types.
LEMMA StepTyped == TypeOK /\ [Next]_vars => TypeOK'
<1> SUFFICES ASSUME TypeOK, [Next]_vars PROVE TypeOK'
  OBVIOUS
<1> USE Times
<1>1. Pop \in [at : {"pop", "job"}, left : 0..MaxHandling]
  BY DEF Pop
<1>2. ASSUME NEW s \in Storage, Start(s) PROVE TypeOK'
  BY <1>2 DEF Start, TypeOK
<1>3. ASSUME NEW s \in Storage, Silence(s) PROVE TypeOK'
  BY <1>3 DEF Silence, TypeOK
<1>4. ASSUME NEW s \in Storage, beat(s) PROVE TypeOK'
  <2>1. job_queue' \in Seq(Event)
    BY <1>4, PushCounts DEF beat, Event
  <2> QED BY <1>4, <2>1 DEF beat, NextBeat, TypeOK, Event
<1>5. ASSUME push_worker_job PROVE TypeOK'
  <2>1. job_queue' \in Seq(Event)
    BY <1>5, PushCounts DEF push_worker_job, Event
  <2>2. requests' \in 0..Clients
    BY <1>5 DEF push_worker_job, TypeOK
  <2> QED BY <1>5, <2>1, <2>2 DEF push_worker_job, TypeOK, Event
<1>6. ASSUME handle_heartbeat PROVE TypeOK'
  <2>1. job_queue' \in Seq(Event) /\ Head(job_queue) \in Storage
    BY <1>6, PopCounts DEF handle_heartbeat, Event
  <2>2. available' \subseteq known' /\ known' \subseteq Storage
    BY <1>6, <2>1 DEF handle_heartbeat, check_heartbeat_timeouts, TypeOK
  <2>3. age' \in [Storage -> 0..MaxAge] /\ jobs' \in [Storage -> 0..2]
    BY <1>6, <2>1 DEF handle_heartbeat, TypeOK
  <2> QED BY <1>1, <1>6, <2>1, <2>2, <2>3 DEF handle_heartbeat, TypeOK, Event
<1>7. ASSUME TakeJob PROVE TypeOK'
  <2>1. job_queue' \in Seq(Event)
    BY <1>7, PopCounts DEF TakeJob
  <2>2. worker' \in [at : {"pop", "job"}, left : 0..MaxHandling]
    BY <1>7 DEF TakeJob
  <2>3. jobs' \in [Storage -> 0..2]
    <3>1. 0..2 = {0, 1, 2}
      OBVIOUS
    <3> QED BY <1>7, <3>1, TakeFacts
  <2> QED BY <1>7, <2>1, <2>2, <2>3 DEF TakeJob, TypeOK, Event
<1>8. ASSUME FinishJob PROVE TypeOK'
  BY <1>1, <1>8 DEF FinishJob, AfterJob, check_heartbeat_timeouts, TypeOK
<1>9. ASSUME PopTimeout PROVE TypeOK'
  BY <1>1, <1>9 DEF PopTimeout, check_heartbeat_timeouts, TypeOK
<1>10. ASSUME Tick PROVE TypeOK'
  <2>1. worker' \in [at : {"pop", "job"}, left : 0..MaxHandling]
    BY <1>10, Fields, TickFacts
  <2>2. sleep' \in [Storage -> 0..heartrate]
    BY <1>10 DEF Tick, TypeOK
  <2>3. age' \in [Storage -> 0..MaxAge]
    BY <1>10 DEF Tick, TypeOK
  <2> QED BY <1>10, <2>1, <2>2, <2>3 DEF Tick, TypeOK
<1>11. ASSUME UNCHANGED vars PROVE TypeOK'
  BY <1>11 DEF vars, TypeOK
<1> QED BY <1>2, <1>3, <1>4, <1>5, <1>6, <1>7, <1>8, <1>9, <1>10, <1>11 DEF Next, WorkerStep

-----------------------------------------------------------------------------
(* How old an available node is *)

\* AgeInv at first.
LEMMA InitAge == Init => AgeInv
BY Times DEF Init, AgeInv

\* What Pop is.
LEMMA PopFacts == Pop.at = "pop" /\ Pop.left = heartbeat_check_interval
BY DEF Pop

\* Every step keeps AgeInv: a check leaves only nodes younger than the
\* timeout, and time passes only while the worker's own time runs off.
LEMMA StepAge == TypeOK /\ AgeInv /\ [Next]_vars => AgeInv'
<1> SUFFICES ASSUME TypeOK, AgeInv, [Next]_vars PROVE AgeInv'
  OBVIOUS
<1> USE Times
<1>1. ASSUME UNCHANGED <<worker, age, available>> PROVE AgeInv'
  BY <1>1 DEF AgeInv
<1>2. ASSUME worker' = Pop, age' \in [Storage -> Nat], NEW avail \in SUBSET Storage,
             available' = check_heartbeat_timeouts(avail, age')
      PROVE  AgeInv'
  <2>1. worker'.at = "pop" /\ worker'.left = heartbeat_check_interval
    BY <1>2, PopFacts
  <2>2. \A s \in available' : s \in Storage /\ age'[s] \in Nat /\ age'[s] < heartbeat_timeout
    BY <1>2 DEF check_heartbeat_timeouts
  <2> QED BY <2>1, <2>2 DEF AgeInv
<1>3. available \subseteq Storage /\ age \in [Storage -> Nat]
  BY DEF TypeOK
<1>4. ASSUME handle_heartbeat PROVE AgeInv'
  <2>1. Head(job_queue) \in Storage
    BY <1>4, PopCounts DEF handle_heartbeat, Event
  <2>2. available \cup {Head(job_queue)} \in SUBSET Storage /\ age' \in [Storage -> Nat]
    BY <1>3, <1>4, <2>1 DEF handle_heartbeat
  <2> QED BY <1>2, <1>4, <2>2 DEF handle_heartbeat
<1>5. ASSUME TakeJob PROVE AgeInv'
  <2>1. worker'.at = "job" /\ worker'.left \in 0..MaxHandling
    BY <1>5, TakeFacts
  <2>2. \A s \in available : /\ age[s] \in Nat /\ worker.left \in Nat
                             /\ age[s] + worker.left < heartbeat_timeout + heartbeat_check_interval
    BY <1>3, <1>5, Fields DEF TakeJob, AgeInv
  <2>3. UNCHANGED <<age, available>>
    BY <1>5 DEF TakeJob
  <2> QED BY <2>1, <2>2, <2>3 DEF AgeInv
<1>6. ASSUME FinishJob PROVE AgeInv'
  BY <1>2, <1>3, <1>6 DEF FinishJob, AfterJob
<1>7. ASSUME PopTimeout PROVE AgeInv'
  BY <1>2, <1>3, <1>7 DEF PopTimeout
<1>8. ASSUME Tick PROVE AgeInv'
  <2>1. worker'.at = worker.at /\ worker'.left = worker.left - 1 /\ worker.left \in Nat
    BY <1>8, Fields, TickFacts
  <2>2. available' = available
    BY <1>8 DEF Tick
  <2>3. \A s \in Storage : age[s] \in Nat /\ (age'[s] = age[s] \/ age'[s] = age[s] + 1)
    BY <1>3, <1>8 DEF Tick
  <2> QED BY <1>3, <2>1, <2>2, <2>3 DEF AgeInv
<1>9. ASSUME NEW s \in Storage, Start(s) \/ Silence(s) \/ beat(s) PROVE AgeInv'
  BY <1>1, <1>9 DEF Start, Silence, beat
<1>10. ASSUME push_worker_job \/ UNCHANGED vars PROVE AgeInv'
  BY <1>1, <1>10 DEF push_worker_job, vars
<1> QED BY <1>4, <1>5, <1>6, <1>7, <1>8, <1>9, <1>10 DEF Next, WorkerStep

-----------------------------------------------------------------------------
(* Why a node that is up is given up *)

-----------------------------------------------------------------------------
(* Why a node that is up is given up *)

\* No node is known at first.
LEMMA InitSteady == Init => SteadyInv
BY DEF Init, SteadyInv

\* A count depends on the queue only.
LEMMA CountKept ==
    ASSUME UNCHANGED job_queue, NEW e
    PROVE  Count(e)' = Count(e)
BY DEF Count

\* A heartbeat is sent: the sleep that begins is paid for by the heartbeat.
LEMMA BeatSteady ==
    ASSUME TypeOK, SteadyInv, NEW r \in Storage, beat(r)
    PROVE  SteadyInv'
<1> USE Times
<1> SUFFICES ASSUME NEW s \in steady PROVE SteadyAt(s)'
  BY DEF beat, SteadyInv
<1>1. /\ s \in Storage /\ SteadyAt(s) /\ Count(s) \in Nat
      /\ sleep[s] \in Nat /\ age[s] \in Nat
  BY Fields, CountWhole DEF SteadyInv, TypeOK
<1>2. Count(s)' = Count(s) + (IF r = s THEN 1 ELSE 0)
  BY CountPushed DEF beat, Event
<1>3. age'[s] + sleep'[s] <= heartrate * (Count(s)' + 1)
  <2>1. CASE r = s
    <3>1. sleep[s] = 0 /\ sleep'[s] = heartrate /\ age'[s] = age[s]
      BY <1>1, <2>1 DEF beat, NextBeat, TypeOK
    <3>2. heartrate * (Count(s)' + 1) = heartrate * (Count(s) + 1) + heartrate
      BY <1>1, <1>2, <2>1, TimesNext
    <3>3. age[s] <= heartrate * (Count(s) + 1) /\ heartrate * (Count(s) + 1) \in Nat
      BY <1>1, <3>1, TimesNext DEF SteadyAt
    <3> QED BY <1>1, <3>1, <3>2, <3>3
  <2>2. CASE r # s
    <3>1. sleep'[s] = sleep[s] /\ age'[s] = age[s] /\ Count(s)' = Count(s)
      BY <1>1, <1>2, <2>2 DEF beat, TypeOK
    <3> QED BY <1>1, <3>1 DEF SteadyAt
  <2> QED BY <2>1, <2>2
<1>4. UNCHANGED <<age, jobs, worker, available>>
  BY DEF beat
<1> QED BY <1>1, <1>3, <1>4 DEF SteadyAt

\* A heartbeat is handled: its node starts anew, and no other loses one.
LEMMA HandleSteady ==
    ASSUME TypeOK, SteadyInv, handle_heartbeat
    PROVE  SteadyInv'
<1> USE Times
<1> DEFINE h == Head(job_queue)
<1>1. h \in Storage
  BY PopCounts DEF handle_heartbeat, Event
<1>2. worker'.at = "pop" /\ worker.at = "pop"
  BY PopFacts DEF handle_heartbeat
<1>3. /\ age' = [age EXCEPT ![h] = 0] /\ jobs' = [jobs EXCEPT ![h] = 0] /\ sleep' = sleep
      /\ steady' \subseteq steady \cup {h}
      /\ available' = {s \in available \cup {h} : age'[s] < heartbeat_timeout}
  BY DEF handle_heartbeat, check_heartbeat_timeouts
<1> SUFFICES ASSUME NEW s \in steady' PROVE SteadyAt(s)'
  BY DEF SteadyInv
<1>4. s \in Storage
  BY <1>1, <1>3 DEF TypeOK
<1>5. /\ sleep[s] \in Nat /\ sleep[s] <= heartrate /\ age[s] \in Nat
      /\ Count(s) \in Nat /\ Count(s)' \in Nat
      /\ Count(s) = Count(s)' + (IF h = s THEN 1 ELSE 0)
  BY <1>4, Fields, CountWhole, CountPopped DEF handle_heartbeat
<1> HIDE DEF h
<1>6. CASE s = h
  <2>1. age'[s] = 0 /\ jobs'[s] = 0
    BY <1>3, <1>4, <1>6 DEF TypeOK
  <2>2. heartrate * (Count(s)' + 1) = heartrate * Count(s)' + heartrate /\ heartrate * Count(s)' \in Nat
    BY <1>5, TimesNext
  <2>3. s \in available'
    BY <1>3, <1>6, <2>1
  <2> QED BY <1>2, <1>3, <1>5, <2>1, <2>2, <2>3 DEF SteadyAt
<1>7. CASE s # h
  <2>1. age'[s] = age[s] /\ jobs'[s] = jobs[s] /\ sleep'[s] = sleep[s] /\ Count(s)' = Count(s)
    BY <1>3, <1>4, <1>5, <1>7 DEF TypeOK
  <2>2. SteadyAt(s)
    BY <1>3, <1>7 DEF SteadyInv
  <2>3. s \notin available' => age[s] >= heartbeat_timeout
    BY <1>3, <1>5, <2>1, <2>2 DEF SteadyAt
  <2> QED BY <1>2, <2>1, <2>2, <2>3 DEF SteadyAt
<1> QED BY <1>6, <1>7

\* A second passes: a node that is up sleeps, and while the worker waits no
\* heartbeat does.
LEMMA TickSteady ==
    ASSUME TypeOK, SteadyInv, Tick
    PROVE  SteadyInv'
<1> USE Times
<1> SUFFICES ASSUME NEW s \in steady PROVE SteadyAt(s)'
  BY DEF Tick, SteadyInv
<1>1. /\ s \in Storage /\ s \in alive /\ SteadyAt(s) /\ Count(s) \in Nat
      /\ sleep[s] \in Nat /\ age[s] \in Nat /\ worker.left \in Nat /\ worker.at \in {"pop", "job"}
  BY Fields, CountWhole DEF SteadyInv, TypeOK
<1>2. /\ worker'.at = worker.at /\ worker'.left = worker.left - 1
      /\ sleep[s] > 0 /\ sleep'[s] = sleep[s] - 1
      /\ age'[s] = age[s] \/ age'[s] = age[s] + 1
      /\ UNCHANGED <<jobs, available>>
  BY <1>1, TickFacts DEF Tick
<1>3. Count(s)' = Count(s)
  BY CountKept DEF Tick
<1>4. age'[s] + sleep'[s] <= age[s] + sleep[s]
  BY <1>1, <1>2
<1>5. heartrate * (Count(s) + 1) \in Nat
  BY <1>1
<1>6. age'[s] + sleep'[s] <= heartrate * (Count(s)' + 1)
  BY <1>1, <1>2, <1>3, <1>4, <1>5 DEF SteadyAt
<1>7. worker.at = "pop" => age'[s] <= heartrate
  <2> HAVE worker.at = "pop"
  <2>1. job_queue = << >>
    BY DEF Tick
  <2>2. Count(s) = 0
    <3>1. Len(job_queue) = 0
      BY <2>1, EmptySeq
    <3> QED BY <3>1, CountWhole, CountEmpty
  <2>3. heartrate * (0 + 1) = heartrate
    OBVIOUS
  <2>4. age[s] + sleep[s] <= heartrate
    BY <1>1, <2>2, <2>3 DEF SteadyAt
  <2> QED BY <1>1, <1>2, <2>4
<1>8. SteadyAt(s)
  BY <1>1
<1>9. worker.at = "job" => age'[s] + worker'.left <= age[s] + worker.left
  BY <1>1, <1>2
<1>10. age'[s] \in Nat /\ age'[s] >= age[s] /\ worker'.left \in Int
  BY <1>1, <1>2
<1> QED BY <1>1, <1>2, <1>6, <1>7, <1>8, <1>9, <1>10 DEF SteadyAt

\* Every step keeps SteadyInv.
LEMMA StepSteady == TypeOK /\ SteadyInv /\ [Next]_vars => SteadyInv'
<1> SUFFICES ASSUME TypeOK, SteadyInv, [Next]_vars PROVE SteadyInv'
  OBVIOUS
<1> USE Times
<1>1. ASSUME steady' \subseteq steady, \A s \in steady' : sleep'[s] = sleep[s],
             \A s \in steady' : Count(s)' = Count(s), UNCHANGED <<age, jobs, worker, available>>
      PROVE  SteadyInv'
  BY <1>1 DEF SteadyInv, SteadyAt
<1>2. ASSUME NEW s \in Storage, Start(s) PROVE SteadyInv'
  BY <1>1, <1>2, CountKept DEF Start
<1>3. ASSUME NEW s \in Storage, Silence(s) PROVE SteadyInv'
  <2>1. \A r \in steady' : sleep'[r] = sleep[r]
    BY <1>3 DEF Silence, TypeOK
  <2> QED BY <1>1, <1>3, <2>1, CountKept DEF Silence
<1>4. ASSUME push_worker_job PROVE SteadyInv'
  <2>1. \A s \in steady : Count(s)' = Count(s)
    <3> TAKE s \in steady
    <3>1. s # "job" /\ Count(s) \in Nat
      BY TimesAssumption, CountWhole DEF TypeOK
    <3>2. Count(s)' = Count(s) + (IF "job" = s THEN 1 ELSE 0)
      BY <1>4, CountPushed DEF push_worker_job, Event
    <3> QED BY <3>1, <3>2
  <2> QED BY <1>1, <1>4, <2>1 DEF push_worker_job
<1>5. ASSUME TakeJob PROVE SteadyInv'
  <2> SUFFICES ASSUME NEW s \in steady PROVE SteadyAt(s)'
    BY <1>5 DEF TakeJob, SteadyInv
  <2>1. s \in Storage /\ SteadyAt(s) /\ Count(s) \in Nat /\ age[s] \in Nat /\ s # "job"
    BY TimesAssumption, Fields, CountWhole DEF SteadyInv, TypeOK
  <2>3. Count(s)' = Count(s)
    BY <1>5, <2>1, CountPopped DEF TakeJob
  <2>4. /\ worker'.at = "job" /\ worker'.left \in 0..MaxHandling
        /\ jobs'[s] # 0 /\ (jobs'[s] = 1 => jobs[s] = 0)
    BY <1>5, <2>1, TakeFacts
  <2>5. UNCHANGED <<age, sleep, available>>
    BY <1>5 DEF TakeJob
  <2>6. jobs'[s] = 1 => age[s] + worker'.left <= heartrate + MaxHandling
    BY <2>1, <2>4 DEF SteadyAt
  <2> QED BY <2>1, <2>3, <2>4, <2>5, <2>6 DEF SteadyAt
<1>6. ASSUME worker' = Pop, worker.at = "pop" \/ worker.left = 0,
             available' = check_heartbeat_timeouts(available, age),
             UNCHANGED <<alive, sleep, job_queue, requests, known, age, jobs, steady>>
      PROVE  SteadyInv'
  <2> SUFFICES ASSUME NEW s \in steady PROVE SteadyAt(s)'
    BY <1>6 DEF SteadyInv
  <2>1. s \in Storage /\ SteadyAt(s) /\ age[s] \in Nat /\ worker.left \in Nat
    BY Fields DEF SteadyInv, TypeOK
  <2>2. worker'.at = "pop" /\ Count(s)' = Count(s)
    BY <1>6, PopFacts, CountKept
  <2>3. s \notin available' => age[s] >= heartbeat_timeout
    BY <1>6, <2>1 DEF SteadyAt, check_heartbeat_timeouts
  <2>4. jobs[s] = 1 => age[s] <= heartrate + MaxHandling
    BY <1>6, <2>1 DEF SteadyAt
  <2> QED BY <1>6, <2>1, <2>2, <2>3, <2>4 DEF SteadyAt
<1>7. ASSUME FinishJob PROVE SteadyInv'
  BY <1>6, <1>7 DEF FinishJob, AfterJob
<1>8. ASSUME PopTimeout PROVE SteadyInv'
  BY <1>6, <1>8 DEF PopTimeout
<1>9. ASSUME UNCHANGED vars PROVE SteadyInv'
  BY <1>1, <1>9, CountKept DEF vars
<1> QED BY <1>2, <1>3, <1>4, <1>5, <1>7, <1>8, <1>9, BeatSteady, HandleSteady, TickSteady
        DEF Next, WorkerStep

-----------------------------------------------------------------------------
(* How many heartbeats wait *)

\* No request and no heartbeat waits at first.
LEMMA InitBacklog == Init => BacklogInv
<1> SUFFICES ASSUME Init PROVE BacklogInv
  OBVIOUS
<1>1. Len(job_queue) = 0 /\ worker.at = "pop"
  BY EmptySeq DEF Init
<1>2. Count("job") = 0
  BY <1>1, InitTyped, CountWhole, CountEmpty
<1> QED BY <1>1, <1>2, Times DEF BacklogInv, Backlog, Waiting

\* The sum that BacklogAt bounds is one of numbers.
LEMMA BacklogTypes ==
    ASSUME TypeOK, NEW s \in Storage, NEW i \in Nat
    PROVE  /\ Len(job_queue) \in Nat
           /\ CountIn(job_queue, i, Len(job_queue), s) \in Nat
           /\ CountIn(job_queue, 1, i - 1, "job") \in Nat
           /\ MaxHandling * CountIn(job_queue, 1, i - 1, "job") \in Nat
           /\ Pending(s) \in Nat /\ Busy \in Nat /\ Busy <= MaxHandling
           /\ Clients * MaxHandling \in Nat
<1>1. Len(job_queue) \in Nat
  BY LenProperties DEF TypeOK
<1>2. CountIn(job_queue, i, Len(job_queue), s) \in Nat
  BY <1>1, CountType
<1>3. CountIn(job_queue, 1, i - 1, "job") \in Nat
  BY CountType
<1>4. /\ MaxHandling * CountIn(job_queue, 1, i - 1, "job") \in Nat
      /\ Clients * MaxHandling \in Nat
  BY <1>3, Times, TimesNext
<1>5. Pending(s) \in Nat
  BY DEF Pending
<1>6. Busy \in Nat /\ Busy <= MaxHandling
  BY Fields, Times DEF Busy
<1> QED BY <1>1, <1>2, <1>3, <1>4, <1>5, <1>6

\* Every step keeps the number of clients that wait.
LEMMA StepWaiting == TypeOK /\ Waiting <= Clients /\ [Next]_vars => (Waiting <= Clients)'
<1> SUFFICES ASSUME TypeOK, Waiting <= Clients, [Next]_vars PROVE (Waiting <= Clients)'
  OBVIOUS
<1> USE Times
<1>1. Count("job") \in Nat /\ worker.at \in {"pop", "job"}
  BY CountWhole, Fields
<1>2. ASSUME Count("job")' = Count("job"), worker'.at = worker.at \/ worker'.at = "pop"
      PROVE  (Waiting <= Clients)'
  BY <1>1, <1>2 DEF Waiting
<1>3. ASSUME NEW s \in Storage, beat(s) PROVE (Waiting <= Clients)'
  <2>1. Count("job")' = Count("job")
    BY <1>1, <1>3, CountPushed, TimesAssumption DEF beat, Event
  <2> QED BY <1>2, <1>3, <2>1 DEF beat
<1>4. ASSUME push_worker_job PROVE (Waiting <= Clients)'
  <2>1. Count("job")' = Count("job") + 1
    BY <1>4, CountPushed DEF push_worker_job, Event
  <2> QED BY <1>1, <1>4, <2>1 DEF push_worker_job, Waiting
<1>5. ASSUME handle_heartbeat PROVE (Waiting <= Clients)'
  <2>1. Count("job")' = Count("job")
    BY <1>5, CountPopped DEF handle_heartbeat
  <2> QED BY <1>2, <1>5, <2>1, PopFacts DEF handle_heartbeat
<1>6. ASSUME TakeJob PROVE (Waiting <= Clients)'
  <2>1. Count("job") = Count("job")' + 1 /\ Count("job")' \in Nat
    BY <1>6, CountPopped DEF TakeJob
  <2>2. worker.at = "pop" /\ worker'.at = "job"
    BY <1>6, TakeFacts DEF TakeJob
  <2> QED BY <2>1, <2>2 DEF Waiting
<1>7. ASSUME UNCHANGED job_queue, worker'.at = worker.at \/ worker'.at = "pop"
      PROVE  (Waiting <= Clients)'
  BY <1>2, <1>7, CountKept
<1>8. ASSUME NEW s \in Storage, Start(s) \/ Silence(s) PROVE (Waiting <= Clients)'
  BY <1>7, <1>8 DEF Start, Silence
<1>9. ASSUME FinishJob \/ PopTimeout PROVE (Waiting <= Clients)'
  BY <1>7, <1>9, PopFacts DEF FinishJob, AfterJob, PopTimeout
<1>10. ASSUME Tick PROVE (Waiting <= Clients)'
  BY <1>7, <1>10, TickFacts DEF Tick
<1>11. ASSUME UNCHANGED vars PROVE (Waiting <= Clients)'
  BY <1>7, <1>11 DEF vars
<1> QED BY <1>3, <1>4, <1>5, <1>6, <1>8, <1>9, <1>10, <1>11 DEF Next, WorkerStep

\* A step that leaves the queue alone keeps the bound, if the seconds it adds
\* are taken from the worker's.
LEMMA KeptBacklog ==
    ASSUME TypeOK, TypeOK', Backlog, UNCHANGED job_queue,
           \A s \in Storage : Pending(s)' + Busy' <= Pending(s) + Busy
    PROVE  Backlog'
<1> SUFFICES ASSUME NEW s \in Storage, NEW i \in 1..Len(job_queue)
             PROVE  BacklogAt(s, i)'
  BY DEF Backlog
<1>1. BacklogAt(s, i) /\ i \in Nat
  BY DEF Backlog
<1>2. Pending(s)' \in Nat /\ Busy' \in Nat
  BY Fields DEF Pending, Busy, TypeOK
<1> DEFINE a == CountIn(job_queue, i, Len(job_queue), s)
           c == MaxHandling * CountIn(job_queue, 1, i - 1, "job")
           k == Clients * MaxHandling
<1>3. a \in Nat /\ c \in Nat /\ k \in Nat /\ Pending(s) \in Nat /\ Busy \in Nat
  BY <1>1, BacklogTypes
<1>4. a + Pending(s) + c + Busy <= k + 1
  BY <1>1 DEF BacklogAt
<1> HIDE DEF a, c, k
<1>5. a + Pending(s)' + c + Busy' <= k + 1
  BY <1>2, <1>3, <1>4
<1> QED BY <1>5 DEF BacklogAt, a, c, k

\* The requests that wait, with the one the worker is busy with, do not take
\* longer than one request of each client.
LEMMA AllRequests ==
    ASSUME TypeOK, Waiting <= Clients
    PROVE  /\ MaxHandling * Count("job") \in Nat
           /\ MaxHandling * Count("job") + Busy <= Clients * MaxHandling
<1> USE Times
<1>1. Count("job") \in Nat /\ Waiting \in Nat /\ Waiting <= Clients
  BY CountWhole DEF Waiting
<1>2. /\ Busy \in Nat /\ Busy <= MaxHandling /\ (worker.at # "job" => Busy = 0)
      /\ Waiting = Count("job") + (IF worker.at = "job" THEN 1 ELSE 0)
  BY Fields DEF Busy, Waiting
<1>3. MaxHandling * Waiting <= Clients * MaxHandling
  BY <1>1
<1>4. MaxHandling * Count("job") + Busy <= MaxHandling * Waiting
  <2>1. CASE worker.at = "job"
    BY <1>1, <1>2, <2>1, TimesNext
  <2>2. CASE worker.at # "job"
    <3>1. Waiting = Count("job")
      BY <1>1, <1>2, <2>2
    <3> QED BY <1>1, <1>2, <2>2, <3>1, TimesNext
  <2> QED BY <2>1, <2>2
<1>5. MaxHandling * Count("job") \in Nat /\ MaxHandling * Waiting \in Nat /\ Clients * MaxHandling \in Nat
  BY <1>1, TimesNext
<1> DEFINE m == MaxHandling * Count("job")
           w == MaxHandling * Waiting
           k == Clients * MaxHandling
<1> HIDE DEF m, w, k
<1>6. m \in Nat /\ w \in Nat /\ k \in Nat /\ m + Busy <= w /\ w <= k
  BY <1>3, <1>4, <1>5 DEF m, w, k
<1>7. m + Busy <= k
  BY <1>2, <1>6
<1> QED BY <1>5, <1>7 DEF m, k

\* An event that comes is behind the clients' requests.  If it is a heartbeat
\* it was the one that could be sent before the next second.
LEMMA PushBacklog ==
    ASSUME TypeOK, BacklogInv, NEW x \in Event, job_queue' = Append(job_queue, x),
           UNCHANGED worker,
           \A s \in Storage : IF s = x THEN Pending(s) = 1 /\ Pending(s)' = 0
                             ELSE Pending(s)' = Pending(s)
    PROVE  Backlog'
<1> USE Times
<1> SUFFICES ASSUME NEW s \in Storage, NEW i \in 1..Len(job_queue')
             PROVE  BacklogAt(s, i)'
  BY DEF Backlog
<1>1. Busy' = Busy
  BY DEF Busy
<1>2. i \in Nat /\ Len(job_queue) \in Nat /\ Len(job_queue') = Len(job_queue) + 1
  BY PushCounts
<1> DEFINE a == CountIn(job_queue, i, Len(job_queue), s)
           aa == CountIn(job_queue', i, Len(job_queue'), s)
           c == MaxHandling * CountIn(job_queue, 1, i - 1, "job")
           k == Clients * MaxHandling
<1>3. /\ aa = a + (IF x = s THEN 1 ELSE 0)
      /\ CountIn(job_queue', 1, i - 1, "job") = CountIn(job_queue, 1, i - 1, "job")
  BY PushCounts
<1>4. a \in Nat /\ c \in Nat /\ k \in Nat /\ Busy \in Nat
  BY <1>2, BacklogTypes
<1>5. Pending(s) \in {0, 1} /\ Pending(s)' \in {0, 1} /\ (s = x => Pending(s) = 1 /\ Pending(s)' = 0)
      /\ (s # x => Pending(s)' = Pending(s))
  BY DEF Pending
<1>6. aa + Pending(s)' = a + Pending(s) /\ aa \in Nat
  <2> HIDE DEF a, aa
  <2> QED BY <1>3, <1>4, <1>5
<1>7. SUFFICES aa + Pending(s)' + c + Busy <= k + 1
  BY <1>1, <1>3 DEF BacklogAt
<1>8. a + Pending(s) + c + Busy <= k + 1
  <2>1. CASE i \in 1..Len(job_queue)
    BY <2>1 DEF BacklogInv, Backlog, BacklogAt
  <2>2. CASE i = Len(job_queue')
    <3>1. a = 0
      BY <1>2, <2>2, CountEmpty
    <3>2. c = MaxHandling * Count("job")
      BY <1>2, <2>2, CountWhole
    <3>3. c + Busy <= k
      BY <3>2, AllRequests DEF BacklogInv
    <3> HIDE DEF a, c, k
    <3> QED BY <1>4, <1>5, <3>1, <3>3
  <2> QED BY <1>2, <2>1, <2>2
<1> HIDE DEF a, aa, c, k
<1> QED BY <1>4, <1>5, <1>6, <1>8

\* When a request is taken its share of the bound becomes the worker's; a
\* heartbeat that is taken has none.
LEMMA PopBacklog ==
    ASSUME TypeOK, TypeOK', BacklogInv, handle_heartbeat \/ TakeJob
    PROVE  Backlog'
<1> USE Times
<1> SUFFICES ASSUME NEW s \in Storage, NEW i \in 1..Len(job_queue')
             PROVE  BacklogAt(s, i)'
  BY DEF Backlog
<1>1. job_queue # << >> /\ job_queue' = Tail(job_queue) /\ Pending(s)' = Pending(s)
  BY DEF handle_heartbeat, TakeJob, Pending
<1>2. Busy = 0 /\ Busy' \in Nat /\ Busy' <= (IF Head(job_queue) = "job" THEN MaxHandling ELSE 0)
  <2>1. CASE handle_heartbeat
    BY <2>1, PopFacts DEF handle_heartbeat, Busy
  <2>2. CASE TakeJob
    BY <2>2, TakeFacts DEF TakeJob, Busy
  <2> QED BY <2>1, <2>2
<1>3. /\ i + 1 \in 1..Len(job_queue)
      /\ i \in Nat /\ i \in 1..Len(job_queue') + 1 /\ (i + 1) - 1 = i
  BY <1>1, PopCounts
<1> DEFINE a == CountIn(job_queue, i + 1, Len(job_queue), s)
           n == CountIn(job_queue, 1, i, "job")
           nn == CountIn(job_queue', 1, i - 1, "job")
           k == Clients * MaxHandling
<1>4. /\ CountIn(job_queue', i, Len(job_queue'), s) = a
      /\ n = nn + (IF Head(job_queue) = "job" THEN 1 ELSE 0)
  BY <1>1, <1>3, PopCounts
<1>5. a \in Nat /\ n \in Nat /\ nn \in Nat /\ k \in Nat /\ Pending(s) \in Nat
  <2>1. i + 1 \in Nat /\ i \in Int /\ i - 1 \in Int /\ 1 \in Int
    BY <1>3
  <2>2. k \in Nat /\ Pending(s) \in Nat /\ a \in Nat
    BY <2>1, BacklogTypes
  <2>3. n \in Nat /\ nn \in Nat
    BY <2>1, CountType
  <2> QED BY <2>2, <2>3
<1>6. a + Pending(s) + MaxHandling * n + Busy <= k + 1
  BY <1>3 DEF BacklogInv, Backlog, BacklogAt
<1> HIDE DEF a, n, nn, k
<1>7. MaxHandling * nn \in Nat /\ MaxHandling * n \in Nat
  BY <1>5, TimesNext
<1>8. MaxHandling * n = MaxHandling * nn + (IF Head(job_queue) = "job" THEN MaxHandling ELSE 0)
  <2>1. CASE Head(job_queue) = "job"
    <3>1. n = nn + 1
      BY <1>4, <2>1
    <3>2. MaxHandling * n = MaxHandling * nn + MaxHandling
      BY <1>5, <3>1, TimesNext
    <3> QED BY <2>1, <3>2
  <2>2. CASE Head(job_queue) # "job"
    <3>1. n = nn
      BY <1>4, <1>5, <2>2
    <3> QED BY <1>7, <2>2, <3>1
  <2> QED BY <2>1, <2>2
<1>9. a + Pending(s) + MaxHandling * nn + Busy' <= k + 1
  <2> DEFINE m == MaxHandling * n
             mm == MaxHandling * nn
             d == IF Head(job_queue) = "job" THEN MaxHandling ELSE 0
  <2>1. m \in Nat /\ mm \in Nat /\ d \in Nat /\ m = mm + d /\ Busy' \in Nat /\ Busy' <= d
    BY <1>2, <1>7, <1>8
  <2>2. a + Pending(s) + m <= k + 1
    BY <1>2, <1>5, <1>6, <1>7
  <2> HIDE DEF m, mm, d
  <2>3. a + Pending(s) + mm + Busy' <= k + 1
    BY <1>5, <2>1, <2>2
  <2> QED BY <2>3 DEF mm
<1> QED BY <1>1, <1>4, <1>9 DEF BacklogAt, nn, k

\* Every step keeps BacklogInv.
LEMMA StepBacklog == TypeOK /\ BacklogInv /\ [Next]_vars => BacklogInv'
<1> SUFFICES ASSUME TypeOK, BacklogInv, [Next]_vars PROVE Backlog'
  BY StepWaiting DEF BacklogInv
<1>1. TypeOK'
  BY StepTyped
<1>2. Busy \in Nat /\ \A s \in Storage : Pending(s) \in {0, 1}
  BY Fields DEF Busy, Pending
<1>3. ASSUME UNCHANGED job_queue, \A s \in Storage : Pending(s)' + Busy' <= Pending(s) + Busy
      PROVE  Backlog'
  BY <1>1, <1>3, KeptBacklog DEF BacklogInv
<1>4. ASSUME NEW s \in Storage, Start(s) PROVE Backlog'
  <2>1. UNCHANGED <<job_queue, Busy>> /\ \A r \in Storage : Pending(r)' = Pending(r)
    BY <1>4 DEF Start, Busy, Pending
  <2> QED BY <1>2, <1>3, <2>1
<1>5. ASSUME NEW s \in Storage, Silence(s) PROVE Backlog'
  <2>1. UNCHANGED <<job_queue, Busy>>
    BY <1>5 DEF Silence, Busy
  <2>2. \A r \in Storage : Pending(r)' \in {0, 1} /\ Pending(r)' <= Pending(r)
    BY <1>5 DEF Silence, Pending, TypeOK
  <2> QED BY <1>2, <1>3, <2>1, <2>2
<1>6. ASSUME FinishJob \/ PopTimeout PROVE Backlog'
  <2>1. Busy = 0 /\ Busy' = 0 /\ UNCHANGED job_queue
    BY <1>6, PopFacts DEF FinishJob, AfterJob, PopTimeout, Busy
  <2>2. \A r \in Storage : Pending(r)' = Pending(r)
    BY <1>6 DEF FinishJob, PopTimeout, Pending
  <2> QED BY <1>2, <1>3, <2>1, <2>2
<1>7. ASSUME Tick PROVE Backlog'
  <2>1. CASE worker.at = "pop"
    <3>1. Len(job_queue') = 0
      BY <1>7, <2>1, EmptySeq DEF Tick
    <3> QED BY <3>1 DEF Backlog
  <2>2. CASE worker.at # "pop"
    <3>1. Busy' = Busy - 1 /\ UNCHANGED job_queue
      BY <1>7, <2>2, Fields, TickFacts DEF Busy, Tick
    <3>2. \A r \in Storage : Pending(r)' \in {0, 1} /\ Pending(r)' <= Pending(r) + 1
      BY <1>7 DEF Pending, Tick
    <3> QED BY <1>2, <1>3, <3>1, <3>2
  <2> QED BY <2>1, <2>2
<1>8. ASSUME UNCHANGED vars PROVE Backlog'
  <2>1. UNCHANGED <<job_queue, Busy>> /\ \A r \in Storage : Pending(r)' = Pending(r)
    BY <1>8 DEF vars, Busy, Pending
  <2> QED BY <1>2, <1>3, <2>1
<1>9. ASSUME NEW s \in Storage, beat(s) PROVE Backlog'
  <2>1. \A r \in Storage : IF r = s THEN Pending(r) = 1 /\ Pending(r)' = 0
                            ELSE Pending(r)' = Pending(r)
    BY <1>9, Times DEF beat, NextBeat, Pending, TypeOK
  <2> QED BY <1>9, <2>1, PushBacklog DEF beat, Event
<1>10. ASSUME push_worker_job PROVE Backlog'
  <2>1. \A r \in Storage : r # "job" /\ Pending(r)' = Pending(r)
    BY <1>10, TimesAssumption DEF push_worker_job, Pending
  <2> QED BY <1>10, <2>1, PushBacklog DEF push_worker_job, Event
<1> QED BY <1>1, <1>4, <1>5, <1>6, <1>7, <1>8, <1>9, <1>10, PopBacklog DEF Next, WorkerStep

-----------------------------------------------------------------------------
(* Theorems *)

\* The inductive invariant holds in every reachable state.
THEOREM HeartbeatInvariant == Spec => []IInv
<1>1. Init => IInv
  BY InitTyped, InitAge, InitSteady, InitBacklog DEF IInv
<1>2. IInv /\ [Next]_vars => IInv'
  BY StepTyped, StepAge, StepSteady, StepBacklog DEF IInv
<1> QED BY <1>1, <1>2, PTL DEF Spec

\* Whenever select_storage_nodes can choose a node, the node was heard of less
\* than heartbeat_timeout_ and one wait of the worker ago, whatever the load.
THEOREM UsedIsFresh == Spec => []FreshWhenUsed
<1>1. IInv => FreshWhenUsed
  <2> SUFFICES ASSUME IInv, NEW s \in available
               PROVE  /\ worker.at = "pop" => age[s] < heartbeat_timeout + heartbeat_check_interval
                      /\ age[s] < heartbeat_timeout + heartbeat_check_interval + MaxHandling
    BY DEF FreshWhenUsed
  <2>1. age[s] \in Nat /\ worker.left \in Nat
    BY Fields DEF IInv, TypeOK
  <2> QED BY <2>1, Times DEF IInv, AgeInv
<1> QED BY <1>1, HeartbeatInvariant, PTL

\* check_heartbeat_timeouts gives up a node that is up only when its
\* heartbeats of a whole timeout wait behind two or more requests.
THEOREM LostForWantOfTime == Spec => []LostOnlyBehindBacklog
<1>1. IInv => LostOnlyBehindBacklog
  <2> SUFFICES ASSUME IInv, NEW s \in steady \ available
               PROVE  heartrate * (Count(s) + 1) >= heartbeat_timeout /\ jobs[s] >= 2
    BY DEF LostOnlyBehindBacklog
  <2>1. /\ age[s] \in Nat /\ sleep[s] \in Nat /\ worker.left \in Nat /\ jobs[s] \in {0, 1, 2}
        /\ Count(s) \in Nat /\ SteadyAt(s)
    BY Fields, CountWhole DEF IInv, SteadyInv, TypeOK
  <2>2. heartrate * (Count(s) + 1) \in Nat
    BY <2>1, Times
  <2>3. age[s] >= heartbeat_timeout /\ age[s] + sleep[s] <= heartrate * (Count(s) + 1)
    BY <2>1 DEF SteadyAt
  <2>4. jobs[s] # 0 /\ jobs[s] # 1
    BY <2>1, <2>3, Times DEF SteadyAt
  <2> QED BY <2>1, <2>2, <2>3, <2>4, Times
<1> QED BY <1>1, HeartbeatInvariant, PTL

\* job_queue_ never holds more heartbeats of a node than it can send while
\* each client has one request handled.
THEOREM BacklogIsBounded == Spec => []BoundedBacklog
<1>1. IInv => BoundedBacklog
  <2> SUFFICES ASSUME IInv, NEW s \in Storage PROVE Count(s) <= Clients * MaxHandling + 1
    BY DEF BoundedBacklog
  <2>1. TypeOK /\ Len(job_queue) \in Nat
    BY LenProperties DEF IInv, TypeOK
  <2> DEFINE c == MaxHandling * CountIn(job_queue, 1, 1 - 1, "job")
             k == Clients * MaxHandling
  <2>2. Count(s) \in Nat /\ c \in Nat /\ k \in Nat /\ Pending(s) \in Nat /\ Busy \in Nat
    BY <2>1, CountWhole, BacklogTypes
  <2>3. CASE Len(job_queue) = 0
    BY <2>1, <2>2, <2>3, CountWhole, CountEmpty
  <2>4. CASE Len(job_queue) # 0
    <3>1. 1 \in 1..Len(job_queue)
      BY <2>1, <2>4
    <3>2. Count(s) + Pending(s) + c + Busy <= k + 1
      BY <2>1, <3>1, CountWhole DEF IInv, BacklogInv, Backlog, BacklogAt
    <3> HIDE DEF c, k
    <3>3. Count(s) <= k + 1
      BY <2>2, <3>2
    <3> QED BY <3>3 DEF k
  <2> QED BY <2>3, <2>4
<1> QED BY <1>1, HeartbeatInvariant, PTL
=============================================================================
