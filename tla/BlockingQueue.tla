--------------------------- MODULE BlockingQueue ---------------------------
(***************************************************************************)
(* BlockingQueue<T>, between the threads of one process: message_queue_ of *)
(* the network and job_queue_ of the nodes.  What happens under mutex_ is  *)
(* one step; the steps in between are where threads interleave: push has   *)
(* released the mutex before it notifies, a consumer that found nothing    *)
(* sleeps on the condition variable, and one that was woken, on purpose or *)
(* spuriously, has to get the mutex back before it looks again.            *)
(***************************************************************************)
EXTENDS Integers, Sequences

CONSTANTS Producer, Consumer, Item, Nothing,
          Predicates,     \* what a consumer may ask for, as sets of items
          Patient,        \* the consumers that use pop, which has no timeout
          MaxPushes       \* bound on the items pushed

ASSUME ThreadsAssumption ==
    /\ Patient \subseteq Consumer
    /\ Predicates \subseteq SUBSET Item
    /\ Nothing \notin Item /\ \A S \in SUBSET Item : S # Nothing
    /\ MaxPushes \in Nat

VARIABLES queue,          \* queue_
          pusher,         \* where each producer is in push
          pc,             \* where each consumer is in its pop
          want,           \* the predicate it passed
          result,         \* what its last pop returned
          pushes          \* number of items pushed so far

vars == <<queue, pusher, pc, want, result, pushes>>

MQ == INSTANCE MessageQueue WITH wanted <- want, returned <- result

TypeOK ==
    /\ queue \in Seq(Item)
    /\ pusher \in [Producer -> {"idle", "notify"}]
    /\ pc \in [Consumer -> {"out", "awake", "asleep", "late"}]
    /\ want \in [Consumer -> (SUBSET Item) \cup {Nothing}]
    /\ result \in [Consumer -> Item \cup {Nothing}]
    /\ \A c \in Consumer : pc[c] = "out" <=> want[c] = Nothing
    /\ pushes \in 0..MaxPushes

Init ==
    /\ queue = << >>
    /\ pusher = [p \in Producer |-> "idle"]
    /\ pc = [c \in Consumer |-> "out"]
    /\ want = [c \in Consumer |-> Nothing]
    /\ result = [c \in Consumer |-> Nothing]
    /\ pushes = 0

-----------------------------------------------------------------------------
(* Producers *)

push(p, x) ==
    /\ pusher[p] = "idle" /\ pushes < MaxPushes
    /\ queue' = Append(queue, x)
    /\ pusher' = [pusher EXCEPT ![p] = "notify"]
    /\ pushes' = pushes + 1
    /\ UNCHANGED <<pc, want, result>>

notify_one(p) ==
    /\ pusher[p] = "notify"
    /\ pusher' = [pusher EXCEPT ![p] = "idle"]
    /\ \/ \E c \in Consumer : pc[c] = "asleep" /\ pc' = [pc EXCEPT ![c] = "awake"]
       \/ \A c \in Consumer : pc[c] # "asleep" /\ UNCHANGED pc
    /\ UNCHANGED <<queue, want, result, pushes>>

notify_all(p) ==
    /\ pusher[p] = "notify"
    /\ pusher' = [pusher EXCEPT ![p] = "idle"]
    /\ pc' = [c \in Consumer |-> IF pc[c] = "asleep" THEN "awake" ELSE pc[c]]
    /\ UNCHANGED <<queue, want, result, pushes>>

-----------------------------------------------------------------------------
(* Consumers *)

Found(c) == MQ!Matching(queue, want[c]) # {}

\* The item the predicate finds first leaves the queue.
Deliver(c) ==
    LET i == MQ!FirstMatching(queue, want[c]) IN
    /\ result' = [result EXCEPT ![c] = queue[i]]
    /\ queue' = MQ!Without(queue, i)
    /\ want' = [want EXCEPT ![c] = Nothing]
    /\ pc' = [pc EXCEPT ![c] = "out"]

\* pop_if with its predicate; pop and pop_with_timeout take anything.
pop_if(c, S) ==
    /\ pc[c] = "out"
    /\ c \in Patient => S = Item
    /\ pc' = [pc EXCEPT ![c] = "awake"]
    /\ want' = [want EXCEPT ![c] = S]
    /\ UNCHANGED <<queue, pusher, result, pushes>>

\* The loop of wait and wait_for: evaluate the predicate, sleep if it fails.
Check(c) ==
    /\ pc[c] = "awake"
    /\ \/ Found(c) /\ Deliver(c)
       \/ ~Found(c) /\ pc' = [pc EXCEPT ![c] = "asleep"] /\ UNCHANGED <<queue, want, result>>
    /\ UNCHANGED <<pusher, pushes>>

SpuriousWakeup(c) ==
    /\ pc[c] = "asleep"
    /\ pc' = [pc EXCEPT ![c] = "awake"]
    /\ UNCHANGED <<queue, pusher, want, result, pushes>>

Timeout(c) ==
    /\ pc[c] = "asleep" /\ c \notin Patient
    /\ pc' = [pc EXCEPT ![c] = "late"]
    /\ UNCHANGED <<queue, pusher, want, result, pushes>>

ReturnStillAsking(c) ==
    /\ result' = [result EXCEPT ![c] = Nothing]
    /\ pc' = [pc EXCEPT ![c] = "out"]
    /\ UNCHANGED <<queue, want>>

ReturnEmpty(c) ==
    /\ result' = [result EXCEPT ![c] = Nothing]
    /\ want' = [want EXCEPT ![c] = Nothing]
    /\ pc' = [pc EXCEPT ![c] = "out"]
    /\ UNCHANGED queue

LastCheckSkipped(c) ==
    pc[c] = "late" /\ ReturnEmpty(c) /\ UNCHANGED <<pusher, pushes>>

\* After its timeout wait_for evaluates the predicate once more.
LastCheck(c) ==
    /\ pc[c] = "late"
    /\ \/ Found(c) /\ Deliver(c)
       \/ ~Found(c) /\ ReturnEmpty(c)
    /\ UNCHANGED <<pusher, pushes>>

Next ==
    \/ \E p \in Producer : notify_all(p) \/ \E x \in Item : push(p, x)
    \/ \E c \in Consumer :
          \/ \E S \in Predicates : pop_if(c, S)
          \/ Check(c) \/ SpuriousWakeup(c) \/ Timeout(c) \/ LastCheck(c)

Spec == Init /\ [][Next]_vars

\* A thread that can run does: producers finish push, consumers that are
\* awake get the mutex.  Nothing is assumed about timeouts and spurious
\* wake-ups.
FairSpec ==
    /\ Spec
    /\ \A p \in Producer : WF_vars(notify_all(p))
    /\ \A c \in Consumer : WF_vars(Check(c)) /\ WF_vars(LastCheck(c))

-----------------------------------------------------------------------------
(* Properties *)

\* No wake-up is lost, although push notifies outside the mutex and several
\* consumers sleep on the one condition variable with different predicates:
\* a consumer sleeps beside an item it wants only while the producer that is
\* about to notify it is on its way.
NoLostWakeup ==
    \A c \in Consumer : pc[c] = "asleep" /\ Found(c)
        => \E p \in Producer : pusher[p] = "notify"

\* What a consumer waits for reaches it, with no help from its timeout,
\* unless another consumer wants the same item and is quicker.
NothingLeftLying ==
    \A c \in Consumer :
        (pc[c] # "out" /\ Found(c)) ~> (pc[c] = "out" \/ ~Found(c))

\* The mutex, the condition variable, wake-ups and timeouts are invisible:
\* each call behaves as if it happened in one step, taking the oldest item
\* it asked for, and none only if there is none.
AtomicQueue == MQ!Spec
=============================================================================
