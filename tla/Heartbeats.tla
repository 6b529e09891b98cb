---------------------------- MODULE Heartbeats ----------------------------
(***************************************************************************)
(* How the metadata node tells which storage nodes are available.  Storage *)
(* nodes send a heartbeat every heartrate_; heartbeats wait in job_queue_  *)
(* together with the clients' requests, and the single worker thread takes *)
(* them in order.  last_seen is the time a heartbeat is handled, and       *)
(* check_heartbeat_timeouts runs after each event and each empty wait.     *)
(*                                                                         *)
(* Time advances in steps of a second; what a thread does without waiting  *)
(* takes none, and neither do messages.  A node that is silent has died or *)
(* has lost its connection.  Ages are counted up to a cap.                 *)
(***************************************************************************)
EXTENDS Integers, Sequences, FiniteSets

CONSTANTS Storage,
          heartrate,      \* seconds between two heartbeats
          heartbeat_timeout,
          heartbeat_check_interval,
          storage_request_timeout,
          Clients         \* number of clients, each with one request at a time

\* A handler waits for at most two replicas, one after the other.
MaxHandling == 2 * storage_request_timeout

\* The values in the code: a heartbeat that waits behind one request still
\* comes in time.
ASSUME TimesAssumption ==
    /\ heartrate \in Nat \ {0} /\ heartbeat_check_interval \in Nat \ {0}
    /\ storage_request_timeout \in Nat /\ heartbeat_timeout \in Nat
    /\ heartrate + MaxHandling < heartbeat_timeout
    /\ heartbeat_check_interval <= MaxHandling
    /\ Clients \in Nat /\ "job" \notin Storage

VARIABLES
    alive,                \* the storage nodes whose heartbeats arrive
    sleep,                \* seconds until the next heartbeat of each
    job_queue,
    requests,             \* clients that may send a request this second
    worker,               \* what the worker thread does, for how long yet
    known,                \* the keys of storage_nodes_
    age,                  \* seconds since last_seen
    available,
    jobs,                 \* requests taken since last_seen (history)
    steady                \* known nodes not silenced since last_seen (history)

vars == <<alive, sleep, job_queue, requests, worker, known, age, available, jobs, steady>>

MaxAge == heartbeat_timeout + heartbeat_check_interval + MaxHandling

TypeOK ==
    /\ alive \subseteq Storage /\ available \subseteq known /\ known \subseteq Storage
    /\ sleep \in [Storage -> 0..heartrate]
    /\ job_queue \in Seq(Storage \cup {"job"})
    /\ requests \in 0..Clients
    /\ worker \in [at : {"pop", "job"}, left : 0..MaxHandling]
    /\ age \in [Storage -> 0..MaxAge]
    /\ jobs \in [Storage -> 0..2] /\ steady \subseteq alive \cap known

Init ==
    /\ alive = {} /\ sleep = [s \in Storage |-> 0]
    /\ job_queue = << >> /\ requests = Clients
    /\ worker = [at |-> "pop", left |-> heartbeat_check_interval]
    /\ known = {} /\ age = [s \in Storage |-> 0] /\ available = {}
    /\ jobs = [s \in Storage |-> 0] /\ steady = {}

-----------------------------------------------------------------------------
(* Storage nodes and clients *)

\* A storage node starts; its heartbeat thread beats first and sleeps then.
Start(s) ==
    /\ s \notin alive /\ sleep[s] = 0
    /\ alive' = alive \cup {s}
    /\ UNCHANGED <<sleep, job_queue, requests, worker, known, age, available, jobs, steady>>

\* It dies, or is cut off, for a second at least.
Silence(s) ==
    /\ s \in alive
    /\ alive' = alive \ {s} /\ steady' = steady \ {s}
    /\ sleep' = [sleep EXCEPT ![s] = 1]
    /\ UNCHANGED <<job_queue, requests, worker, known, age, available, jobs>>

NextBeatLate == 2 * heartrate

NextBeatAtOnce == 0

\* std::this_thread::sleep_for(heartrate_)
NextBeat == heartrate

beat(s) ==
    /\ s \in alive /\ sleep[s] = 0
    /\ job_queue' = Append(job_queue, s)
    /\ sleep' = [sleep EXCEPT ![s] = NextBeat]
    /\ UNCHANGED <<alive, requests, worker, known, age, available, jobs, steady>>

\* How often e is in job_queue_.
Count(e) == Cardinality({i \in 1..Len(job_queue) : job_queue[i] = e})

\* The clients that wait for a response.
Waiting == Count("job") + (IF worker.at = "job" THEN 1 ELSE 0)

push_worker_job ==
    /\ requests > 0 /\ Waiting < Clients
    /\ requests' = requests - 1
    /\ job_queue' = Append(job_queue, "job")
    /\ UNCHANGED <<alive, sleep, worker, known, age, available, jobs, steady>>

-----------------------------------------------------------------------------
(* The worker thread *)

Pop == [at |-> "pop", left |-> heartbeat_check_interval]

never_expire(avail, seen) == avail

\* The nodes of avail that remain available, given the ages seen.
check_heartbeat_timeouts(avail, seen) == {s \in avail : seen[s] < heartbeat_timeout}

\* A heartbeat, whoever sent it, makes its node available.
handle_heartbeat ==
    /\ worker.at = "pop" /\ job_queue # << >> /\ Head(job_queue) # "job"
    /\ LET s == Head(job_queue) IN
       /\ known' = known \cup {s}
       /\ age' = [age EXCEPT ![s] = 0]
       /\ jobs' = [jobs EXCEPT ![s] = 0]
       /\ steady' = steady \cup ({s} \cap alive)
       /\ available' = check_heartbeat_timeouts(available \cup {s}, age')
    /\ job_queue' = Tail(job_queue)
    /\ worker' = Pop
    /\ UNCHANGED <<alive, sleep, requests>>

\* A request is taken; its handler may wait for storage nodes.
TakeJob ==
    /\ worker.at = "pop" /\ job_queue # << >> /\ Head(job_queue) = "job"
    /\ \E d \in 0..MaxHandling : worker' = [at |-> "job", left |-> d]
    /\ job_queue' = Tail(job_queue)
    /\ jobs' = [s \in Storage |-> IF jobs[s] < 2 THEN jobs[s] + 1 ELSE 2]
    /\ UNCHANGED <<alive, sleep, requests, known, age, available, steady>>

FinishJobUnchecked == worker' = Pop /\ UNCHANGED available

AfterJob ==
    /\ worker' = Pop
    /\ available' = check_heartbeat_timeouts(available, age)

FinishJob ==
    /\ worker.at = "job" /\ worker.left = 0
    /\ AfterJob
    /\ UNCHANGED <<alive, sleep, job_queue, requests, known, age, jobs, steady>>

\* pop_with_timeout found nothing for heartbeat_check_interval_.
PopTimeout ==
    /\ worker.at = "pop" /\ worker.left = 0 /\ job_queue = << >>
    /\ worker' = Pop
    /\ available' = check_heartbeat_timeouts(available, age)
    /\ UNCHANGED <<alive, sleep, job_queue, requests, known, age, jobs, steady>>

WorkerStep == handle_heartbeat \/ TakeJob \/ FinishJob \/ PopTimeout

\* A second passes, when no thread has anything to do before.
Tick ==
    /\ \A s \in alive : sleep[s] > 0
    /\ worker.left > 0 /\ (worker.at = "pop" => job_queue = << >>)
    /\ worker' = [worker EXCEPT !.left = @ - 1]
    /\ sleep' = [s \in Storage |-> IF sleep[s] > 0 THEN sleep[s] - 1 ELSE 0]
    /\ age' = [s \in Storage |-> IF s \in known /\ age[s] < MaxAge THEN age[s] + 1 ELSE age[s]]
    /\ requests' = Clients
    /\ UNCHANGED <<alive, job_queue, known, available, jobs, steady>>

Next ==
    \/ \E s \in Storage : Start(s) \/ Silence(s) \/ beat(s)
    \/ push_worker_job \/ WorkerStep \/ Tick

Spec == Init /\ [][Next]_vars

\* Time goes on and the threads run.
FairSpec ==
    /\ Spec
    /\ WF_vars(Tick) /\ WF_vars(WorkerStep)
    /\ \A s \in Storage : WF_vars(beat(s))

-----------------------------------------------------------------------------
(* Properties *)

\* A node that has stopped is not used for long: when a handler begins, each
\* node it can choose was heard of less than the timeout and one wait of the
\* worker ago, however busy the worker was.
FreshWhenUsed ==
    \A s \in available :
        /\ worker.at = "pop" => age[s] < heartbeat_timeout + heartbeat_check_interval
        /\ age[s] < heartbeat_timeout + heartbeat_check_interval + MaxHandling

\* A node that is up is given up only for want of time: all the heartbeats it
\* sent in the meantime are in job_queue_, behind the second of at least two
\* requests taken since it was last heard of.  One slow request is not enough.
LostOnlyBehindBacklog ==
    \A s \in steady \ available :
        /\ heartrate * (Count(s) + 1) >= heartbeat_timeout
        /\ jobs[s] >= 2

\* Heartbeats do not pile up: no more wait than a node can send while each
\* client has one request handled, even if it starts anew every second.
BoundedBacklog ==
    \A s \in Storage : Count(s) <= Clients * MaxHandling + 1

\* A node that stays up is available again and again, and one that stays
\* silent is eventually not available any more.
Recognised ==
    \A s \in Storage :
        /\ <>[](s \in alive) => []<>(s \in available)
        /\ <>[](s \notin alive) => <>[](s \notin available)
=============================================================================
