------------------------------ MODULE Network ------------------------------
(***************************************************************************)
(* Network<SelfRole> and Connection: how the processes find each other and *)
(* exchange frames.  Of two nodes the one with the smaller id connects and *)
(* the other accepts; both write a HELLO and read the other's, and then    *)
(* the connection is entered in connections_, where send looks it up.      *)
(* Frames for a node without a connection wait in pending_frames_.         *)
(*                                                                         *)
(* A process may die and start again while the other end of its connection *)
(* has not noticed, and connections may break.  TCP delivers in order what *)
(* an end has written, or, once that end is closed, a prefix of it.        *)
(* A node's network thread runs one callback at a time: each is one step.  *)
(***************************************************************************)
EXTENDS Integers, Sequences, FiniteSets

CONSTANTS Node,           \* node ids, numbered in their order as strings
          Role,           \* the role of each node
          MaxStarts,      \* bound on the processes of a node
          MaxFrames,      \* bound on the frames a process has for one peer
          MaxBreaks       \* bound on connections that break or are refused

ASSUME NodesAssumption ==
    /\ Node \subseteq Nat
    /\ Role \in [Node -> {"CLIENT", "METADATA", "STORAGE"}]
    /\ \A n \in {MaxStarts, MaxFrames, MaxBreaks} : n \in Nat

VARIABLES
    alive,                \* the nodes that have a process
    run,                  \* the number of processes each node has had
    dial,                 \* what a node does to connect to a peer
    conns,                \* the TCP connections made so far, by number
    connections,          \* connections_: number of the connection, or 0
    pending_frames,
    accepted,             \* number of frames send took for each peer
    last,                 \* the connection with a peer registered last (history)
    breaks                \* number of connections broken or refused

vars == <<alive, run, dial, conns, connections, pending_frames, accepted, last, breaks>>

PeerRoles(role) == IF role = "METADATA" THEN {"METADATA", "STORAGE", "CLIENT"}
                   ELSE {"METADATA"}

can_connect(n, m) == n # m /\ Role[m] \in PeerRoles(Role[n])

should_connect_both(n, m) == can_connect(n, m)

should_connect(n, m) == can_connect(n, m) /\ n < m

HELLO == [k |-> 0, big |-> FALSE]
Frame == [k : 1..MaxFrames, big : BOOLEAN]

\* Everything about a connection is kept per end: the process that has it,
\* its state, write_queue_ with the frame being written, write_in_progress_,
\* what is under way from it, and what has been read at it (history).
NewConnection(n, m) ==
    LET both(x) == [e \in {n, m} |-> x] IN
    [run |-> [e \in {n, m} |-> run[e]], state |-> both("hello"), queue |-> both(<< >>),
     writing |-> both(FALSE), wire |-> both(<<HELLO>>), got |-> both(<< >>)]

Ends(c) == DOMAIN conns[c].state
Other(c, n) == CHOOSE m \in Ends(c) : m # n
ConnsOf(n) == {c \in 1..Len(conns) : n \in Ends(c)}

TypeOK ==
    /\ alive \subseteq Node
    /\ run \in [Node -> 0..MaxStarts]
    /\ dial \in [Node -> [Node -> {"no", "connecting", "timer"}]]
    /\ \A c \in 1..Len(conns), n \in Node : n \in Ends(c) =>
        /\ conns[c].state[n] \in {"hello", "open", "closed"}
        /\ conns[c].run[n] \in 1..run[n]
        /\ conns[c].queue[n] \in Seq(Frame) /\ conns[c].got[n] \in Seq(Frame)
        /\ conns[c].wire[n] \in Seq(Frame \cup {HELLO})
        /\ conns[c].writing[n] \in BOOLEAN
    /\ \A n, m \in Node :
        /\ connections[n][m] \in {0} \cup {c \in ConnsOf(n) : m = Other(c, n)}
        /\ pending_frames[n][m] \in Seq(Frame)
        /\ accepted[n][m] \in 0..MaxFrames
    /\ breaks \in 0..MaxBreaks

ByPeer(x) == [m \in Node |-> x]

Init ==
    /\ alive = {} /\ run = ByPeer(0) /\ dial = ByPeer(ByPeer("no"))
    /\ conns = << >> /\ connections = ByPeer(ByPeer(0))
    /\ pending_frames = ByPeer(ByPeer(<< >>)) /\ accepted = ByPeer(ByPeer(0))
    /\ last = ByPeer(ByPeer(0)) /\ breaks = 0

-----------------------------------------------------------------------------
(* Connections *)

\* Connection::enqueue_write; the frame at the head of the queue is the one
\* being written.
enqueue_write(conn, n, frames) ==
    IF conn.state[n] = "closed" THEN conn
    ELSE [conn EXCEPT !.queue[n] = @ \o frames, !.writing[n] = @ \/ frames # << >>]

\* Connection::close: of what is under way at most k frames still arrive.
close(conn, n, k) ==
    [conn EXCEPT !.state[n] = "closed", !.queue[n] = << >>, !.writing[n] = FALSE,
                 !.got[n] = << >>,
                 !.wire = [e \in DOMAIN @ |->
                     IF e = n THEN SubSeq(@[n], 1, IF k < Len(@[n]) THEN k ELSE Len(@[n]))
                     ELSE << >>]]

fail_any(c, n) ==
    /\ \E k \in 0..Len(conns[c].wire[n]) : conns' = [conns EXCEPT ![c] = close(@, n, k)]
    /\ connections' = [connections EXCEPT ![n][Other(c, n)] =
           IF conns[c].state[n] = "open" THEN 0 ELSE @]

\* The connection is closed, and its entry erased if it is the current one.
fail_connection(c, n) ==
    /\ \E k \in 0..Len(conns[c].wire[n]) : conns' = [conns EXCEPT ![c] = close(@, n, k)]
    /\ connections' = [connections EXCEPT ![n][Other(c, n)] =
           IF conns[c].state[n] = "open" /\ @ = c THEN 0 ELSE @]

-----------------------------------------------------------------------------
(* Sending *)

\* Only responses of the metadata node, those of LIST, can be too big.
send(n, m, big) ==
    LET f == [k |-> accepted[n][m] + 1, big |-> big]
        c == connections[n][m]
    IN  /\ n \in alive /\ can_connect(n, m) /\ accepted[n][m] < MaxFrames
        /\ big => Role[n] = "METADATA"
        /\ accepted' = [accepted EXCEPT ![n][m] = @ + 1]
        /\ IF c = 0
           THEN /\ pending_frames' = [pending_frames EXCEPT ![n][m] = Append(@, f)]
                /\ UNCHANGED conns
           ELSE /\ conns' = [conns EXCEPT ![c] = enqueue_write(@, n, <<f>>)]
                /\ UNCHANGED pending_frames
        /\ UNCHANGED <<alive, run, dial, connections, last, breaks>>

\* To the peers of a role that there is a connection with, and no others;
\* nothing calls it at present, a storage node would.
broadcast(n, role) ==
    LET M == {m \in Node : Role[m] = role /\ connections[n][m] # 0} IN
    /\ n \in alive /\ Role[n] = "STORAGE" /\ M # {} /\ \A m \in M : accepted[n][m] < MaxFrames
    /\ accepted' = [accepted EXCEPT ![n] = [m \in Node |-> IF m \in M THEN @[m] + 1 ELSE @[m]]]
    /\ conns' = [c \in 1..Len(conns) |->
           IF \E m \in M : connections[n][m] = c
           THEN enqueue_write(conns[c], n, <<[k |-> accepted[n][Other(c, n)] + 1, big |-> FALSE]>>)
           ELSE conns[c]]
    /\ UNCHANGED <<alive, run, dial, connections, pending_frames, last, breaks>>

WriteDoneIdle(c, n) ==
    conns' = [conns EXCEPT ![c].wire[n] = Append(@, Head(conns[c].queue[n])),
                           ![c].queue[n] = Tail(@), ![c].writing[n] = FALSE]

\* The frame is written, and write_next takes the next one.
WriteDone(c, n) ==
    conns' = [conns EXCEPT ![c].wire[n] = Append(@, Head(conns[c].queue[n])),
                           ![c].queue[n] = Tail(@),
                           ![c].writing[n] = Len(conns[c].queue[n]) > 1]

\* The completion of a write.  A frame beyond MAX_MESSAGE_SIZE is not
\* written: that is a write error, and the connection fails.
write_next(c, n) ==
    /\ conns[c].writing[n]
    /\ \/ ~Head(conns[c].queue[n]).big /\ WriteDone(c, n) /\ UNCHANGED connections
       \/ Head(conns[c].queue[n]).big /\ fail_connection(c, n)
    /\ UNCHANGED <<alive, run, dial, pending_frames, accepted, last, breaks>>

-----------------------------------------------------------------------------
(* Connecting *)

Refused(n, m) ==
    /\ n \in alive /\ dial[n][m] = "connecting"
    /\ \/ m \notin alive /\ UNCHANGED breaks
       \/ m \in alive /\ breaks < MaxBreaks /\ breaks' = breaks + 1

GiveUpDialling(n, m) == dial' = [dial EXCEPT ![n][m] = "no"]

schedule_reconnect(n, m) == dial' = [dial EXCEPT ![n][m] = "timer"]

ConnectFails(n, m) ==
    /\ Refused(n, m) /\ schedule_reconnect(n, m)
    /\ UNCHANGED <<alive, run, conns, connections, pending_frames, accepted, last>>

\* The timer of schedule_reconnect.
Redial(n, m) ==
    /\ n \in alive /\ dial[n][m] = "timer"
    /\ dial' = [dial EXCEPT ![n][m] = IF connections[n][m] # 0 THEN "no" ELSE "connecting"]
    /\ UNCHANGED <<alive, run, conns, connections, pending_frames, accepted, last, breaks>>

\* connect at one end, accept at the other; both begin the handshake.
Connect(n, m) ==
    /\ n \in alive /\ m \in alive /\ dial[n][m] = "connecting"
    /\ dial' = [dial EXCEPT ![n][m] = "no"]
    /\ conns' = Append(conns, NewConnection(n, m))
    /\ UNCHANGED <<alive, run, connections, pending_frames, accepted, last, breaks>>

KeepPending(n, m) == UNCHANGED pending_frames

\* pending_frames_.erase
ErasePending(n, m) == pending_frames' = [pending_frames EXCEPT ![n][m] = << >>]

OpenAndGreet(conn, n, m) ==
    [conn EXCEPT !.state[n] = "open", !.wire[m] = Tail(@), !.wire[n] = Append(@, HELLO)]

\* The end of the handshake at n: the HELLO of m has been read.
Open(conn, n, m) == [conn EXCEPT !.state[n] = "open", !.wire[m] = Tail(@)]

\* connection->remote->id, as the HELLO gives it.
RemoteId(c, n) == Other(c, n)

\* The connection replaces a former one with that node, and the frames that
\* waited for it are queued.
register_connection(c, n) ==
    LET m == Other(c, n) IN
    /\ conns[c].state[n] = "hello" /\ conns[c].wire[m] # << >>
    /\ conns' = [conns EXCEPT ![c] = enqueue_write(Open(@, n, m), n, pending_frames[n][m])]
    /\ connections' = [connections EXCEPT ![n][RemoteId(c, n)] = c]
    /\ last' = [last EXCEPT ![n][m] = c]
    /\ ErasePending(n, m)
    /\ UNCHANGED <<alive, run, dial, accepted, breaks>>

\* A frame goes to message_queue_.
start_reading(c, n) ==
    LET m == Other(c, n) IN
    /\ conns[c].state[n] = "open" /\ conns[c].wire[m] # << >>
    /\ conns' = [conns EXCEPT ![c].wire[m] = Tail(@), ![c].got[n] = Append(@, Head(conns[c].wire[m]))]
    /\ UNCHANGED <<alive, run, dial, connections, pending_frames, accepted, last, breaks>>

\* Reading or writing fails, because the other end is closed and all it sent
\* has been read, or because the connection broke.
ConnectionFails(c, n) ==
    LET m == Other(c, n) IN
    /\ conns[c].state[n] # "closed"
    /\ \/ conns[c].state[m] = "closed" /\ conns[c].wire[m] = << >> /\ UNCHANGED breaks
       \/ breaks < MaxBreaks /\ breaks' = breaks + 1
    /\ fail_connection(c, n)
    /\ UNCHANGED <<alive, run, dial, pending_frames, accepted, last>>

-----------------------------------------------------------------------------
(* Processes *)

start(n) ==
    /\ n \notin alive /\ run[n] < MaxStarts
    /\ alive' = alive \cup {n}
    /\ run' = [run EXCEPT ![n] = @ + 1]
    /\ dial' = [dial EXCEPT ![n] =
           [m \in Node |-> IF should_connect(n, m) THEN "connecting" ELSE "no"]]
    /\ UNCHANGED <<conns, connections, pending_frames, accepted, last, breaks>>

\* Of what the process has written on each connection a prefix arrives.
Die(n) ==
    /\ n \in alive
    /\ alive' = alive \ {n}
    /\ \E k \in 0..MaxFrames + 1 :
          conns' = [c \in 1..Len(conns) |-> IF c \in ConnsOf(n) /\ conns[c].state[n] # "closed"
                                           THEN close(conns[c], n, k) ELSE conns[c]]
    /\ dial' = [dial EXCEPT ![n] = ByPeer("no")]
    /\ connections' = [connections EXCEPT ![n] = ByPeer(0)]
    /\ pending_frames' = [pending_frames EXCEPT ![n] = ByPeer(<< >>)]
    /\ accepted' = [accepted EXCEPT ![n] = ByPeer(0)]
    /\ last' = [last EXCEPT ![n] = ByPeer(0)]
    /\ UNCHANGED <<run, breaks>>

Next ==
    \/ \E n \in Node : start(n) \/ Die(n) \/ broadcast(n, "METADATA")
    \/ \E n, m \in Node :
          \/ ConnectFails(n, m) \/ Redial(n, m) \/ Connect(n, m)
          \/ \E big \in BOOLEAN : send(n, m, big)
    \/ \E c \in 1..Len(conns) : \E n \in Ends(c) :
          \/ register_connection(c, n) \/ start_reading(c, n)
          \/ write_next(c, n) \/ ConnectionFails(c, n)

Spec == Init /\ [][Next]_vars

\* The network thread of a node that is up runs its callbacks.
FairSpec ==
    /\ Spec
    /\ \A n, m \in Node : WF_vars(Connect(n, m)) /\ WF_vars(Redial(n, m))
    /\ \A n \in Node : WF_vars(\E c \in ConnsOf(n) :
           register_connection(c, n) \/ start_reading(c, n) \/ write_next(c, n))

-----------------------------------------------------------------------------
(* Properties *)

\* Two processes are never connected twice, whoever starts first and whatever
\* fails: should_connect leaves one of them to connect, and it dials again
\* only when there was no connection.
OneConnection ==
    \A c, d \in 1..Len(conns) : conns[c].run = conns[d].run => c = d

\* The first frame either end reads is the HELLO of the other, and there is
\* no second one: neither the handshake nor start_reading ever refuses a
\* frame of a peer that follows the protocol.
HelloFirst ==
    \A c \in 1..Len(conns) : \A n \in Ends(c) :
        LET wire == conns[c].wire[Other(c, n)] IN
        \A i \in 1..Len(wire) :
            wire[i] = HELLO <=> i = 1 /\ conns[c].state[n] = "hello"

\* send finds the connection that was registered last for as long as it is
\* open: the failure of an older connection with the same node, noticed late,
\* does not take the new one out of connections_, and a closed one is never
\* left there.
CurrentConnection ==
    \A n, m \in Node :
        /\ connections[n][m] # 0 => conns[connections[n][m]].state[n] = "open"
        /\ last[n][m] # 0 /\ conns[last[n][m]].state[n] = "open"
              => connections[n][m] = last[n][m]

Consecutive(s) == \A i \in 1..Len(s) - 1 : s[i + 1].k = s[i].k + 1

\* Frames arrive in the order of the calls of send, without gaps and without
\* duplicates, those that waited in pending_frames_ included; on a connection
\* that send uses nothing is missing at the end, and nothing at the beginning
\* if it is the sender's first connection with that node.
Delivery ==
    \A c \in 1..Len(conns) : \A n \in Ends(c) :
        LET m == Other(c, n)
            stream == conns[c].got[n] \o conns[c].wire[m] \o conns[c].queue[m]
            first == \A d \in ConnsOf(m) \ {c} :
                        Other(d, m) = n => conns[d].run[m] # conns[c].run[m]
        IN  conns[c].state[n] = "open" =>
            /\ Consecutive(stream)
            /\ stream # << >> /\ connections[m][n] = c => stream[Len(stream)].k = accepted[m][n]
            /\ stream # << >> /\ first => stream[1].k = 1
            /\ connections[m][n] = c /\ stream = << >> /\ first => accepted[m][n] = 0

Current(c) == \A e \in Ends(c) : e \in alive /\ conns[c].run[e] = run[e]

\* No connection with m has failed in the present process of n, at either end.
Unbroken(n, m) ==
    \A c \in ConnsOf(n) : Other(c, n) = m /\ conns[c].run[n] = run[n]
        => conns[c].state[n] # "closed" /\ conns[c].state[m] # "closed"

Linked(n, m) ==
    \E c \in ConnsOf(n) \cap ConnsOf(m) :
        Current(c) /\ conns[c].state[n] = "open" /\ conns[c].state[m] = "open"

\* A node that could not reach a peer tries again until it can: if both stay
\* up and no connection between them fails, they end up connected.
DialledUntilLinked ==
    \A n, m \in Node : should_connect(n, m) =>
        (<>[](n \in alive /\ m \in alive /\ Unbroken(n, m)) => <>[]Linked(n, m))

\* Nothing gets stuck in a connection: if it stays open, all that was handed
\* to it is read at the other end.
EverythingRead ==
    \A n, m \in Node : should_connect(n, m) =>
        (<>[]Linked(n, m) => <>[](\A c \in ConnsOf(n) \cap ConnsOf(m) :
            Current(c) => \A e \in {n, m} : conns[c].queue[e] = << >> /\ conns[c].wire[e] = << >>))
=============================================================================
