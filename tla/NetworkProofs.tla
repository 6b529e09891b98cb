--------------------------- MODULE NetworkProofs ---------------------------
(***************************************************************************)
(* Proofs about Network, for any nodes and roles and all bounds: that two  *)
(* processes are connected at most once, that the handshake is never       *)
(* disturbed, that send finds the current connection, and that frames      *)
(* arrive in order and without gaps.                                       *)
(***************************************************************************)
EXTENDS Network, SequenceTheorems, TLAPS

Wired == Frame \cup {HELLO}

\* The connections between the two nodes of E, and all of them.
ConnOn(E) ==
    [run : [E -> Nat], state : [E -> {"hello", "open", "closed"}], queue : [E -> Seq(Frame)],
     writing : [E -> BOOLEAN], wire : [E -> Seq(Wired)], got : [E -> Seq(Frame)]]

Pairs == {E \in SUBSET Node : \E n, m \in Node : n # m /\ E = {n, m}}

Conn == UNION {ConnOn(E) : E \in Pairs}

Typed ==
    /\ alive \subseteq Node /\ run \in [Node -> 0..MaxStarts]
    /\ dial \in [Node -> [Node -> {"no", "connecting", "timer"}]]
    /\ conns \in Seq(Conn)
    /\ connections \in [Node -> [Node -> Nat]] /\ last \in [Node -> [Node -> Nat]]
    /\ pending_frames \in [Node -> [Node -> Seq(Frame)]]
    /\ accepted \in [Node -> [Node -> 0..MaxFrames]]
    /\ breaks \in 0..MaxBreaks

\* An end that is not closed belongs to the present process of its node.
RunInv ==
    /\ \A n \in alive : run[n] >= 1
    /\ \A c \in 1..Len(conns) : \A n \in Ends(c) :
        /\ conns[c].run[n] >= 1 /\ conns[c].run[n] <= run[n]
        /\ conns[c].state[n] # "closed" => n \in alive /\ conns[c].run[n] = run[n]

\* A process that still dials a peer has never been connected with it.
DialInv ==
    \A n, m \in Node : dial[n][m] # "no" =>
        /\ n \in alive /\ n < m
        /\ \A c \in 1..Len(conns) : Ends(c) = {n, m} => conns[c].run[n] < run[n]

\* What connections_ and the history of it point to: the entry c of n for m,
\* and the connection l that was registered last.
LinkOk(n, m, c, l) ==
    /\ c # 0 => /\ l # 0 /\ n # m /\ c \in 1..Len(conns) /\ Ends(c) = {n, m}
                /\ conns[c].state[n] = "open"
    /\ l # 0 => /\ n # m /\ n \in alive /\ l \in 1..Len(conns) /\ Ends(l) = {n, m}
                /\ conns[l].state[n] # "hello" /\ conns[l].run[n] = run[n]
                /\ conns[l].state[n] = "open" => c = l

LinkInv == \A n, m \in Node : LinkOk(n, m, connections[n][m], last[n][m])

\* An end has frames to write only while it is open, and while it has not
\* read the HELLO of the other, that is still to be read.
EndOk(x, n, m) ==
    /\ x.writing[n] <=> x.queue[n] # << >>
    /\ x.state[n] # "open" => x.queue[n] = << >> /\ x.got[n] = << >>
    /\ x.state[n] = "hello" /\ x.state[m] # "closed" => x.wire[m] # << >>
    /\ \A i \in 1..Len(x.wire[m]) : x.wire[m][i] = HELLO <=> i = 1 /\ x.state[n] = "hello"

EndInv == \A c \in 1..Len(conns) : \A n, m \in Ends(c) : n # m => EndOk(conns[c], n, m)

\* The frames m has handed to the connection x, as n will have read them.
Body(x, n, m) ==
    IF x.state[n] = "hello" /\ x.wire[m] # << >> THEN Tail(x.wire[m]) ELSE x.wire[m]

Sent(x, n, m) == (x.got[n] \o Body(x, n, m)) \o x.queue[m]

\* The process of m has no other connection with n than c.
First(c, n, m) ==
    \A d \in 1..Len(conns) : d # c /\ Ends(d) = {n, m} => conns[d].run[m] # conns[c].run[m]

Numbered(s) == \A i \in 1..Len(s) : i < Len(s) => s[i + 1].k = s[i].k + 1

StreamOk(c, n, m) ==
    LET s == Sent(conns[c], n, m) IN
    /\ Numbered(s)
    /\ conns[c].state[m] = "hello" => s = << >>
    /\ s # << >> /\ connections[m][n] = c => s[Len(s)].k = accepted[m][n]
    /\ s # << >> /\ First(c, n, m) => s[1].k = 1
    /\ s = << >> /\ connections[m][n] = c /\ First(c, n, m) => accepted[m][n] = 0

StreamInv ==
    \A c \in 1..Len(conns) : \A n, m \in Ends(c) :
        n # m /\ conns[c].state[n] # "closed" => StreamOk(c, n, m)

\* The frames that wait are the last ones send took; they are all of them as
\* long as there has been no connection.
PendingInv ==
    \A n, m \in Node :
        LET s == pending_frames[n][m] IN
        /\ Numbered(s)
        /\ s # << >> => s[Len(s)].k = accepted[n][m] /\ connections[n][m] = 0
        /\ last[n][m] = 0 => IF s = << >> THEN accepted[n][m] = 0 ELSE s[1].k = 1

\* The inductive invariant.
IInv == Typed /\ RunInv /\ DialInv /\ OneConnection /\ LinkInv /\ EndInv
        /\ StreamInv /\ PendingInv

-----------------------------------------------------------------------------
(* The fields of a connection after each operation on it *)

\* HELLO is no frame that send takes.
LEMMA HelloNoFrame == HELLO \notin Frame /\ Frame \subseteq Wired /\ HELLO \in Wired
<1>1. \A f \in Frame : f.k # 0
  BY NodesAssumption DEF Frame
<1> QED BY <1>1 DEF HELLO, Wired

\* The fields of a connection.
LEMMA ConnFields ==
    ASSUME NEW E, NEW x \in ConnOn(E)
    PROVE  /\ x = [run |-> x.run, state |-> x.state, queue |-> x.queue, writing |-> x.writing,
                   wire |-> x.wire, got |-> x.got]
           /\ DOMAIN x.state = E
           /\ x.run \in [E -> Nat] /\ x.state \in [E -> {"hello", "open", "closed"}]
           /\ x.queue \in [E -> Seq(Frame)] /\ x.writing \in [E -> BOOLEAN]
           /\ x.wire \in [E -> Seq(Wired)] /\ x.got \in [E -> Seq(Frame)]
BY DEF ConnOn

\* enqueue_write appends to the queue of an end that is not closed.
LEMMA EnqueueFields ==
    ASSUME NEW E, NEW x \in ConnOn(E), NEW n \in E, NEW fs \in Seq(Frame), x.state[n] # "closed",
           NEW y, y = enqueue_write(x, n, fs)
    PROVE  /\ y \in ConnOn(E) /\ y.run = x.run /\ y.state = x.state
           /\ y.wire = x.wire /\ y.got = x.got
           /\ y.queue = [x.queue EXCEPT ![n] = x.queue[n] \o fs]
           /\ y.writing = [x.writing EXCEPT ![n] = x.writing[n] \/ fs # << >>]
<1> DEFINE q == [x.queue EXCEPT ![n] = x.queue[n] \o fs]
           w == [x.writing EXCEPT ![n] = x.writing[n] \/ fs # << >>]
<1>1. y = [x EXCEPT !.queue = q, !.writing = w]
  BY DEF enqueue_write
<1>2. x.queue[n] \o fs \in Seq(Frame) /\ (x.writing[n] \/ fs # << >>) \in BOOLEAN
  BY ConnFields, ConcatProperties
<1>3. q \in [E -> Seq(Frame)] /\ w \in [E -> BOOLEAN]
  BY <1>2, ConnFields
<1> HIDE DEF q, w
<1>4. y = [run |-> x.run, state |-> x.state, queue |-> q, writing |-> w, wire |-> x.wire, got |-> x.got]
  BY <1>1, ConnFields
<1>5. y \in ConnOn(E)
  BY <1>3, <1>4, ConnFields DEF ConnOn
<1> QED BY <1>4, <1>5 DEF q, w

\* A prefix of what is on the wire.
LEMMA WirePrefix ==
    ASSUME NEW w \in Seq(Wired), NEW k \in Nat, k <= Len(w)
    PROVE  /\ SubSeq(w, 1, k) \in Seq(Wired) /\ Len(SubSeq(w, 1, k)) = k
           /\ \A i \in 1..k : SubSeq(w, 1, k)[i] = w[i]
<1>1. Len(w) \in Nat /\ \A i \in 1..k : w[i] \in Wired
  BY LenProperties
<1>2. /\ SubSeq(w, 1, k) \in Seq(Wired)
      /\ Len(SubSeq(w, 1, k)) = (IF 1 <= k THEN k - 1 + 1 ELSE 0)
      /\ \A i \in 1..k - 1 + 1 : SubSeq(w, 1, k)[i] = w[1 + i - 1]
  BY <1>1, SubSeqProperties
<1> QED BY <1>1, <1>2

\* The connection y is x after close at n.
ClosedFrom(x, y, n, E) ==
    /\ y \in ConnOn(E) /\ y.run = x.run
    /\ y.state = [x.state EXCEPT ![n] = "closed"]
    /\ y.queue = [x.queue EXCEPT ![n] = << >>]
    /\ ~y.writing[n] /\ (\A e \in E : e # n => (y.writing[e] <=> x.writing[e]))
    /\ y.got = [x.got EXCEPT ![n] = << >>]
    /\ \A e \in E : e # n => y.wire[e] = << >>
    /\ \E j \in 0..Len(x.wire[n]) : y.wire[n] = SubSeq(x.wire[n], 1, j)

\* close leaves of an end's wire some prefix, and nothing of the other's.
LEMMA CloseFields ==
    ASSUME NEW E, NEW x \in ConnOn(E), NEW n \in E, NEW k \in Nat, NEW y, y = close(x, n, k)
    PROVE  ClosedFrom(x, y, n, E)
<1> DEFINE j == IF k < Len(x.wire[n]) THEN k ELSE Len(x.wire[n])
           s == [x.state EXCEPT ![n] = "closed"]
           q == [x.queue EXCEPT ![n] = << >>]
           r == [x.writing EXCEPT ![n] = FALSE]
           g == [x.got EXCEPT ![n] = << >>]
           w == [e \in E |-> IF e = n THEN SubSeq(x.wire[n], 1, j) ELSE << >>]
<1>1. DOMAIN x.wire = E /\ x.wire[n] \in Seq(Wired) /\ Len(x.wire[n]) \in Nat
  BY ConnFields, LenProperties
<1>2. y = [x EXCEPT !.state = s, !.queue = q, !.writing = r, !.got = g, !.wire = w]
  BY <1>1 DEF close
<1>3. j \in 0..Len(x.wire[n]) /\ SubSeq(x.wire[n], 1, j) \in Seq(Wired)
  <2>1. j \in Nat /\ j <= Len(x.wire[n])
    BY <1>1
  <2> HIDE DEF j
  <2> QED BY <1>1, <2>1, WirePrefix
<1>4. << >> \in Seq(Wired) /\ << >> \in Seq(Frame)
  BY EmptySeq
<1>5. w \in [E -> Seq(Wired)]
  BY <1>3, <1>4
<1>6. /\ s \in [E -> {"hello", "open", "closed"}] /\ q \in [E -> Seq(Frame)]
      /\ r \in [E -> BOOLEAN] /\ g \in [E -> Seq(Frame)]
  BY <1>4, ConnFields
<1>7. w[n] = SubSeq(x.wire[n], 1, j) /\ \A e \in E : e # n => w[e] = << >>
  OBVIOUS
<1> HIDE DEF j, s, q, r, g, w
<1>8. y = [run |-> x.run, state |-> s, queue |-> q, writing |-> r, wire |-> w, got |-> g]
  BY <1>2, ConnFields
<1>9. y \in ConnOn(E)
  BY <1>5, <1>6, <1>8, ConnFields DEF ConnOn
<1>10. ~r[n] /\ (\A e \in E : e # n => (r[e] <=> x.writing[e]))
  BY ConnFields DEF r
<1> QED BY <1>3, <1>7, <1>8, <1>9, <1>10 DEF ClosedFrom, s, q, g

\* The end of the handshake takes the HELLO off the wire.
LEMMA OpenFields ==
    ASSUME NEW E, NEW x \in ConnOn(E), NEW n \in E, NEW m \in E, x.wire[m] # << >>,
           NEW y, y = Open(x, n, m)
    PROVE  /\ y \in ConnOn(E) /\ y.run = x.run /\ y.queue = x.queue
           /\ y.writing = x.writing /\ y.got = x.got
           /\ y.state = [x.state EXCEPT ![n] = "open"]
           /\ y.wire = [x.wire EXCEPT ![m] = Tail(x.wire[m])]
<1> DEFINE s == [x.state EXCEPT ![n] = "open"]
           w == [x.wire EXCEPT ![m] = Tail(x.wire[m])]
<1>1. y = [x EXCEPT !.state = s, !.wire = w]
  BY DEF Open
<1>2. Tail(x.wire[m]) \in Seq(Wired)
  BY ConnFields, HeadTailProperties
<1>3. s \in [E -> {"hello", "open", "closed"}] /\ w \in [E -> Seq(Wired)]
  BY <1>2, ConnFields
<1> HIDE DEF s, w
<1>4. y = [run |-> x.run, state |-> s, queue |-> x.queue, writing |-> x.writing, wire |-> w, got |-> x.got]
  BY <1>1, ConnFields
<1>5. y \in ConnOn(E)
  BY <1>3, <1>4, ConnFields DEF ConnOn
<1> QED BY <1>4, <1>5 DEF s, w

\* The connection x after the frame at the head of the queue of n is written.
Written(x, n) ==
    [x EXCEPT !.wire[n] = Append(@, Head(x.queue[n])), !.queue[n] = Tail(@),
              !.writing[n] = Len(x.queue[n]) > 1]

\* A frame goes from the queue to the wire.
LEMMA WrittenFields ==
    ASSUME NEW E, NEW x \in ConnOn(E), NEW n \in E, x.queue[n] # << >>,
           NEW y, y = Written(x, n)
    PROVE  /\ y \in ConnOn(E) /\ y.run = x.run /\ y.state = x.state /\ y.got = x.got
           /\ y.wire = [x.wire EXCEPT ![n] = Append(x.wire[n], Head(x.queue[n]))]
           /\ y.queue = [x.queue EXCEPT ![n] = Tail(x.queue[n])]
           /\ (y.writing[n] <=> Len(x.queue[n]) > 1)
           /\ (\A e \in E : e # n => (y.writing[e] <=> x.writing[e]))
           /\ Head(x.queue[n]) \in Frame
<1> DEFINE w == [x.wire EXCEPT ![n] = Append(x.wire[n], Head(x.queue[n]))]
           q == [x.queue EXCEPT ![n] = Tail(x.queue[n])]
           r == [x.writing EXCEPT ![n] = Len(x.queue[n]) > 1]
<1>1. y = [x EXCEPT !.wire = w, !.queue = q, !.writing = r]
  BY DEF Written
<1>2. Head(x.queue[n]) \in Frame /\ Tail(x.queue[n]) \in Seq(Frame) /\ (Len(x.queue[n]) > 1) \in BOOLEAN
  BY ConnFields, HeadTailProperties
<1>3. Append(x.wire[n], Head(x.queue[n])) \in Seq(Wired)
  BY <1>2, ConnFields, HelloNoFrame, AppendProperties
<1>4. w \in [E -> Seq(Wired)] /\ q \in [E -> Seq(Frame)] /\ r \in [E -> BOOLEAN]
  BY <1>2, <1>3, ConnFields
<1> HIDE DEF w, q, r
<1>5. y = [run |-> x.run, state |-> x.state, queue |-> q, writing |-> r, wire |-> w, got |-> x.got]
  BY <1>1, ConnFields
<1>6. y \in ConnOn(E)
  BY <1>4, <1>5, ConnFields DEF ConnOn
<1>7. (r[n] <=> Len(x.queue[n]) > 1) /\ (\A e \in E : e # n => (r[e] <=> x.writing[e]))
  BY ConnFields DEF r
<1> QED BY <1>2, <1>5, <1>6, <1>7 DEF w, q

\* The connection x after n has read a frame of m.
Read(x, n, m) ==
    [x EXCEPT !.wire[m] = Tail(@), !.got[n] = Append(@, Head(x.wire[m]))]

\* A frame goes from the wire to message_queue_.
LEMMA ReadFields ==
    ASSUME NEW E, NEW x \in ConnOn(E), NEW n \in E, NEW m \in E, x.wire[m] # << >>,
           Head(x.wire[m]) \in Frame, NEW y, y = Read(x, n, m)
    PROVE  /\ y \in ConnOn(E) /\ y.run = x.run /\ y.state = x.state
           /\ y.queue = x.queue /\ y.writing = x.writing
           /\ y.wire = [x.wire EXCEPT ![m] = Tail(x.wire[m])]
           /\ y.got = [x.got EXCEPT ![n] = Append(x.got[n], Head(x.wire[m]))]
<1> DEFINE w == [x.wire EXCEPT ![m] = Tail(x.wire[m])]
           g == [x.got EXCEPT ![n] = Append(x.got[n], Head(x.wire[m]))]
<1>1. y = [x EXCEPT !.wire = w, !.got = g]
  BY DEF Read
<1>2. Head(x.wire[m]) \in Wired /\ Tail(x.wire[m]) \in Seq(Wired)
  BY ConnFields, HeadTailProperties
<1>3. Append(x.got[n], Head(x.wire[m])) \in Seq(Frame)
  BY ConnFields, AppendProperties
<1>4. w \in [E -> Seq(Wired)] /\ g \in [E -> Seq(Frame)]
  BY <1>2, <1>3, ConnFields
<1> HIDE DEF w, g
<1>5. y = [run |-> x.run, state |-> x.state, queue |-> x.queue, writing |-> x.writing, wire |-> w, got |-> g]
  BY <1>1, ConnFields
<1>6. y \in ConnOn(E)
  BY <1>4, <1>5, ConnFields DEF ConnOn
<1> QED BY <1>5, <1>6 DEF w, g

\* The connection y has just been made.
MadeFor(y, n, m) ==
    /\ y \in ConnOn({n, m}) /\ y.run = [e \in {n, m} |-> run[e]]
    /\ \A e \in {n, m} : /\ y.state[e] = "hello" /\ y.queue[e] = << >> /\ ~y.writing[e]
                         /\ y.wire[e] = <<HELLO>> /\ y.got[e] = << >>

\* A connection that is made.
LEMMA NewFields ==
    ASSUME Typed, NEW n \in Node, NEW m \in Node, n # m, NEW y, y = NewConnection(n, m)
    PROVE  MadeFor(y, n, m)
<1>1. << >> \in Seq(Wired) /\ << >> \in Seq(Frame) /\ <<HELLO>> \in Seq(Wired)
  BY EmptySeq, HelloNoFrame
<1>2. \A e \in {n, m} : run[e] \in Nat
  <2>1. MaxStarts \in Nat /\ \A e \in {n, m} : run[e] \in 0..MaxStarts
    BY NodesAssumption DEF Typed
  <2> QED BY <2>1
<1>3. y = [run |-> [e \in {n, m} |-> run[e]], state |-> [e \in {n, m} |-> "hello"],
           queue |-> [e \in {n, m} |-> << >>], writing |-> [e \in {n, m} |-> FALSE],
           wire |-> [e \in {n, m} |-> <<HELLO>>], got |-> [e \in {n, m} |-> << >>]]
  BY DEF NewConnection
<1>4. y \in ConnOn({n, m})
  <2>1. /\ [e \in {n, m} |-> run[e]] \in [{n, m} -> Nat]
        /\ [e \in {n, m} |-> "hello"] \in [{n, m} -> {"hello", "open", "closed"}]
        /\ [e \in {n, m} |-> << >>] \in [{n, m} -> Seq(Frame)]
        /\ [e \in {n, m} |-> FALSE] \in [{n, m} -> BOOLEAN]
        /\ [e \in {n, m} |-> <<HELLO>>] \in [{n, m} -> Seq(Wired)]
        /\ [e \in {n, m} |-> << >>] \in [{n, m} -> Seq(Frame)]
    BY <1>1, <1>2
  <2> QED BY <1>3, <2>1 DEF ConnOn
<1> QED BY <1>3, <1>4 DEF MadeFor

-----------------------------------------------------------------------------
(* Streams of frames *)

\* p is a prefix of s.
Begins(p, s) == Len(p) <= Len(s) /\ \A i \in 1..Len(p) : p[i] = s[i]

\* A prefix of numbered frames is numbered, and starts where they start.
LEMMA BeginsNumbered ==
    ASSUME NEW s \in Seq(Wired), NEW p \in Seq(Wired), Begins(p, s), Numbered(s)
    PROVE  Numbered(p) /\ (p # << >> => s # << >> /\ p[1] = s[1])
<1>1. Len(p) \in Nat /\ Len(s) \in Nat /\ (p # << >> => Len(p) >= 1) /\ Len(<< >>) = 0
  BY EmptySeq
<1> QED BY <1>1 DEF Begins, Numbered

\* A prefix of the second part gives a prefix of the whole.
LEMMA BeginsConcat ==
    ASSUME NEW a \in Seq(Wired), NEW b \in Seq(Wired), NEW p \in Seq(Wired), NEW q \in Seq(Wired),
           Begins(p, b)
    PROVE  Begins((a \o p) \o << >>, (a \o b) \o q)
<1>1. a \o p \in Seq(Wired) /\ Len(a \o p) = Len(a) + Len(p) /\ (a \o p) \o << >> = a \o p
  BY ConcatProperties, ConcatEmptySeq
<1>2. a \o b \in Seq(Wired) /\ Len(a \o b) = Len(a) + Len(b)
  BY ConcatProperties
<1>3. Len((a \o b) \o q) = Len(a \o b) + Len(q)
  BY <1>2, ConcatProperties
<1>4. Len(a) \in Nat /\ Len(b) \in Nat /\ Len(p) \in Nat /\ Len(q) \in Nat /\ Len(p) <= Len(b)
  BY LenProperties DEF Begins
<1>5. ASSUME NEW i \in 1..Len(a) + Len(p)
      PROVE  (a \o p)[i] = ((a \o b) \o q)[i]
  <2>1. ((a \o b) \o q)[i] = (a \o b)[i]
    BY <1>2, <1>4, <1>5, ConcatProperties
  <2>2. (a \o b)[i] = IF i <= Len(a) THEN a[i] ELSE b[i - Len(a)]
    BY <1>4, <1>5, ConcatProperties
  <2>3. (a \o p)[i] = IF i <= Len(a) THEN a[i] ELSE p[i - Len(a)]
    BY <1>4, <1>5, ConcatProperties
  <2>4. ~(i <= Len(a)) => p[i - Len(a)] = b[i - Len(a)]
    <3>1. ~(i <= Len(a)) => i - Len(a) \in 1..Len(p)
      BY <1>4, <1>5
    <3> QED BY <3>1 DEF Begins
  <2> QED BY <2>1, <2>2, <2>3, <2>4
<1> QED BY <1>1, <1>2, <1>3, <1>4, <1>5 DEF Begins

\* The parts of a stream may be grouped either way.
LEMMA WiredAssociative ==
    ASSUME NEW a \in Seq(Wired), NEW b \in Seq(Wired), NEW c \in Seq(Wired)
    PROVE  (a \o b) \o c = a \o (b \o c)
BY ConcatAssociative

\* The frames t are s and then f.
Continues(s, f, t) ==
    /\ Numbered(t) /\ t # << >> /\ t[Len(t)] = f
    /\ t[1] = IF s = << >> THEN f ELSE s[1]

\* A frame that follows the last one may be appended.
LEMMA NumberedAppend ==
    ASSUME NEW s \in Seq(Wired), NEW f \in Wired, Numbered(s),
           s # << >> => f.k = s[Len(s)].k + 1,
           NEW t, t = Append(s, f)
    PROVE  Continues(s, f, t)
<1>1. /\ Len(s) \in Nat /\ (s = << >> <=> Len(s) = 0)
  BY EmptySeq
<1>2. /\ Len(t) = Len(s) + 1 /\ t # << >> /\ t[Len(s) + 1] = f
      /\ \A i \in 1..Len(s) : t[i] = s[i]
  BY AppendProperties
<1>3. ASSUME NEW i \in 1..Len(t), i < Len(t) PROVE t[i + 1].k = t[i].k + 1
  <2>1. CASE i < Len(s)
    <3>1. i \in 1..Len(s) /\ i + 1 \in 1..Len(s)
      BY <1>1, <1>2, <1>3, <2>1
    <3> QED BY <1>2, <2>1, <3>1 DEF Numbered
  <2>2. CASE i = Len(s)
    <3>1. i \in 1..Len(s) /\ s # << >> /\ t[i] = s[Len(s)] /\ t[i + 1] = f
      BY <1>1, <1>2, <1>3, <2>2
    <3> QED BY <3>1
  <2> QED BY <1>1, <1>2, <1>3, <2>1, <2>2
<1> QED BY <1>1, <1>2, <1>3 DEF Numbered, Continues

\* Moving the head of one part to the end of the part before it.
LEMMA MoveHead ==
    ASSUME NEW a \in Seq(Wired), NEW b \in Seq(Wired), b # << >>
    PROVE  Append(a, Head(b)) \o Tail(b) = a \o b
<1>1. Head(b) \in Wired /\ Tail(b) \in Seq(Wired) /\ <<Head(b)>> \in Seq(Wired)
  BY HeadTailProperties
<1>2. Append(a, Head(b)) \o Tail(b) = a \o (<<Head(b)>> \o Tail(b))
  BY <1>1, AppendIsConcat, ConcatAssociative
<1>3. <<Head(b)>> \o Tail(b) = b
  <2>1. /\ <<Head(b)>> \o Tail(b) \in Seq(Wired)
        /\ Len(<<Head(b)>> \o Tail(b)) = 1 + Len(Tail(b))
        /\ \A i \in 1..1 + Len(Tail(b)) : (<<Head(b)>> \o Tail(b))[i] =
              IF i <= 1 THEN <<Head(b)>>[i] ELSE Tail(b)[i - 1]
    BY <1>1, ConcatProperties
  <2>2. /\ Len(Tail(b)) = Len(b) - 1 /\ Len(b) \in Nat
        /\ \A i \in 1..Len(Tail(b)) : Tail(b)[i] = b[i + 1]
    BY HeadTailProperties, LenProperties
  <2>3. \A i \in 1..Len(b) : (<<Head(b)>> \o Tail(b))[i] = b[i]
    BY <2>1, <2>2
  <2> QED BY <2>1, <2>2, <2>3, SeqEqual
<1> QED BY <1>2, <1>3

-----------------------------------------------------------------------------
(* What each operation does to the two streams of a connection *)

Good(x, n, m) == x \in ConnOn({n, m}) /\ n # m /\ EndOk(x, n, m) /\ EndOk(x, m, n)

\* The parts of the stream to n are sequences.
LEMMA PartTypes ==
    ASSUME NEW E, NEW n \in E, NEW m \in E, NEW x \in ConnOn(E)
    PROVE  /\ x.got[n] \in Seq(Wired) /\ x.wire[m] \in Seq(Wired)
           /\ x.queue[m] \in Seq(Frame) /\ x.queue[m] \in Seq(Wired)
           /\ Body(x, n, m) \in Seq(Wired) /\ Sent(x, n, m) \in Seq(Wired)
           /\ x.state[n] \in {"hello", "open", "closed"} /\ x.writing[n] \in BOOLEAN
<1>1. /\ x.got[n] \in Seq(Frame) /\ x.wire[m] \in Seq(Wired) /\ x.queue[m] \in Seq(Frame)
      /\ x.state[n] \in {"hello", "open", "closed"} /\ x.writing[n] \in BOOLEAN
  BY ConnFields
<1>2. x.queue[m] \in Seq(Wired) /\ x.got[n] \in Seq(Wired)
  BY <1>1, HelloNoFrame, SeqMonotonic
<1>3. Body(x, n, m) \in Seq(Wired)
  BY <1>1, HeadTailProperties DEF Body
<1>4. x.got[n] \o Body(x, n, m) \in Seq(Wired)
  BY <1>2, <1>3, ConcatProperties
<1>5. Sent(x, n, m) \in Seq(Wired)
  BY <1>2, <1>4, ConcatProperties DEF Sent
<1> QED BY <1>1, <1>2, <1>3, <1>5

\* The connection y is x, with frames further on their way.
Moved(x, y, n, m) ==
    /\ Good(y, n, m) /\ y.run = x.run /\ y.state = x.state
    /\ Sent(y, n, m) = Sent(x, n, m) /\ Sent(y, m, n) = Sent(x, m, n)

\* The connection y is x, with the handshake completed at n.
Opened(x, y, n, m) ==
    /\ Good(y, n, m) /\ y.run = x.run /\ y.state[n] = "open" /\ y.state[m] = x.state[m]
    /\ Sent(y, n, m) = Sent(x, n, m) /\ Sent(y, m, n) = Sent(x, m, n)

\* The connection y is x with more frames from n.
Lengthened(x, y, n, m, fs) ==
    /\ Good(y, n, m) /\ y.run = x.run /\ y.state = x.state
    /\ Sent(y, n, m) = Sent(x, n, m) /\ Sent(y, m, n) = Sent(x, m, n) \o fs

\* The connection y is x, closed at n.
CutOff(x, y, n, m) ==
    /\ Good(y, n, m) /\ y.run = x.run /\ y.state[n] = "closed" /\ y.state[m] = x.state[m]
    /\ Begins(Sent(y, m, n), Sent(x, m, n))

\* enqueue_write lengthens the stream from n.
LEMMA EnqueueStreams ==
    ASSUME NEW n, NEW m, NEW x, Good(x, n, m), x.state[n] = "open", NEW fs \in Seq(Frame),
           NEW y, y = enqueue_write(x, n, fs)
    PROVE  Lengthened(x, y, n, m, fs)
<1>1. x \in ConnOn({n, m}) /\ n # m /\ n \in {n, m} /\ m \in {n, m}
  BY DEF Good
<1>2. /\ y \in ConnOn({n, m}) /\ y.run = x.run /\ y.state = x.state
      /\ y.wire = x.wire /\ y.got = x.got
      /\ y.queue = [x.queue EXCEPT ![n] = x.queue[n] \o fs]
      /\ y.writing = [x.writing EXCEPT ![n] = x.writing[n] \/ fs # << >>]
  BY <1>1, EnqueueFields
<1>3. /\ y.queue[n] = x.queue[n] \o fs /\ y.queue[m] = x.queue[m]
      /\ (y.writing[n] <=> x.writing[n] \/ fs # << >>) /\ y.writing[m] = x.writing[m]
  BY <1>1, <1>2, ConnFields
<1>4. x.queue[n] \in Seq(Frame) /\ x.queue[n] \in Seq(Wired)
  BY <1>1, PartTypes
<1>5. y.queue[n] = << >> <=> x.queue[n] = << >> /\ fs = << >>
  BY <1>3, <1>4, ConcatEqualIffEmpty
<1>6. EndOk(y, n, m) /\ EndOk(y, m, n)
  BY <1>1, <1>2, <1>3, <1>5 DEF EndOk, Good
<1>7. Body(y, n, m) = Body(x, n, m) /\ Body(y, m, n) = Body(x, m, n)
  BY <1>2 DEF Body
<1>8. Sent(y, n, m) = Sent(x, n, m)
  BY <1>2, <1>3, <1>7 DEF Sent
<1>9. Sent(y, m, n) = Sent(x, m, n) \o fs
  <2>1. x.got[m] \o Body(x, m, n) \in Seq(Wired)
    BY <1>1, PartTypes, ConcatProperties
  <2>2. fs \in Seq(Wired)
    BY HelloNoFrame, SeqMonotonic
  <2>3. ASSUME NEW s \in Seq(Wired) PROVE (s \o x.queue[n]) \o fs = s \o (x.queue[n] \o fs)
    <3>1. x.queue[n] \in Seq(Wired)
      BY <1>4
    <3> QED BY <2>2, <2>3, <3>1, WiredAssociative
  <2> QED BY <1>2, <1>3, <1>7, <2>1, <2>3 DEF Sent
<1> QED BY <1>1, <1>2, <1>6, <1>8, <1>9 DEF Good, Lengthened

\* close at n cuts the stream from n off somewhere.
LEMMA CloseStreams ==
    ASSUME NEW n, NEW m, NEW x, Good(x, n, m), NEW k \in Nat, NEW y, y = close(x, n, k)
    PROVE  CutOff(x, y, n, m)
<1>1. x \in ConnOn({n, m}) /\ n # m /\ n \in {n, m} /\ m \in {n, m}
  BY DEF Good
<1>2. /\ y \in ConnOn({n, m}) /\ y.run = x.run
      /\ y.state = [x.state EXCEPT ![n] = "closed"]
      /\ y.queue = [x.queue EXCEPT ![n] = << >>]
      /\ ~y.writing[n] /\ (\A e \in {n, m} : e # n => (y.writing[e] <=> x.writing[e]))
      /\ y.got = [x.got EXCEPT ![n] = << >>]
      /\ \A e \in {n, m} : e # n => y.wire[e] = << >>
      /\ \E j \in 0..Len(x.wire[n]) : y.wire[n] = SubSeq(x.wire[n], 1, j)
  <2>1. PICK E : E = {n, m} /\ n \in E /\ x \in ConnOn(E)
    BY <1>1
  <2>2. ClosedFrom(x, y, n, E)
    BY <2>1, CloseFields
  <2> QED BY <2>1, <2>2 DEF ClosedFrom
<1>3. PICK j \in 0..Len(x.wire[n]) : y.wire[n] = SubSeq(x.wire[n], 1, j)
  BY <1>2
<1>4. x.wire[n] \in Seq(Wired) /\ Len(x.wire[n]) \in Nat /\ j \in Nat /\ j <= Len(x.wire[n])
  <2>1. x.wire[n] \in Seq(Wired)
    BY <1>1, PartTypes
  <2> QED BY <1>3, <2>1, LenProperties
<1>5. /\ y.wire[n] \in Seq(Wired) /\ Len(y.wire[n]) = j
      /\ \A i \in 1..j : y.wire[n][i] = x.wire[n][i]
  BY <1>3, <1>4, WirePrefix
<1>6. /\ y.state[n] = "closed" /\ y.state[m] = x.state[m] /\ y.queue[n] = << >> /\ y.queue[m] = x.queue[m]
      /\ ~y.writing[n] /\ (y.writing[m] <=> x.writing[m]) /\ y.got[n] = << >> /\ y.got[m] = x.got[m]
      /\ y.wire[m] = << >>
  <2>1. /\ x.state \in [{n, m} -> {"hello", "open", "closed"}] /\ x.queue \in [{n, m} -> Seq(Frame)]
        /\ x.got \in [{n, m} -> Seq(Frame)]
    BY <1>1, ConnFields
  <2> QED BY <1>1, <1>2, <2>1
<1>7. EndOk(y, n, m)
  <2>1. Len(y.wire[m]) = 0
    BY <1>6, EmptySeq
  <2> QED BY <1>6, <2>1 DEF EndOk
<1>8. EndOk(y, m, n)
  <2>1. \A i \in 1..j : i \in 1..Len(x.wire[n])
    BY <1>4
  <2> QED BY <1>1, <1>5, <1>6, <2>1 DEF EndOk, Good
<1>9. Begins(Body(y, m, n), Body(x, m, n))
  <2>1. CASE x.state[m] # "hello"
    BY <1>4, <1>5, <1>6, <2>1 DEF Body, Begins
  <2>2. CASE x.state[m] = "hello" /\ j = 0
    <3>1. y.wire[n] = << >>
      BY <1>5, <2>2, EmptySeq
    <3>2. Body(y, m, n) = << >> /\ Len(Body(y, m, n)) = 0
      BY <3>1, EmptySeq DEF Body
    <3>3. Len(Body(x, m, n)) \in Nat
      BY <1>1, PartTypes, LenProperties
    <3> QED BY <3>2, <3>3 DEF Begins
  <2>3. CASE x.state[m] = "hello" /\ j # 0
    <3>1. y.wire[n] # << >> /\ x.wire[n] # << >>
      BY <1>4, <1>5, <2>3, EmptySeq
    <3>2. Body(y, m, n) = Tail(y.wire[n]) /\ Body(x, m, n) = Tail(x.wire[n])
      BY <1>6, <2>3, <3>1 DEF Body
    <3>3. /\ Len(Tail(y.wire[n])) = j - 1 /\ Len(Tail(x.wire[n])) = Len(x.wire[n]) - 1
          /\ \A i \in 1..j - 1 : Tail(y.wire[n])[i] = y.wire[n][i + 1]
          /\ \A i \in 1..Len(x.wire[n]) - 1 : Tail(x.wire[n])[i] = x.wire[n][i + 1]
      BY <1>4, <1>5, <3>1, HeadTailProperties
    <3>4. \A i \in 1..j - 1 : Tail(y.wire[n])[i] = Tail(x.wire[n])[i]
      BY <1>4, <1>5, <3>3
    <3> QED BY <1>4, <3>2, <3>3, <3>4 DEF Begins
  <2> QED BY <1>4, <2>1, <2>2, <2>3
<1>10. Begins(Sent(y, m, n), Sent(x, m, n))
  <2>1. /\ x.got[m] \in Seq(Wired) /\ Body(x, m, n) \in Seq(Wired) /\ x.queue[n] \in Seq(Wired)
        /\ Body(y, m, n) \in Seq(Wired)
    BY <1>1, <1>2, PartTypes
  <2>2. Begins((x.got[m] \o Body(y, m, n)) \o << >>, (x.got[m] \o Body(x, m, n)) \o x.queue[n])
    BY <1>9, <2>1, BeginsConcat
  <2> QED BY <1>6, <2>2 DEF Sent
<1> QED BY <1>1, <1>2, <1>6, <1>7, <1>8, <1>10 DEF Good, CutOff

\* The end of the handshake at n changes neither stream.
LEMMA OpenStreams ==
    ASSUME NEW n, NEW m, NEW x, Good(x, n, m), x.state[n] = "hello", x.wire[m] # << >>,
           NEW y, y = Open(x, n, m)
    PROVE  Opened(x, y, n, m)
<1>1. x \in ConnOn({n, m}) /\ n # m /\ n \in {n, m} /\ m \in {n, m}
  BY DEF Good
<1>2. /\ y \in ConnOn({n, m}) /\ y.run = x.run /\ y.queue = x.queue
      /\ y.writing = x.writing /\ y.got = x.got
      /\ y.state = [x.state EXCEPT ![n] = "open"]
      /\ y.wire = [x.wire EXCEPT ![m] = Tail(x.wire[m])]
  BY <1>1, OpenFields
<1>3. /\ y.state[n] = "open" /\ y.state[m] = x.state[m]
      /\ y.wire[n] = x.wire[n] /\ y.wire[m] = Tail(x.wire[m])
  BY <1>1, <1>2, ConnFields
<1>4. x.wire[m] \in Seq(Wired)
  BY <1>1, PartTypes
<1>5. /\ Len(Tail(x.wire[m])) = Len(x.wire[m]) - 1 /\ Len(x.wire[m]) \in Nat
      /\ \A i \in 1..Len(Tail(x.wire[m])) : Tail(x.wire[m])[i] = x.wire[m][i + 1]
  BY <1>4, HeadTailProperties, LenProperties
<1>6. EndOk(y, n, m)
  <2>1. ASSUME NEW i \in 1..Len(y.wire[m]) PROVE y.wire[m][i] # HELLO
    <3>1. i + 1 \in 1..Len(x.wire[m]) /\ y.wire[m][i] = x.wire[m][i + 1] /\ i + 1 # 1
      BY <1>3, <1>5, <2>1
    <3> QED BY <3>1 DEF Good, EndOk
  <2> QED BY <1>2, <1>3, <2>1 DEF EndOk, Good
<1>7. EndOk(y, m, n)
  BY <1>2, <1>3 DEF EndOk, Good
<1>8. Body(y, n, m) = Body(x, n, m) /\ Body(y, m, n) = Body(x, m, n)
  BY <1>3 DEF Body
<1> QED BY <1>1, <1>2, <1>3, <1>6, <1>7, <1>8 DEF Good, Sent, Opened

\* Writing a frame changes neither stream.
LEMMA WrittenStreams ==
    ASSUME NEW n, NEW m, NEW x, Good(x, n, m), x.queue[n] # << >>, NEW y, y = Written(x, n)
    PROVE  Moved(x, y, n, m)
<1>1. x \in ConnOn({n, m}) /\ n # m /\ n \in {n, m} /\ m \in {n, m}
  BY DEF Good
<1>2. x.queue[n] # << >> /\ x.state[n] = "open"
  BY DEF Good, EndOk
<1>3. /\ y \in ConnOn({n, m}) /\ y.run = x.run /\ y.state = x.state /\ y.got = x.got
      /\ y.wire = [x.wire EXCEPT ![n] = Append(x.wire[n], Head(x.queue[n]))]
      /\ y.queue = [x.queue EXCEPT ![n] = Tail(x.queue[n])]
      /\ (y.writing[n] <=> Len(x.queue[n]) > 1)
      /\ (\A e \in {n, m} : e # n => (y.writing[e] <=> x.writing[e]))
      /\ Head(x.queue[n]) \in Frame
  <2>1. PICK E : E = {n, m} /\ n \in E /\ x \in ConnOn(E)
    BY <1>1
  <2>2. /\ y \in ConnOn(E) /\ y.run = x.run /\ y.state = x.state /\ y.got = x.got
        /\ y.wire = [x.wire EXCEPT ![n] = Append(x.wire[n], Head(x.queue[n]))]
        /\ y.queue = [x.queue EXCEPT ![n] = Tail(x.queue[n])]
        /\ (y.writing[n] <=> Len(x.queue[n]) > 1)
        /\ (\A e \in E : e # n => (y.writing[e] <=> x.writing[e]))
        /\ Head(x.queue[n]) \in Frame
    BY <1>2, <2>1, WrittenFields
  <2> QED BY <2>1, <2>2
<1>4. /\ y.wire[m] = x.wire[m] /\ y.queue[m] = x.queue[m] /\ (y.writing[m] <=> x.writing[m])
      /\ y.wire[n] = Append(x.wire[n], Head(x.queue[n])) /\ y.queue[n] = Tail(x.queue[n])
      /\ (y.writing[n] <=> Len(x.queue[n]) > 1)
  BY <1>1, <1>3, ConnFields
<1>5. /\ x.wire[n] \in Seq(Wired) /\ x.queue[n] \in Seq(Wired) /\ x.got[m] \in Seq(Wired)
      /\ Body(x, m, n) \in Seq(Wired)
  BY <1>1, PartTypes
<1>6. Head(x.queue[n]) \in Wired /\ Head(x.queue[n]) # HELLO
  BY <1>3, HelloNoFrame
<1>7. EndOk(y, n, m)
  <2>1. y.writing[n] <=> y.queue[n] # << >>
    <3>1. PICK q \in Seq(Wired) : q = x.queue[n]
      BY <1>5
    <3>2. Len(Tail(q)) = Len(q) - 1 /\ Len(q) \in Nat /\ Tail(q) \in Seq(Wired)
      BY <1>2, <3>1, HeadTailProperties, LenProperties
    <3>3. Tail(q) # << >> <=> Len(Tail(q)) # 0
      BY <3>2, EmptySeq
    <3>4. y.writing[n] <=> Len(q) > 1
      BY <1>4, <3>1
    <3>5. y.queue[n] = Tail(q)
      BY <1>4, <3>1
    <3>6. Len(Tail(q)) # 0 <=> Len(q) > 1
      <4>1. Len(q) # 0
        BY <1>2, <3>1, EmptySeq
      <4> QED BY <3>2, <4>1
    <3> QED BY <3>3, <3>4, <3>5, <3>6
  <2> QED BY <1>2, <1>3, <1>4, <2>1 DEF EndOk, Good
<1>8. EndOk(y, m, n)
  <2>1. /\ y.wire[n] # << >> /\ Len(y.wire[n]) = Len(x.wire[n]) + 1 /\ Len(x.wire[n]) \in Nat
        /\ \A i \in 1..Len(x.wire[n]) : y.wire[n][i] = x.wire[n][i]
        /\ y.wire[n][Len(x.wire[n]) + 1] = Head(x.queue[n])
    <3>1. PICK w \in Seq(Wired), h \in Wired : w = x.wire[n] /\ h = Head(x.queue[n])
      BY <1>5, <1>6
    <3>2. y.wire[n] = Append(w, h)
      BY <1>4, <3>1
    <3>3. /\ Append(w, h) # << >> /\ Len(Append(w, h)) = Len(w) + 1 /\ Len(w) \in Nat
          /\ \A i \in 1..Len(w) : Append(w, h)[i] = w[i]
          /\ Append(w, h)[Len(w) + 1] = h
      BY AppendProperties, LenProperties
    <3> QED BY <3>1, <3>2, <3>3
  <2>2. x.state[m] = "hello" => Len(x.wire[n]) >= 1
    <3>1. x.state[m] = "hello" => x.wire[n] # << >>
      BY <1>2 DEF Good, EndOk
    <3> QED BY <1>5, <3>1, EmptySeq
  <2>3. ASSUME NEW i \in 1..Len(y.wire[n])
        PROVE  y.wire[n][i] = HELLO <=> i = 1 /\ y.state[m] = "hello"
    <3>1. CASE i \in 1..Len(x.wire[n])
      BY <1>3, <2>1, <3>1 DEF Good, EndOk
    <3>2. CASE i = Len(x.wire[n]) + 1
      BY <1>3, <1>6, <2>1, <2>2, <3>2
    <3> QED BY <2>1, <2>3, <3>1, <3>2
  <2> QED BY <1>3, <1>4, <2>1, <2>3 DEF EndOk, Good
<1>9. Body(y, n, m) = Body(x, n, m)
  BY <1>3, <1>4 DEF Body
<1>10. Body(y, m, n) = Append(Body(x, m, n), Head(x.queue[n]))
  <2>1. x.state[m] = "hello" => x.wire[n] # << >>
    BY <1>2 DEF Good, EndOk
  <2>2. y.wire[n] # << >> /\ (x.wire[n] # << >> => Tail(y.wire[n]) = Append(Tail(x.wire[n]), Head(x.queue[n])))
    BY <1>4, <1>5, <1>6, HeadTailAppend, AppendProperties
  <2> QED BY <1>3, <1>4, <2>1, <2>2 DEF Body
<1>11. Sent(y, m, n) = Sent(x, m, n)
  <2>1. x.got[m] \o Append(Body(x, m, n), Head(x.queue[n]))
          = Append(x.got[m] \o Body(x, m, n), Head(x.queue[n]))
    <3>1. ASSUME NEW a \in Seq(Wired), NEW b \in Seq(Wired), NEW h \in Wired
          PROVE  a \o Append(b, h) = Append(a \o b, h)
      <4>1. <<h>> \in Seq(Wired) /\ Append(b, h) = b \o <<h>>
        BY <3>1, AppendIsConcat
      <4>2. a \o b \in Seq(Wired)
        BY <3>1, ConcatProperties
      <4>3. Append(a \o b, h) = (a \o b) \o <<h>>
        BY <3>1, <4>2, AppendIsConcat
      <4>4. (a \o b) \o <<h>> = a \o (b \o <<h>>)
        BY <3>1, <4>1, ConcatAssociative
      <4> QED BY <4>1, <4>3, <4>4
    <3> QED BY <1>5, <1>6, <3>1
  <2>2. x.got[m] \o Body(x, m, n) \in Seq(Wired)
    BY <1>5, ConcatProperties
  <2>3. Append(x.got[m] \o Body(x, m, n), Head(x.queue[n])) \o Tail(x.queue[n])
          = (x.got[m] \o Body(x, m, n)) \o x.queue[n]
    BY <1>2, <1>5, <2>2, MoveHead
  <2> QED BY <1>3, <1>4, <1>10, <2>1, <2>3 DEF Sent
<1>12. Sent(y, n, m) = Sent(x, n, m)
  BY <1>3, <1>4, <1>9 DEF Sent
<1> QED BY <1>1, <1>3, <1>7, <1>8, <1>11, <1>12 DEF Good, Moved

\* Reading a frame changes neither stream.
LEMMA ReadStreams ==
    ASSUME NEW n, NEW m, NEW x, Good(x, n, m), x.state[n] = "open", x.wire[m] # << >>,
           NEW y, y = Read(x, n, m)
    PROVE  Moved(x, y, n, m)
<1>1. x \in ConnOn({n, m}) /\ n # m /\ n \in {n, m} /\ m \in {n, m}
  BY DEF Good
<1>10. Head(x.wire[m]) \in Frame
  <2>1. PICK w \in Seq(Wired) : w = x.wire[m] /\ w # << >>
    BY <1>1, PartTypes
  <2>2. Len(w) \in Nat \ {0} /\ Head(w) = w[1] /\ Head(w) \in Wired
    BY <2>1, EmptySeq, HeadTailProperties
  <2>3. w[1] # HELLO
    <3>1. 1 \in 1..Len(w)
      BY <2>2
    <3> QED BY <2>1, <3>1 DEF Good, EndOk
  <2> QED BY <2>1, <2>2, <2>3 DEF Wired
<1>2. /\ y \in ConnOn({n, m}) /\ y.run = x.run /\ y.state = x.state
      /\ y.queue = x.queue /\ y.writing = x.writing
      /\ y.wire = [x.wire EXCEPT ![m] = Tail(x.wire[m])]
      /\ y.got = [x.got EXCEPT ![n] = Append(x.got[n], Head(x.wire[m]))]
  BY <1>10, <1>1, ReadFields
<1>3. /\ y.wire[m] = Tail(x.wire[m]) /\ y.wire[n] = x.wire[n]
      /\ y.got[n] = Append(x.got[n], Head(x.wire[m])) /\ y.got[m] = x.got[m]
  BY <1>1, <1>2, ConnFields
<1>4. x.wire[m] \in Seq(Wired) /\ x.got[n] \in Seq(Wired)
  BY <1>1, PartTypes
<1>5. /\ Len(Tail(x.wire[m])) = Len(x.wire[m]) - 1 /\ Len(x.wire[m]) \in Nat
      /\ \A i \in 1..Len(Tail(x.wire[m])) : Tail(x.wire[m])[i] = x.wire[m][i + 1]
  BY <1>4, HeadTailProperties, LenProperties
<1>6. EndOk(y, n, m)
  <2>1. ASSUME NEW i \in 1..Len(y.wire[m]) PROVE y.wire[m][i] # HELLO
    <3>1. i + 1 \in 1..Len(x.wire[m]) /\ y.wire[m][i] = x.wire[m][i + 1] /\ i + 1 # 1
      BY <1>3, <1>5, <2>1
    <3> QED BY <3>1 DEF Good, EndOk
  <2> QED BY <1>2, <2>1 DEF EndOk, Good
<1>7. EndOk(y, m, n)
  BY <1>2, <1>3 DEF EndOk, Good
<1>8. Body(y, m, n) = Body(x, m, n) /\ Body(y, n, m) = Tail(x.wire[m]) /\ Body(x, n, m) = x.wire[m]
  BY <1>2, <1>3 DEF Body
<1>9. Append(x.got[n], Head(x.wire[m])) \o Tail(x.wire[m]) = x.got[n] \o x.wire[m]
  BY <1>4, MoveHead
<1> QED BY <1>1, <1>2, <1>3, <1>6, <1>7, <1>8, <1>9 DEF Good, Sent, Moved

\* A new connection has carried nothing.
LEMMA NewStreams ==
    ASSUME Typed, NEW n \in Node, NEW m \in Node, n # m, NEW y, y = NewConnection(n, m)
    PROVE  /\ Good(y, n, m) /\ y.run = [e \in {n, m} |-> run[e]]
           /\ y.state[n] = "hello" /\ y.state[m] = "hello"
           /\ Sent(y, n, m) = << >> /\ Sent(y, m, n) = << >>
<1>1. /\ y \in ConnOn({n, m}) /\ y.run = [e \in {n, m} |-> run[e]]
      /\ \A e \in {n, m} : /\ y.state[e] = "hello" /\ y.queue[e] = << >> /\ ~y.writing[e]
                           /\ y.wire[e] = <<HELLO>> /\ y.got[e] = << >>
  <2>1. MadeFor(y, n, m)
    BY NewFields
  <2> QED BY <2>1 DEF MadeFor
<1>2. <<HELLO>> # << >> /\ Tail(<<HELLO>>) = << >> /\ Len(<<HELLO>>) = 1 /\ <<HELLO>>[1] = HELLO
  <2>1. <<HELLO>> \in Seq({HELLO}) /\ Len(<<HELLO>>) = 1 /\ <<HELLO>>[1] = HELLO
    OBVIOUS
  <2>2. <<HELLO>> # << >>
    BY <2>1, EmptySeq
  <2>3. Tail(<<HELLO>>) \in Seq({HELLO}) /\ Len(Tail(<<HELLO>>)) = 0
    BY <2>1, <2>2, HeadTailProperties
  <2> QED BY <2>1, <2>2, <2>3, EmptySeq
<1>3. \A a, b \in {n, m} : EndOk(y, a, b)
  <2>1. \A i \in 1..Len(<<HELLO>>) : i = 1
    BY <1>2
  <2> QED BY <1>1, <1>2, <2>1 DEF EndOk
<1>4. \A a, b \in {n, m} : Sent(y, a, b) = << >>
  <2>1. (<< >> \o << >>) \o << >> = << >>
    <3>1. << >> \in Seq(Wired)
      BY EmptySeq
    <3> QED BY <3>1, ConcatEmptySeq
  <2> QED BY <1>1, <1>2, <2>1 DEF Sent, Body
<1> QED BY <1>1, <1>3, <1>4 DEF Good

-----------------------------------------------------------------------------
(* Steps that make no connection *)

\* The ends of a connection are two nodes.
LEMMA ConnAt ==
    ASSUME Typed, NEW c \in 1..Len(conns)
    PROVE  \E n, m \in Node : n # m /\ Ends(c) = {n, m} /\ conns[c] \in ConnOn({n, m})
<1>1. conns[c] \in Conn
  BY ElementOfSeq DEF Typed
<1>2. PICK E \in Pairs : conns[c] \in ConnOn(E)
  BY <1>1 DEF Conn
<1>3. PICK n \in Node, m \in Node : n # m /\ E = {n, m}
  BY <1>2 DEF Pairs
<1>4. Ends(c) = E
  BY <1>2, ConnFields DEF Ends
<1> QED BY <1>2, <1>3, <1>4

\* Other names the other of two ends.
LEMMA OtherIs ==
    ASSUME NEW c, NEW n, NEW m, n # m, Ends(c) = {n, m}
    PROVE  Other(c, n) = m /\ Other(c, m) = n
BY DEF Other

\* A connection seen from one of its ends.
LEMMA EndAt ==
    ASSUME Typed, EndInv, NEW c \in 1..Len(conns), NEW n \in Ends(c)
    PROVE  \E m \in Node : /\ n \in Node /\ n # m /\ Ends(c) = {n, m} /\ Other(c, n) = m
                           /\ m \in Ends(c) /\ Good(conns[c], n, m) /\ Good(conns[c], m, n)
<1>1. PICK a \in Node, b \in Node : a # b /\ Ends(c) = {a, b} /\ conns[c] \in ConnOn({a, b})
  BY ConnAt
<1>2. PICK m \in Node : n \in Node /\ n # m /\ {n, m} = {a, b} /\ {m, n} = {a, b}
  BY <1>1
<1>3. Ends(c) = {n, m} /\ m \in Ends(c) /\ conns[c] \in ConnOn({n, m}) /\ conns[c] \in ConnOn({m, n})
  BY <1>1, <1>2
<1>4. EndOk(conns[c], n, m) /\ EndOk(conns[c], m, n)
  BY <1>2, <1>3 DEF EndInv
<1>5. Other(c, n) = m
  BY <1>2, <1>3, OtherIs
<1> QED BY <1>2, <1>3, <1>4, <1>5 DEF Good

\* The connection y is what x may become.
Successor(x, y, n, m) ==
    /\ Good(y, n, m) /\ y.run = x.run
    /\ \A e \in {n, m} : y.state[e] # "closed" => x.state[e] # "closed"

\* Every connection becomes what it may.
Stepped ==
    /\ conns' = [d \in 1..Len(conns) |-> conns'[d]]
    /\ \A d \in 1..Len(conns) : \A n, m \in Ends(d) :
          n # m => Successor(conns[d], conns'[d], n, m)

\* A connection that does not change.
LEMMA SuccessorSame ==
    ASSUME NEW n, NEW m, NEW x, Good(x, n, m)
    PROVE  Successor(x, x, n, m)
BY DEF Successor

\* Good does not depend on the order of the ends.
LEMMA GoodSwap ==
    ASSUME NEW n, NEW m, NEW x, Good(x, n, m)
    PROVE  Good(x, m, n)
<1>1. {n, m} = {m, n}
  OBVIOUS
<1>2. x \in ConnOn({m, n}) /\ m # n
  BY <1>1 DEF Good
<1> QED BY <1>2 DEF Good

\* What such a step leaves as it is.
LEMMA SteppedFacts ==
    ASSUME Typed, EndInv, OneConnection, Stepped
    PROVE  /\ conns' \in Seq(Conn) /\ Len(conns') = Len(conns)
           /\ \A d \in 1..Len(conns) : Ends(d)' = Ends(d) /\ conns'[d].run = conns[d].run
           /\ \A d \in 1..Len(conns) : \A e \in Ends(d) :
                 conns'[d].state[e] # "closed" => conns[d].state[e] # "closed"
           /\ EndInv' /\ OneConnection'
<1>1. Len(conns) \in Nat
  BY LenProperties DEF Typed
<1>2. ASSUME NEW d \in 1..Len(conns)
      PROVE  /\ conns'[d] \in Conn /\ DOMAIN (conns'[d].state) = Ends(d) /\ conns'[d].run = conns[d].run
             /\ \A n, m \in Ends(d) : n # m => EndOk(conns'[d], n, m)
             /\ \A e \in Ends(d) : conns'[d].state[e] # "closed" => conns[d].state[e] # "closed"
  <2>1. PICK n \in Node, m \in Node : n # m /\ Ends(d) = {n, m} /\ conns[d] \in ConnOn({n, m})
    BY <1>2, ConnAt
  <2>2. Successor(conns[d], conns'[d], n, m)
    BY <1>2, <2>1 DEF Stepped
  <2>3. conns'[d] \in ConnOn({n, m}) /\ EndOk(conns'[d], n, m) /\ EndOk(conns'[d], m, n)
    BY <2>2 DEF Successor, Good
  <2>4. {n, m} \in Pairs
    BY <2>1 DEF Pairs
  <2>5. conns'[d] \in Conn
    BY <2>3, <2>4 DEF Conn
  <2>6. DOMAIN (conns'[d].state) = {n, m}
    BY <2>3, ConnFields
  <2> QED BY <2>1, <2>2, <2>3, <2>5, <2>6 DEF Successor
<1>3. conns' \in Seq(Conn) /\ Len(conns') = Len(conns)
  <2>1. PICK f : f = conns'
    OBVIOUS
  <2>2. f = [d \in 1..Len(conns) |-> f[d]] /\ \A d \in 1..Len(conns) : f[d] \in Conn
    BY <1>2, <2>1 DEF Stepped
  <2>3. f \in Seq(Conn) /\ Len(f) = Len(conns)
    BY <1>1, <2>2
  <2> QED BY <2>1, <2>3
<1>4. \A d \in 1..Len(conns) : Ends(d)' = Ends(d)
  BY <1>2 DEF Ends
<1>5. EndInv'
  BY <1>2, <1>3, <1>4 DEF EndInv
<1>6. OneConnection'
  BY <1>2, <1>3 DEF OneConnection
<1> QED BY <1>2, <1>3, <1>4, <1>5, <1>6

\* One connection changes.
LEMMA UpdateStep ==
    ASSUME Typed, EndInv, NEW c \in 1..Len(conns), NEW n, NEW m, n # m, Ends(c) = {n, m},
           NEW y, Successor(conns[c], y, n, m), conns' = [conns EXCEPT ![c] = y]
    PROVE  Stepped /\ conns'[c] = y /\ \A d \in 1..Len(conns) : d # c => conns'[d] = conns[d]
<1>1. DOMAIN conns = 1..Len(conns) /\ conns = [d \in 1..Len(conns) |-> conns[d]]
  BY LenProperties DEF Typed
<1>2. conns'[c] = y /\ \A d \in 1..Len(conns) : d # c => conns'[d] = conns[d]
  BY <1>1
<1>3. conns' = [d \in 1..Len(conns) |-> conns'[d]]
  BY <1>1
<1>4. ASSUME NEW d \in 1..Len(conns), NEW a \in Ends(d), NEW b \in Ends(d), a # b
      PROVE  Successor(conns[d], conns'[d], a, b)
  <2>1. CASE d = c
    <3>1. {a, b} = {n, m} /\ ((a = n /\ b = m) \/ (a = m /\ b = n))
      BY <1>4, <2>1
    <3>2. Good(y, a, b)
      BY <3>1, GoodSwap DEF Successor
    <3> QED BY <1>2, <2>1, <3>1, <3>2 DEF Successor
  <2>2. CASE d # c
    <3>1. PICK e \in Node : Ends(d) = {a, e} /\ Good(conns[d], a, e)
      BY <1>4, EndAt
    <3>2. Good(conns[d], a, b)
      BY <1>4, <3>1
    <3> QED BY <1>2, <2>2, <3>2, SuccessorSame
  <2> QED BY <2>1, <2>2
<1> QED BY <1>2, <1>3, <1>4 DEF Stepped

\* No process starts, dies or begins to dial.
LEMMA RunsKept ==
    ASSUME Typed, EndInv, OneConnection, RunInv, DialInv, Stepped, UNCHANGED <<alive, run>>,
           \A n, m \in Node : dial'[n][m] # "no" => dial[n][m] # "no"
    PROVE  RunInv' /\ DialInv'
<1>1. /\ Len(conns') = Len(conns)
      /\ \A d \in 1..Len(conns) : Ends(d)' = Ends(d) /\ conns'[d].run = conns[d].run
      /\ \A d \in 1..Len(conns) : \A e \in Ends(d) :
            conns'[d].state[e] # "closed" => conns[d].state[e] # "closed"
  BY SteppedFacts
<1>2. RunInv'
  BY <1>1 DEF RunInv
<1>3. DialInv'
  BY <1>1 DEF DialInv
<1> QED BY <1>2, <1>3

\* Whether it is the first connection of a process does not change either.
LEMMA FirstKept ==
    ASSUME Typed, EndInv, OneConnection, Stepped, NEW c \in 1..Len(conns), NEW n, NEW m
    PROVE  First(c, n, m)' <=> First(c, n, m)
<1>1. /\ Len(conns') = Len(conns)
      /\ \A d \in 1..Len(conns) : Ends(d)' = Ends(d) /\ conns'[d].run = conns[d].run
  BY SteppedFacts
<1> QED BY <1>1 DEF First

\* A stream that does not change, and what send took for it.
LEMMA StreamKept ==
    ASSUME NEW c, NEW n, NEW m, StreamOk(c, n, m),
           Sent(conns'[c], n, m) = Sent(conns[c], n, m),
           conns'[c].state[m] = "hello" => conns[c].state[m] = "hello",
           First(c, n, m)' => First(c, n, m),
           connections'[m][n] = c => connections[m][n] = c /\ accepted'[m][n] = accepted[m][n]
    PROVE  StreamOk(c, n, m)'
<1>1. Sent(conns[c], n, m)' = Sent(conns[c], n, m)
  BY DEF Sent, Body
<1> QED BY <1>1 DEF StreamOk

\* A stream that is cut off.
LEMMA StreamCut ==
    ASSUME NEW c, NEW n, NEW m, StreamOk(c, n, m),
           Sent(conns[c], n, m) \in Seq(Wired), Sent(conns'[c], n, m) \in Seq(Wired),
           Begins(Sent(conns'[c], n, m), Sent(conns[c], n, m)),
           conns'[c].state[m] # "hello", First(c, n, m)' => First(c, n, m),
           connections'[m][n] # c
    PROVE  StreamOk(c, n, m)'
<1>1. Sent(conns[c], n, m)' = Sent(conns'[c], n, m)
  BY DEF Sent, Body
<1>2. PICK s \in Seq(Wired) : s = Sent(conns[c], n, m)
  OBVIOUS
<1>3. PICK p \in Seq(Wired) : p = Sent(conns'[c], n, m)
  OBVIOUS
<1>4. Numbered(s) /\ (s # << >> /\ First(c, n, m) => s[1].k = 1)
  BY <1>2 DEF StreamOk
<1>5. Numbered(p) /\ (p # << >> => s # << >> /\ p[1] = s[1])
  BY <1>2, <1>3, <1>4, BeginsNumbered
<1> QED BY <1>1, <1>3, <1>4, <1>5 DEF StreamOk

\* LinkInv after a step, for each entry by its value.
LEMMA LinkAfter ==
    ASSUME \A n, m \in Node : \A c, l :
               c = connections'[n][m] /\ l = last'[n][m] => LinkOk(n, m, c, l)'
    PROVE  LinkInv'
<1> SUFFICES ASSUME NEW n \in Node, NEW m \in Node
             PROVE  LinkOk(n, m, connections[n][m], last[n][m])'
  BY DEF LinkInv
<1>1. PICK c, l : c = connections'[n][m] /\ l = last'[n][m]
  OBVIOUS
<1>2. LinkOk(n, m, c, l)'
  BY <1>1
<1> QED BY <1>1, <1>2 DEF LinkOk, Ends

\* LinkInv for one entry.
LEMMA LinkBefore ==
    ASSUME LinkInv, NEW n \in Node, NEW m \in Node, NEW c, NEW l,
           c = connections[n][m], l = last[n][m]
    PROVE  LinkOk(n, m, c, l)
BY DEF LinkInv

-----------------------------------------------------------------------------
(* Dialling and starting *)

\* The invariants of connections and frames speak of these variables only.
LEMMA FramesUntouched ==
    ASSUME IInv, UNCHANGED <<conns, connections, pending_frames, accepted, last>>
    PROVE  EndInv' /\ OneConnection' /\ StreamInv' /\ PendingInv'
<1>1. EndInv' /\ OneConnection' /\ PendingInv'
  BY DEF IInv, EndInv, Ends, OneConnection, PendingInv
<1>2. \A c, n, m : First(c, n, m)' <=> First(c, n, m)
  BY DEF First, Ends
<1>3. \A c, n, m : StreamOk(c, n, m)' <=> StreamOk(c, n, m)
  BY <1>2 DEF StreamOk
<1>4. StreamInv'
  BY <1>3 DEF IInv, StreamInv, Ends
<1> QED BY <1>1, <1>4

\* ConnectFails and Redial.
LEMMA DialSteps ==
    ASSUME IInv, NEW n \in Node, NEW m \in Node, ConnectFails(n, m) \/ Redial(n, m)
    PROVE  IInv'
<1>1. UNCHANGED <<alive, run, conns, connections, pending_frames, accepted, last>>
  BY DEF ConnectFails, Redial
<1>2. PICK v \in {"no", "connecting", "timer"} : dial' = [dial EXCEPT ![n][m] = v]
  BY DEF ConnectFails, Redial, schedule_reconnect
<1>3. dial[n][m] # "no"
  BY DEF ConnectFails, Refused, Redial
<1>4. breaks' \in 0..MaxBreaks
  <2>1. MaxBreaks \in Nat /\ breaks \in 0..MaxBreaks
    BY NodesAssumption DEF IInv, Typed
  <2> QED BY <2>1 DEF ConnectFails, Refused, Redial
<1>5. dial' \in [Node -> [Node -> {"no", "connecting", "timer"}]]
  BY <1>2 DEF IInv, Typed
<1>6. Typed'
  BY <1>1, <1>4, <1>5 DEF IInv, Typed
<1>7. \A a, b \in Node : dial'[a][b] # "no" => dial[a][b] # "no"
  BY <1>2, <1>3 DEF IInv, Typed
<1>8. RunInv' /\ DialInv' /\ LinkInv'
  <2>1. RunInv' /\ DialInv'
    BY <1>1, <1>7 DEF IInv, RunInv, DialInv, Ends
  <2>2. \A a, b, c, l : LinkOk(a, b, c, l)' <=> LinkOk(a, b, c, l)
    BY <1>1 DEF LinkOk, Ends
  <2>3. LinkInv'
    BY <1>1, <2>2, LinkAfter DEF IInv, LinkInv
  <2> QED BY <2>1, <2>3
<1>9. EndInv' /\ OneConnection' /\ StreamInv' /\ PendingInv'
  BY <1>1, FramesUntouched
<1> QED BY <1>6, <1>8, <1>9 DEF IInv

\* start dials the nodes that are for this one to connect to.
LEMMA StartStep ==
    ASSUME IInv, NEW n \in Node, start(n)
    PROVE  IInv'
<1>1. /\ n \notin alive /\ alive' = alive \cup {n} /\ run[n] < MaxStarts
      /\ run' = [run EXCEPT ![n] = run[n] + 1]
      /\ dial' = [dial EXCEPT ![n] =
             [m \in Node |-> IF should_connect(n, m) THEN "connecting" ELSE "no"]]
      /\ UNCHANGED <<conns, connections, pending_frames, accepted, last, breaks>>
  BY DEF start
<1>2. Typed /\ RunInv /\ DialInv /\ LinkInv
  BY DEF IInv
<1>3. run \in [Node -> Nat] /\ MaxStarts \in Nat
  <2>1. MaxStarts \in Nat /\ run \in [Node -> 0..MaxStarts]
    BY <1>2, NodesAssumption DEF Typed
  <2> QED BY <2>1
<1>4. run'[n] = run[n] + 1 /\ \A a \in Node : a # n => run'[a] = run[a]
  BY <1>1, <1>3
<1>5. Typed'
  <2>1. run' \in [Node -> 0..MaxStarts]
    <3>1. run[n] + 1 \in 0..MaxStarts
      BY <1>1, <1>3
    <3> QED BY <1>1, <1>2, <3>1 DEF Typed
  <2>2. dial' \in [Node -> [Node -> {"no", "connecting", "timer"}]]
    BY <1>1, <1>2 DEF Typed
  <2> QED BY <1>1, <1>2, <2>1, <2>2 DEF Typed
<1>6. ASSUME NEW c \in 1..Len(conns), NEW e \in Ends(c)
      PROVE  e \in Node /\ conns[c].run[e] \in Nat
  <2>1. PICK a \in Node, b \in Node : a # b /\ Ends(c) = {a, b} /\ conns[c] \in ConnOn({a, b})
    BY <1>2, <1>6, ConnAt
  <2> QED BY <1>6, <2>1, ConnFields
<1>7. RunInv'
  <2>1. \A a \in alive' : run'[a] >= 1
    <3>1. alive \subseteq Node /\ (\A a \in alive : run[a] >= 1) /\ run[n] \in Nat
      BY <1>2, <1>3 DEF RunInv, Typed
    <3> QED BY <1>1, <1>4, <3>1
  <2>2. ASSUME NEW c \in 1..Len(conns), NEW e \in Ends(c)
        PROVE  /\ conns[c].run[e] >= 1 /\ conns[c].run[e] <= run'[e]
               /\ conns[c].state[e] # "closed" => e \in alive' /\ conns[c].run[e] = run'[e]
    <3>1. e \in Node /\ conns[c].run[e] \in Nat
      BY <1>6, <2>2
    <3>2. /\ conns[c].run[e] >= 1 /\ conns[c].run[e] <= run[e]
          /\ conns[c].state[e] # "closed" => e \in alive /\ conns[c].run[e] = run[e]
      BY <1>2, <2>2 DEF RunInv
    <3> QED BY <1>1, <1>3, <1>4, <3>1, <3>2
  <2> QED BY <1>1, <2>1, <2>2 DEF RunInv, Ends
<1>8. DialInv'
  <2>1. ASSUME NEW a \in Node, NEW b \in Node, dial'[a][b] # "no"
        PROVE  /\ a \in alive' /\ a < b
               /\ \A c \in 1..Len(conns) : Ends(c) = {a, b} => conns[c].run[a] < run'[a]
    <3>1. CASE a = n
      <4>1. n < b
        BY <1>1, <1>2, <2>1, <3>1 DEF Typed, should_connect
      <4>2. ASSUME NEW c \in 1..Len(conns), Ends(c) = {a, b} PROVE conns[c].run[a] < run'[a]
        <5>1. conns[c].run[a] \in Nat /\ conns[c].run[a] <= run[a]
          BY <1>2, <1>6, <4>2 DEF RunInv
        <5> QED BY <1>3, <1>4, <3>1, <5>1
      <4> QED BY <1>1, <3>1, <4>1, <4>2
    <3>2. CASE a # n
      <4>1. dial[a][b] # "no"
        BY <1>1, <1>2, <2>1, <3>2 DEF Typed
      <4> QED BY <1>1, <1>2, <1>4, <2>1, <3>2, <4>1 DEF DialInv
    <3> QED BY <3>1, <3>2
  <2> QED BY <1>1, <2>1 DEF DialInv, Ends
<1>9. LinkInv'
  BY <1>1, <1>2, <1>4 DEF LinkInv, LinkOk, Ends
<1>10. EndInv' /\ OneConnection' /\ StreamInv' /\ PendingInv'
  BY <1>1, FramesUntouched
<1> QED BY <1>5, <1>7, <1>8, <1>9, <1>10 DEF IInv

\* Connect: the process that dials has not been connected with this one.
LEMMA ConnectStep ==
    ASSUME IInv, NEW n \in Node, NEW m \in Node, Connect(n, m)
    PROVE  IInv'
<1>1. /\ n \in alive /\ m \in alive /\ dial[n][m] # "no"
      /\ dial' = [dial EXCEPT ![n][m] = "no"]
      /\ UNCHANGED <<alive, run, connections, pending_frames, accepted, last, breaks>>
  BY DEF Connect
<1>2. PICK y : y = NewConnection(n, m)
  OBVIOUS
<1>3. conns' = Append(conns, y)
  BY <1>2 DEF Connect
<1>4. Typed /\ RunInv /\ DialInv /\ LinkInv /\ EndInv /\ OneConnection /\ StreamInv /\ PendingInv
  BY DEF IInv
<1>5. n < m /\ \A c \in 1..Len(conns) : Ends(c) = {n, m} => conns[c].run[n] < run[n]
  BY <1>1, <1>4 DEF DialInv
<1>6. n # m /\ n \in Nat /\ m \in Nat
  BY <1>5, NodesAssumption
<1>7. /\ Good(y, n, m) /\ y.run = [e \in {n, m} |-> run[e]]
      /\ y.state[n] = "hello" /\ y.state[m] = "hello"
      /\ Sent(y, n, m) = << >> /\ Sent(y, m, n) = << >>
  BY <1>2, <1>4, <1>6, NewStreams
<1>8. y \in Conn /\ DOMAIN (y.state) = {n, m}
  <2>1. y \in ConnOn({n, m}) /\ {n, m} \in Pairs
    BY <1>6, <1>7 DEF Good, Pairs
  <2> QED BY <2>1, ConnFields DEF Conn
<1>9. PICK k : k = Len(conns) + 1
  OBVIOUS
<1>10. /\ conns' \in Seq(Conn) /\ Len(conns) \in Nat /\ Len(conns') = k
       /\ conns'[k] = y /\ \A c \in 1..Len(conns) : conns'[c] = conns[c]
  <2>1. conns \in Seq(Conn)
    BY <1>4 DEF Typed
  <2> QED BY <1>3, <1>8, <1>9, <2>1, AppendProperties, LenProperties
<1>11. /\ \A c \in 1..Len(conns') : c \in 1..Len(conns) \/ c = k
       /\ Ends(k)' = {n, m} /\ \A c \in 1..Len(conns) : Ends(c)' = Ends(c) /\ c # k
  BY <1>8, <1>9, <1>10 DEF Ends
<1>12. Typed'
  <2>1. dial' \in [Node -> [Node -> {"no", "connecting", "timer"}]]
    BY <1>1, <1>4 DEF Typed
  <2> QED BY <1>1, <1>4, <1>10, <2>1 DEF Typed
<1>13. \A e \in {n, m} : y.run[e] = run[e] /\ run[e] \in Nat /\ run[e] >= 1
  <2>1. MaxStarts \in Nat /\ run \in [Node -> 0..MaxStarts]
    BY <1>4, NodesAssumption DEF Typed
  <2> QED BY <1>1, <1>4, <1>7, <2>1 DEF RunInv
<1>14. RunInv'
  BY <1>1, <1>4, <1>7, <1>10, <1>11, <1>13 DEF RunInv
<1>15. DialInv'
  <2>1. ASSUME NEW a \in Node, NEW b \in Node, dial'[a][b] # "no"
        PROVE  /\ a \in alive' /\ a < b
               /\ \A c \in 1..Len(conns') : Ends(c)' = {a, b} => conns'[c].run[a] < run'[a]
    <3>1. dial[a][b] # "no" /\ ~(a = n /\ b = m)
      BY <1>1, <1>4, <2>1 DEF Typed
    <3>2. a < b /\ a \in alive /\ \A c \in 1..Len(conns) : Ends(c) = {a, b} => conns[c].run[a] < run[a]
      BY <1>4, <2>1, <3>1 DEF DialInv
    <3>3. {a, b} # {n, m}
      <4>1. a \in Nat /\ b \in Nat
        BY <2>1, NodesAssumption
      <4>2. {a, b} = {n, m} => (a = n /\ b = m) \/ (a = m /\ b = n)
        OBVIOUS
      <4> QED BY <1>5, <1>6, <3>1, <3>2, <4>1, <4>2
    <3> QED BY <1>1, <1>10, <1>11, <3>2, <3>3
  <2> QED BY <2>1 DEF DialInv
<1>16. OneConnection'
  <2>1. ASSUME NEW c \in 1..Len(conns), conns[c].run = y.run PROVE FALSE
    <3>1. PICK a \in Node, b \in Node : Ends(c) = {a, b} /\ conns[c] \in ConnOn({a, b})
      BY <1>4, <2>1, ConnAt
    <3>2. DOMAIN (conns[c].run) = Ends(c) /\ conns[c].run[n] = run[n]
      BY <1>13, <2>1, <3>1, ConnFields
    <3>3. Ends(c) = {n, m}
      BY <1>7, <2>1, <3>2
    <3>4. conns[c].run[n] < run[n] /\ run[n] \in Nat
      BY <1>5, <1>13, <2>1, <3>3
    <3> QED BY <3>2, <3>4
  <2> QED BY <1>4, <1>10, <1>11, <2>1 DEF OneConnection
<1>17. LinkInv'
  <2>1. ASSUME NEW a \in Node, NEW b \in Node, NEW c, NEW l,
               c = connections'[a][b], l = last'[a][b]
        PROVE  LinkOk(a, b, c, l)'
    <3>1. LinkOk(a, b, c, l)
      BY <1>1, <1>4, <2>1, LinkBefore
    <3> QED BY <1>1, <1>9, <1>10, <1>11, <3>1 DEF LinkOk
  <2> QED BY <2>1, LinkAfter
<1>18. EndInv'
  <2>1. EndOk(y, n, m) /\ EndOk(y, m, n)
    BY <1>7 DEF Good
  <2> QED BY <1>4, <1>10, <1>11, <2>1 DEF EndInv
<1>19. StreamInv'
  <2>1. ASSUME NEW c \in 1..Len(conns), NEW a, NEW b, StreamOk(c, a, b)
        PROVE  StreamOk(c, a, b)'
    <3>1. First(c, a, b)' => First(c, a, b)
      BY <1>9, <1>10, <1>11, <2>1 DEF First
    <3>2. conns'[c] = conns[c]
      BY <1>10, <2>1
    <3> QED BY <1>1, <2>1, <3>1, <3>2, StreamKept
  <2>2. ASSUME NEW a \in {n, m}, NEW b \in {n, m}, a # b
        PROVE  StreamOk(k, a, b)'
    <3>1. Sent(conns[k], a, b)' = << >>
      <4>1. Sent(y, a, b) = << >>
        BY <1>7, <2>2
      <4> QED BY <1>10, <4>1 DEF Sent, Body
    <3>2. connections'[b][a] # k
      <4>1. a \in Node /\ b \in Node
        BY <2>2
      <4>2. connections[b][a] = 0 \/ connections[b][a] \in 1..Len(conns)
        BY <1>4, <4>1 DEF LinkInv, LinkOk
      <4> QED BY <1>1, <1>9, <1>10, <1>11, <4>2
    <3>3. Numbered(<< >>)
      <4>1. Len(<< >>) = 0
        BY EmptySeq
      <4> QED BY <4>1 DEF Numbered
    <3> QED BY <3>1, <3>2, <3>3 DEF StreamOk
  <2>3. ASSUME NEW c \in 1..Len(conns'), NEW a \in Ends(c)', NEW b \in Ends(c)', a # b,
               conns'[c].state[a] # "closed"
        PROVE  StreamOk(c, a, b)'
    <3>1. CASE c = k
      BY <1>11, <2>2, <2>3, <3>1
    <3>2. CASE c \in 1..Len(conns)
      <4>1. StreamOk(c, a, b)
        BY <1>4, <1>10, <1>11, <2>3, <3>2 DEF StreamInv
      <4> QED BY <2>1, <3>2, <4>1
    <3> QED BY <1>11, <2>3, <3>1, <3>2
  <2> QED BY <2>3 DEF StreamInv
<1>20. PendingInv'
  BY <1>1, <1>4 DEF PendingInv
<1> QED BY <1>12, <1>14, <1>15, <1>16, <1>17, <1>18, <1>19, <1>20 DEF IInv

-----------------------------------------------------------------------------
(* Writing, reading and failing *)

\* The invariants of a step in which only streams, entries and counts change.
LEMMA SteppedInv ==
    ASSUME IInv, Stepped, Typed', UNCHANGED <<alive, run, dial>>, LinkInv', PendingInv',
           \A c \in 1..Len(conns) : \A n, m \in Ends(c) :
               n # m /\ conns'[c].state[n] # "closed" => StreamOk(c, n, m)'
    PROVE  IInv'
<1>1. Typed /\ EndInv /\ OneConnection /\ RunInv /\ DialInv
  BY DEF IInv
<1>2. /\ Len(conns') = Len(conns) /\ EndInv' /\ OneConnection'
      /\ \A d \in 1..Len(conns) : Ends(d)' = Ends(d)
  BY <1>1, SteppedFacts
<1>3. RunInv' /\ DialInv'
  BY <1>1, RunsKept
<1>4. StreamInv'
  BY <1>2 DEF StreamInv
<1> QED BY <1>2, <1>3, <1>4 DEF IInv

\* A connection that does not change, while others do.
LEMMA OtherStreams ==
    ASSUME IInv, Stepped, NEW d \in 1..Len(conns), NEW a \in Ends(d), NEW b \in Ends(d), a # b,
           conns'[d] = conns[d], conns'[d].state[a] # "closed",
           connections'[b][a] = d => connections[b][a] = d /\ accepted'[b][a] = accepted[b][a]
    PROVE  StreamOk(d, a, b)'
<1>1. StreamOk(d, a, b)
  BY DEF IInv, StreamInv
<1>2. First(d, a, b)' => First(d, a, b)
  BY FirstKept DEF IInv
<1> QED BY <1>1, <1>2, StreamKept

\* A frame moves along one connection.
LEMMA QuietStep ==
    ASSUME IInv, NEW c \in 1..Len(conns), NEW n, NEW m, n # m, Ends(c) = {n, m},
           NEW x, x = conns[c], NEW y, Moved(x, y, n, m), conns' = [conns EXCEPT ![c] = y],
           UNCHANGED <<alive, run, dial, connections, pending_frames, accepted, last, breaks>>
    PROVE  IInv'
<1>1. Typed /\ EndInv /\ OneConnection /\ LinkInv /\ StreamInv /\ PendingInv
  BY DEF IInv
<1>2. Successor(conns[c], y, n, m)
  BY DEF Successor, Moved
<1>3. Stepped /\ conns'[c] = y /\ \A d \in 1..Len(conns) : d # c => conns'[d] = conns[d]
  BY <1>1, <1>2, UpdateStep
<1>4. /\ conns' \in Seq(Conn) /\ Len(conns') = Len(conns)
      /\ \A d \in 1..Len(conns) : Ends(d)' = Ends(d) /\ conns'[d].run = conns[d].run
  BY <1>1, <1>3, SteppedFacts
<1>5. Typed'
  BY <1>1, <1>4 DEF Typed
<1>6. \A d \in 1..Len(conns) : conns'[d].state = conns[d].state
  BY <1>3 DEF Moved
<1>7. LinkInv'
  <2>1. \A a, b, k, l : LinkOk(a, b, k, l) => LinkOk(a, b, k, l)'
    BY <1>4, <1>6 DEF LinkOk
  <2> QED BY <1>1, <2>1, LinkAfter DEF LinkInv
<1>8. PendingInv'
  BY <1>1 DEF PendingInv
<1>9. ASSUME NEW d \in 1..Len(conns), NEW a \in Ends(d), NEW b \in Ends(d), a # b,
             conns'[d].state[a] # "closed"
      PROVE  StreamOk(d, a, b)'
  <2>1. StreamOk(d, a, b)
    BY <1>1, <1>6, <1>9 DEF StreamInv
  <2>2. First(d, a, b)' => First(d, a, b)
    BY <1>1, <1>3, <1>9, FirstKept
  <2>3. Sent(conns'[d], a, b) = Sent(conns[d], a, b)
    BY <1>3, <1>9 DEF Moved
  <2> QED BY <1>6, <1>9, <2>1, <2>2, <2>3, StreamKept
<1> QED BY <1>3, <1>5, <1>7, <1>8, <1>9, SteppedInv

\* start_reading takes a frame off the wire.
LEMMA ReadStep ==
    ASSUME IInv, NEW c \in 1..Len(conns), NEW n \in Ends(c), start_reading(c, n)
    PROVE  IInv'
<1>1. PICK m \in Node : /\ n # m /\ Ends(c) = {n, m} /\ Other(c, n) = m
                        /\ Good(conns[c], n, m)
  BY EndAt DEF IInv
<1>2. PICK x, y : x = conns[c] /\ y = Read(x, n, m)
  OBVIOUS
<1>3. /\ x.state[n] = "open" /\ x.wire[m] # << >>
      /\ conns' = [conns EXCEPT ![c] = y]
      /\ UNCHANGED <<alive, run, dial, connections, pending_frames, accepted, last, breaks>>
  BY <1>1, <1>2 DEF start_reading, Read
<1>4. Moved(x, y, n, m)
  BY <1>1, <1>2, <1>3, ReadStreams
<1> QED BY <1>1, <1>2, <1>3, <1>4, QuietStep

\* fail_connection: the end is closed, and no entry points to it any more.
LEMMA FailStep ==
    ASSUME IInv, NEW c \in 1..Len(conns), NEW n \in Ends(c), fail_connection(c, n),
           breaks' \in 0..MaxBreaks,
           UNCHANGED <<alive, run, dial, pending_frames, accepted, last>>
    PROVE  IInv'
<1>1. Typed /\ EndInv /\ OneConnection /\ LinkInv /\ StreamInv /\ PendingInv
  BY DEF IInv
<1>2. PICK m \in Node : /\ n \in Node /\ n # m /\ Ends(c) = {n, m} /\ Other(c, n) = m
                        /\ Good(conns[c], n, m)
  BY <1>1, EndAt
<1>3. PICK k \in 0..Len(conns[c].wire[n]) : conns' = [conns EXCEPT ![c] = close(conns[c], n, k)]
  BY DEF fail_connection
<1>4. k \in Nat
  <2>1. conns[c].wire[n] \in Seq(Wired)
    BY <1>2, PartTypes DEF Good
  <2> QED BY <1>3, <2>1, LenProperties
<1>5. PICK x, y : x = conns[c] /\ y = close(x, n, k) /\ Good(x, n, m)
  BY <1>2
<1>6. CutOff(x, y, n, m)
  BY <1>4, <1>5, CloseStreams
<1>7. x \in ConnOn({n, m}) /\ y \in ConnOn({n, m})
  BY <1>5, <1>6 DEF CutOff, Good
<1>8. /\ y.state[n] = "closed" /\ y.state[m] = x.state[m] /\ Good(y, n, m) /\ y.run = x.run
      /\ Begins(Sent(y, m, n), Sent(x, m, n))
  BY <1>6 DEF CutOff
<1>9. Successor(x, y, n, m)
  BY <1>8 DEF Successor
<1>10. Stepped /\ conns'[c] = y /\ \A d \in 1..Len(conns) : d # c => conns'[d] = conns[d]
  BY <1>1, <1>2, <1>3, <1>5, <1>9, UpdateStep
<1>11. /\ conns' \in Seq(Conn) /\ Len(conns') = Len(conns)
       /\ \A d \in 1..Len(conns) : Ends(d)' = Ends(d) /\ conns'[d].run = conns[d].run
  BY <1>1, <1>10, SteppedFacts
<1>12. LinkOk(n, m, connections[n][m], last[n][m])
  BY <1>1, <1>2 DEF LinkInv
<1>13. connections' = [connections EXCEPT ![n][m] = IF connections[n][m] = c THEN 0 ELSE connections[n][m]]
  <2>1. c # 0
    BY LenProperties DEF IInv, Typed
  <2>2. connections[n][m] = c => conns[c].state[n] = "open"
    BY <1>12, <2>1 DEF LinkOk
  <2> QED BY <1>2, <2>2 DEF fail_connection
<1>14. /\ connections'[n][m] = (IF connections[n][m] = c THEN 0 ELSE connections[n][m])
       /\ \A a, b \in Node : ~(a = n /\ b = m) => connections'[a][b] = connections[a][b]
       /\ connections' \in [Node -> [Node -> Nat]]
  BY <1>1, <1>2, <1>13 DEF Typed
<1>15. c # 0
  BY LenProperties DEF IInv, Typed
<1>16. Typed'
  BY <1>1, <1>11, <1>14 DEF Typed
<1>17. LinkInv'
  <2>1. ASSUME NEW a \in Node, NEW b \in Node, NEW d, NEW l, d = connections'[a][b], l = last'[a][b]
        PROVE  LinkOk(a, b, d, l)'
    <3>1. CASE a = n /\ b = m
      <4>1. PICK e : e = connections[n][m]
        OBVIOUS
      <4>2. LinkOk(n, m, e, l)
        BY <1>2, <1>12, <2>1, <3>1, <4>1
      <4>3. d = (IF e = c THEN 0 ELSE e)
        BY <1>14, <2>1, <3>1, <4>1
      <4>4. d # 0 => d # c /\ d = e
        BY <4>3
      <4>5. l = c => conns'[l].state[n] = "closed"
        BY <1>8, <1>10
      <4> QED BY <1>10, <1>11, <1>15, <3>1, <4>2, <4>3, <4>4, <4>5 DEF LinkOk
    <3>2. CASE ~(a = n /\ b = m)
      <4>1. LinkOk(a, b, d, l)
        BY <1>1, <1>14, <2>1, <3>2, LinkBefore
      <4>2. ASSUME NEW k2 \in 1..Len(conns), Ends(k2) = {a, b}, a # b
            PROVE  conns'[k2].state[a] = conns[k2].state[a]
        <5>1. k2 = c => a = m
          BY <1>2, <3>2, <4>2
        <5> QED BY <1>5, <1>8, <1>10, <4>2, <5>1
      <4> QED BY <1>11, <4>1, <4>2 DEF LinkOk
    <3> QED BY <3>1, <3>2
  <2> QED BY <2>1, LinkAfter
<1>18. PendingInv'
  <2>1. \A a, b \in Node : connections[a][b] = 0 => connections'[a][b] = 0
    BY <1>14
  <2> QED BY <1>1, <2>1 DEF PendingInv
<1>19. ASSUME NEW d \in 1..Len(conns), NEW a \in Ends(d), NEW b \in Ends(d), a # b,
              conns'[d].state[a] # "closed"
       PROVE  StreamOk(d, a, b)'
  <2>1. a \in Node /\ b \in Node
    BY <1>1, <1>19, EndAt
  <2>2. CASE d # c
    <3>1. connections'[b][a] = d => connections[b][a] = d
      <4>1. d # 0
        BY LenProperties DEF IInv, Typed
      <4> QED BY <1>14, <2>1, <4>1
    <3> QED BY <1>10, <1>19, <2>2, <3>1, OtherStreams
  <2>3. CASE d = c
    <3>1. a = m /\ b = n
      BY <1>2, <1>8, <1>10, <1>19, <2>3
    <3>2. StreamOk(c, m, n)
      BY <1>1, <1>2, <1>5, <1>8, <1>10, <1>19, <2>3, <3>1 DEF StreamInv
    <3>3. Sent(x, m, n) \in Seq(Wired) /\ Sent(y, m, n) \in Seq(Wired)
      <4>1. n \in {n, m} /\ m \in {n, m}
        OBVIOUS
      <4> QED BY <1>7, <4>1, PartTypes
    <3>4. First(c, m, n)' => First(c, m, n)
      BY <1>1, <1>10, FirstKept
    <3>5. connections'[n][m] # c
      BY <1>14, <1>15
    <3>6. StreamOk(c, m, n)'
      BY <1>5, <1>8, <1>10, <3>2, <3>3, <3>4, <3>5, StreamCut
    <3> QED BY <2>3, <3>1, <3>6
  <2> QED BY <2>2, <2>3
<1> QED BY <1>10, <1>16, <1>17, <1>18, <1>19, SteppedInv

\* write_next, for a frame that is written and for one that is too big.
LEMMA WriteStep ==
    ASSUME IInv, NEW c \in 1..Len(conns), NEW n \in Ends(c), write_next(c, n)
    PROVE  IInv'
<1>1. PICK m \in Node : /\ n # m /\ Ends(c) = {n, m} /\ Other(c, n) = m
                        /\ Good(conns[c], n, m)
  BY EndAt DEF IInv
<1>2. conns[c].queue[n] # << >>
  BY <1>1 DEF write_next, Good, EndOk
<1>3. CASE WriteDone(c, n) /\ UNCHANGED connections
  <2>1. PICK x, y : x = conns[c] /\ y = Written(x, n) /\ Good(x, n, m) /\ x.queue[n] # << >>
    BY <1>1, <1>2
  <2>2. /\ conns' = [conns EXCEPT ![c] = y]
        /\ UNCHANGED <<alive, run, dial, connections, pending_frames, accepted, last, breaks>>
    BY <1>3, <2>1 DEF write_next, WriteDone, Written
  <2>3. Moved(x, y, n, m)
    BY <2>1, WrittenStreams
  <2> QED BY <1>1, <2>1, <2>2, <2>3, QuietStep
<1>4. CASE fail_connection(c, n)
  <2>1. UNCHANGED <<alive, run, dial, pending_frames, accepted, last, breaks>> /\ breaks \in 0..MaxBreaks
    BY DEF write_next, IInv, Typed
  <2> QED BY <1>4, <2>1, FailStep
<1> QED BY <1>3, <1>4 DEF write_next

\* ConnectionFails.
LEMMA BreakStep ==
    ASSUME IInv, NEW c \in 1..Len(conns), NEW n \in Ends(c), ConnectionFails(c, n)
    PROVE  IInv'
<1>1. breaks' \in 0..MaxBreaks
  <2>1. MaxBreaks \in Nat /\ breaks \in 0..MaxBreaks
    BY NodesAssumption DEF IInv, Typed
  <2> QED BY <2>1 DEF ConnectionFails
<1>2. fail_connection(c, n) /\ UNCHANGED <<alive, run, dial, pending_frames, accepted, last>>
  BY DEF ConnectionFails
<1> QED BY <1>1, <1>2, FailStep

-----------------------------------------------------------------------------
(* Registering, sending and dying *)

\* register_connection: the stream from n is what waited for m.
LEMMA RegisterStep ==
    ASSUME IInv, NEW c \in 1..Len(conns), NEW n \in Ends(c), register_connection(c, n)
    PROVE  IInv'
<1>1. Typed /\ EndInv /\ OneConnection /\ RunInv /\ LinkInv /\ StreamInv /\ PendingInv
  BY DEF IInv
<1>2. PICK m \in Node : /\ n \in Node /\ n # m /\ Ends(c) = {n, m} /\ Other(c, n) = m
                        /\ Good(conns[c], n, m)
  BY <1>1, EndAt
<1>3. PICK x, z : /\ x = conns[c] /\ z = Open(x, n, m) /\ Good(x, n, m)
                  /\ x.state[n] = "hello" /\ x.wire[m] # << >>
  BY <1>2 DEF register_connection
<1>4. PICK fs \in Seq(Frame) : fs = pending_frames[n][m]
  BY <1>1, <1>2 DEF Typed
<1>5. PICK y : y = enqueue_write(z, n, fs)
  OBVIOUS
<1>6. /\ conns' = [conns EXCEPT ![c] = y]
      /\ connections' = [connections EXCEPT ![n][m] = c] /\ last' = [last EXCEPT ![n][m] = c]
      /\ pending_frames' = [pending_frames EXCEPT ![n][m] = << >>]
      /\ UNCHANGED <<alive, run, dial, accepted, breaks>>
  BY <1>2, <1>3, <1>4, <1>5 DEF register_connection, RemoteId, ErasePending
<1>7. Opened(x, z, n, m)
  BY <1>3, OpenStreams
<1>8. Lengthened(z, y, n, m, fs)
  <2>1. Good(z, n, m) /\ z.state[n] = "open"
    BY <1>7 DEF Opened
  <2> QED BY <1>5, <2>1, EnqueueStreams
<1>9. /\ Good(y, n, m) /\ y.run = x.run /\ y.state[n] = "open" /\ y.state[m] = x.state[m]
      /\ Sent(y, n, m) = Sent(x, n, m) /\ Sent(y, m, n) = Sent(x, m, n) \o fs
  BY <1>7, <1>8 DEF Opened, Lengthened
<1>10. Successor(x, y, n, m)
  BY <1>3, <1>9 DEF Successor
<1>11. Stepped /\ conns'[c] = y /\ \A d \in 1..Len(conns) : d # c => conns'[d] = conns[d]
  BY <1>1, <1>2, <1>3, <1>6, <1>10, UpdateStep
<1>12. /\ conns' \in Seq(Conn) /\ Len(conns') = Len(conns)
       /\ \A d \in 1..Len(conns) : Ends(d)' = Ends(d) /\ conns'[d].run = conns[d].run
  BY <1>1, <1>11, SteppedFacts
<1>13. c \in Nat /\ c # 0
  BY LenProperties DEF IInv, Typed
<1>14. n \in alive /\ x.run[n] = run[n]
  BY <1>1, <1>3 DEF RunInv
<1>15. /\ connections'[n][m] = c /\ last'[n][m] = c /\ pending_frames'[n][m] = << >>
       /\ \A a, b \in Node : ~(a = n /\ b = m) =>
              /\ connections'[a][b] = connections[a][b] /\ last'[a][b] = last[a][b]
              /\ pending_frames'[a][b] = pending_frames[a][b]
  BY <1>1, <1>2, <1>6 DEF Typed
<1>16. Typed'
  <2>1. << >> \in Seq(Frame)
    BY EmptySeq
  <2>2. /\ connections' \in [Node -> [Node -> Nat]] /\ last' \in [Node -> [Node -> Nat]]
        /\ pending_frames' \in [Node -> [Node -> Seq(Frame)]]
    BY <1>1, <1>2, <1>6, <1>13, <2>1 DEF Typed
  <2> QED BY <1>1, <1>6, <1>12, <2>2 DEF Typed
<1>17. LinkInv'
  <2>1. ASSUME NEW a \in Node, NEW b \in Node, NEW d, NEW l, d = connections'[a][b], l = last'[a][b]
        PROVE  LinkOk(a, b, d, l)'
    <3>1. CASE a = n /\ b = m
      BY <1>2, <1>3, <1>6, <1>9, <1>11, <1>12, <1>13, <1>14, <1>15, <2>1, <3>1 DEF LinkOk
    <3>2. CASE ~(a = n /\ b = m)
      <4>1. LinkOk(a, b, d, l)
        BY <1>1, <1>15, <2>1, <3>2, LinkBefore
      <4>2. ASSUME NEW k \in 1..Len(conns), Ends(k) = {a, b}, a # b
            PROVE  conns'[k].state[a] = conns[k].state[a]
        <5>1. k = c => a = m
          BY <1>2, <3>2, <4>2
        <5> QED BY <1>3, <1>9, <1>11, <4>2, <5>1
      <4> QED BY <1>6, <1>12, <4>1, <4>2 DEF LinkOk
    <3> QED BY <3>1, <3>2
  <2> QED BY <2>1, LinkAfter
<1>18. Numbered(fs) /\ (fs # << >> => fs[Len(fs)].k = accepted[n][m])
       /\ (last[n][m] = 0 => IF fs = << >> THEN accepted[n][m] = 0 ELSE fs[1].k = 1)
  BY <1>1, <1>2, <1>4 DEF PendingInv
<1>19. PendingInv'
  <2>1. Numbered(<< >>)
    <3>1. Len(<< >>) = 0
      BY EmptySeq
    <3> QED BY <3>1 DEF Numbered
  <2>2. ASSUME NEW a \in Node, NEW b \in Node
        PROVE  /\ Numbered(pending_frames'[a][b])
               /\ pending_frames'[a][b] # << >> =>
                     /\ pending_frames'[a][b][Len(pending_frames'[a][b])].k = accepted'[a][b]
                     /\ connections'[a][b] = 0
               /\ last'[a][b] = 0 =>
                     IF pending_frames'[a][b] = << >> THEN accepted'[a][b] = 0
                     ELSE pending_frames'[a][b][1].k = 1
    <3>1. CASE a = n /\ b = m
      BY <1>13, <1>15, <2>1, <3>1
    <3>2. CASE ~(a = n /\ b = m)
      BY <1>1, <1>6, <1>15, <2>2, <3>2 DEF PendingInv
    <3> QED BY <3>1, <3>2
  <2> QED BY <2>2 DEF PendingInv
<1>20. First(c, m, n) => last[n][m] = 0
  <2>1. PICK k, l : k = connections[n][m] /\ l = last[n][m] /\ LinkOk(n, m, k, l)
    BY <1>1, <1>2 DEF LinkInv
  <2>2. l # 0 => /\ l \in 1..Len(conns) /\ Ends(l) = {n, m} /\ conns[l].state[n] # "hello"
                 /\ conns[l].run[n] = run[n]
    BY <2>1 DEF LinkOk
  <2>3. {n, m} = {m, n}
    OBVIOUS
  <2> QED BY <1>3, <1>14, <2>1, <2>2, <2>3 DEF First
<1>21. ASSUME conns'[c].state[m] # "closed" PROVE StreamOk(c, m, n)'
  <2>1. StreamOk(c, m, n)
    BY <1>1, <1>2, <1>3, <1>9, <1>11, <1>21 DEF StreamInv
  <2>2. Sent(x, m, n) = << >>
    BY <1>3, <2>1 DEF StreamOk
  <2>3. Sent(y, m, n) = fs
    BY <1>9, <2>2, ConcatEmptySeq
  <2>4. Sent(conns[c], m, n)' = fs
    BY <1>11, <2>3 DEF Sent, Body
  <2>5. First(c, m, n)' => First(c, m, n)
    BY <1>1, <1>11, FirstKept
  <2> QED BY <1>6, <1>9, <1>11, <1>18, <1>20, <2>4, <2>5 DEF StreamOk
<1>22. ASSUME conns'[c].state[n] # "closed" PROVE StreamOk(c, n, m)'
  <2>1. StreamOk(c, n, m)
    BY <1>1, <1>2, <1>3 DEF StreamInv
  <2>2. First(c, n, m)' => First(c, n, m)
    BY <1>1, <1>11, FirstKept
  <2>3. connections'[m][n] = connections[m][n] /\ accepted'[m][n] = accepted[m][n]
    BY <1>2, <1>6, <1>15
  <2> QED BY <1>3, <1>9, <1>11, <2>1, <2>2, <2>3, StreamKept
<1>23. ASSUME NEW d \in 1..Len(conns), NEW a \in Ends(d), NEW b \in Ends(d), a # b,
              conns'[d].state[a] # "closed"
       PROVE  StreamOk(d, a, b)'
  <2>1. a \in Node /\ b \in Node
    BY <1>1, <1>23, EndAt
  <2>2. CASE d # c
    <3>1. connections'[b][a] = d => connections[b][a] = d
      BY <1>15, <2>1, <2>2
    <3> QED BY <1>6, <1>11, <1>23, <2>2, <3>1, OtherStreams
  <2>3. CASE d = c /\ a = m /\ b = n
    BY <1>21, <1>23, <2>3
  <2>4. CASE d = c /\ a = n /\ b = m
    BY <1>22, <1>23, <2>4
  <2> QED BY <1>2, <1>23, <2>2, <2>3, <2>4
<1> QED BY <1>6, <1>11, <1>16, <1>17, <1>19, <1>23, SteppedInv

\* Die: every end of the process is closed, and nothing else of it is left.
LEMMA DieStep ==
    ASSUME IInv, NEW n \in Node, Die(n)
    PROVE  IInv'
<1>1. Typed /\ EndInv /\ OneConnection /\ RunInv /\ DialInv /\ LinkInv /\ StreamInv /\ PendingInv
  BY DEF IInv
<1>2. PICK k \in 0..MaxFrames + 1 :
          conns' = [c \in 1..Len(conns) |-> IF c \in ConnsOf(n) /\ conns[c].state[n] # "closed"
                                           THEN close(conns[c], n, k) ELSE conns[c]]
  BY DEF Die
<1>3. k \in Nat
  BY <1>2, NodesAssumption
<1>4. /\ alive' = alive \ {n} /\ dial' = [dial EXCEPT ![n] = ByPeer("no")]
      /\ connections' = [connections EXCEPT ![n] = ByPeer(0)]
      /\ pending_frames' = [pending_frames EXCEPT ![n] = ByPeer(<< >>)]
      /\ accepted' = [accepted EXCEPT ![n] = ByPeer(0)]
      /\ last' = [last EXCEPT ![n] = ByPeer(0)] /\ UNCHANGED <<run, breaks>>
  BY DEF Die
<1>5. /\ \A m \in Node : /\ dial'[n][m] = "no" /\ connections'[n][m] = 0 /\ last'[n][m] = 0
                         /\ pending_frames'[n][m] = << >> /\ accepted'[n][m] = 0
      /\ \A a, m \in Node : a # n =>
            /\ dial'[a][m] = dial[a][m] /\ connections'[a][m] = connections[a][m]
            /\ last'[a][m] = last[a][m] /\ pending_frames'[a][m] = pending_frames[a][m]
            /\ accepted'[a][m] = accepted[a][m]
  BY <1>1, <1>4 DEF Typed, ByPeer
<1>6. ASSUME NEW d \in 1..Len(conns), n \notin Ends(d) PROVE conns'[d] = conns[d]
  BY <1>2, <1>6 DEF ConnsOf
<1>7. ASSUME NEW d \in 1..Len(conns), n \in Ends(d)
      PROVE  \E m \in Node : /\ n # m /\ Ends(d) = {n, m} /\ Good(conns[d], n, m)
                             /\ conns'[d].state[n] = "closed"
                             /\ conns'[d] = conns[d] \/ CutOff(conns[d], conns'[d], n, m)
  <2>1. PICK m \in Node : n # m /\ Ends(d) = {n, m} /\ Good(conns[d], n, m)
    BY <1>1, <1>7, EndAt
  <2>2. CASE conns[d].state[n] = "closed"
    BY <1>2, <1>7, <2>1, <2>2
  <2>3. CASE conns[d].state[n] # "closed"
    <3>1. PICK x, y : x = conns[d] /\ y = close(x, n, k) /\ Good(x, n, m)
      BY <2>1
    <3>2. conns'[d] = y
      BY <1>2, <1>7, <2>3, <3>1 DEF ConnsOf
    <3>3. CutOff(x, y, n, m)
      BY <1>3, <3>1, CloseStreams
    <3>4. y.state[n] = "closed"
      BY <3>3 DEF CutOff
    <3> QED BY <2>1, <3>1, <3>2, <3>3, <3>4
  <2> QED BY <2>2, <2>3
<1>8. Stepped
  <2>1. conns' = [d \in 1..Len(conns) |-> conns'[d]]
    BY <1>2
  <2>2. ASSUME NEW d \in 1..Len(conns), NEW a \in Ends(d), NEW b \in Ends(d), a # b
        PROVE  Successor(conns[d], conns'[d], a, b)
    <3>1. PICK e \in Node : Ends(d) = {a, e} /\ Good(conns[d], a, e)
      BY <1>1, <2>2, EndAt
    <3>2. Good(conns[d], a, b)
      BY <2>2, <3>1
    <3>3. CASE conns'[d] = conns[d]
      BY <3>2, <3>3, SuccessorSame
    <3>4. CASE conns'[d] # conns[d]
      <4>1. n \in Ends(d)
        BY <1>6, <2>2, <3>4
      <4>2. PICK m \in Node : n # m /\ Ends(d) = {n, m} /\ CutOff(conns[d], conns'[d], n, m)
        BY <1>7, <2>2, <3>4, <4>1
      <4>3. {a, b} = {n, m} /\ ((a = n /\ b = m) \/ (a = m /\ b = n))
        BY <2>2, <4>2
      <4>4. Good(conns'[d], a, b)
        BY <4>2, <4>3, GoodSwap DEF CutOff
      <4> QED BY <4>2, <4>3, <4>4 DEF Successor, CutOff
    <3> QED BY <3>3, <3>4
  <2> QED BY <2>1, <2>2 DEF Stepped
<1>9. /\ conns' \in Seq(Conn) /\ Len(conns') = Len(conns) /\ EndInv' /\ OneConnection'
      /\ \A d \in 1..Len(conns) : Ends(d)' = Ends(d) /\ conns'[d].run = conns[d].run
      /\ \A d \in 1..Len(conns) : \A e \in Ends(d) :
            conns'[d].state[e] # "closed" => conns[d].state[e] # "closed"
  BY <1>1, <1>8, SteppedFacts
<1>10. \A d \in 1..Len(conns) : n \in Ends(d) => conns'[d].state[n] = "closed"
  BY <1>7
<1>11. \A d \in 1..Len(conns) : \A e \in Ends(d) : e # n => conns'[d].state[e] = conns[d].state[e]
  BY <1>6, <1>7 DEF CutOff
<1>12. Typed'
  <2>1. << >> \in Seq(Frame) /\ 0 \in Nat /\ 0 \in 0..MaxFrames
    <3>1. MaxFrames \in Nat
      BY NodesAssumption
    <3> QED BY <3>1, EmptySeq
  <2>2. /\ dial' \in [Node -> [Node -> {"no", "connecting", "timer"}]]
        /\ connections' \in [Node -> [Node -> Nat]] /\ last' \in [Node -> [Node -> Nat]]
    BY <1>1, <1>4, <2>1 DEF Typed, ByPeer
  <2>3. /\ pending_frames' \in [Node -> [Node -> Seq(Frame)]]
        /\ accepted' \in [Node -> [Node -> 0..MaxFrames]]
    BY <1>1, <1>4, <2>1 DEF Typed, ByPeer
  <2> QED BY <1>1, <1>4, <1>9, <2>2, <2>3 DEF Typed
<1>13. RunInv'
  BY <1>1, <1>4, <1>9, <1>10 DEF RunInv
<1>14. DialInv'
  <2>1. ASSUME NEW a \in Node, NEW b \in Node, dial'[a][b] # "no"
        PROVE  /\ a \in alive' /\ a < b
               /\ \A c \in 1..Len(conns') : Ends(c)' = {a, b} => conns'[c].run[a] < run'[a]
    <3>1. a # n /\ dial[a][b] # "no"
      BY <1>5, <2>1
    <3>2. /\ a \in alive /\ a < b
          /\ \A c \in 1..Len(conns) : Ends(c) = {a, b} => conns[c].run[a] < run[a]
      BY <1>1, <2>1, <3>1 DEF DialInv
    <3> QED BY <1>4, <1>9, <3>1, <3>2
  <2> QED BY <2>1 DEF DialInv
<1>15. LinkInv'
  <2>1. ASSUME NEW a \in Node, NEW b \in Node, NEW d, NEW l, d = connections'[a][b], l = last'[a][b]
        PROVE  LinkOk(a, b, d, l)'
    <3>1. CASE a = n
      BY <1>5, <2>1, <3>1 DEF LinkOk
    <3>2. CASE a # n
      <4>1. LinkOk(a, b, d, l)
        BY <1>1, <1>5, <2>1, <3>2, LinkBefore
      <4> QED BY <1>4, <1>9, <1>11, <3>2, <4>1 DEF LinkOk
    <3> QED BY <3>1, <3>2
  <2> QED BY <2>1, LinkAfter
<1>16. PendingInv'
  <2>1. Numbered(<< >>)
    <3>1. Len(<< >>) = 0
      BY EmptySeq
    <3> QED BY <3>1 DEF Numbered
  <2>2. ASSUME NEW a \in Node, NEW b \in Node
        PROVE  /\ Numbered(pending_frames'[a][b])
               /\ pending_frames'[a][b] # << >> =>
                     /\ pending_frames'[a][b][Len(pending_frames'[a][b])].k = accepted'[a][b]
                     /\ connections'[a][b] = 0
               /\ last'[a][b] = 0 =>
                     IF pending_frames'[a][b] = << >> THEN accepted'[a][b] = 0
                     ELSE pending_frames'[a][b][1].k = 1
    <3>1. CASE a = n
      BY <1>5, <2>1, <2>2, <3>1
    <3>2. CASE a # n
      BY <1>1, <1>5, <2>2, <3>2 DEF PendingInv
    <3> QED BY <3>1, <3>2
  <2> QED BY <2>2 DEF PendingInv
<1>17. StreamInv'
  <2>1. ASSUME NEW d \in 1..Len(conns), NEW a \in Ends(d), NEW b \in Ends(d), a # b,
               conns'[d].state[a] # "closed"
        PROVE  StreamOk(d, a, b)'
    <3>1. a \in Node /\ b \in Node /\ d # 0 /\ a # n
      <4>1. a \in Node /\ b \in Node
        BY <1>1, <2>1, EndAt
      <4>2. d # 0
        BY <2>1, LenProperties DEF IInv, Typed
      <4> QED BY <1>10, <2>1, <4>1, <4>2
    <3>2. CASE conns'[d] = conns[d]
      <4>1. connections'[b][a] = d => connections[b][a] = d /\ accepted'[b][a] = accepted[b][a]
        BY <1>5, <3>1
      <4> QED BY <1>8, <2>1, <3>2, <4>1, OtherStreams
    <3>3. CASE conns'[d] # conns[d]
      <4>1. n \in Ends(d)
        BY <1>6, <2>1, <3>3
      <4>2. PICK m \in Node : n # m /\ Ends(d) = {n, m} /\ Good(conns[d], n, m) /\ CutOff(conns[d], conns'[d], n, m)
        BY <1>7, <2>1, <3>3, <4>1
      <4>3. a = m /\ b = n
        BY <2>1, <3>1, <4>2
      <4>4. StreamOk(d, m, n)
        BY <1>1, <1>9, <2>1, <4>3 DEF StreamInv
      <4>5. Sent(conns[d], m, n) \in Seq(Wired) /\ Sent(conns'[d], m, n) \in Seq(Wired)
        <5>1. n \in {n, m} /\ m \in {n, m} /\ conns[d] \in ConnOn({n, m}) /\ conns'[d] \in ConnOn({n, m})
          BY <4>2 DEF CutOff, Good
        <5> QED BY <5>1, PartTypes
      <4>6. First(d, m, n)' => First(d, m, n)
        BY <1>1, <1>8, <2>1, FirstKept
      <4>7. connections'[n][m] # d /\ conns'[d].state[n] = "closed"
        BY <1>5, <1>10, <2>1, <3>1, <4>1
      <4>8. StreamOk(d, m, n)'
        BY <4>2, <4>4, <4>5, <4>6, <4>7, StreamCut DEF CutOff
      <4> QED BY <4>3, <4>8
    <3> QED BY <3>2, <3>3
  <2> QED BY <1>9, <2>1 DEF StreamInv
<1> QED BY <1>9, <1>12, <1>13, <1>14, <1>15, <1>16, <1>17 DEF IInv

\* A frame for each of the peers M goes to the connection with it.
HandOver(n, M, big) ==
    /\ \A m \in M : connections[n][m] # 0 /\ accepted[n][m] < MaxFrames
    /\ conns' = [c \in 1..Len(conns) |->
           IF \E m \in M : connections[n][m] = c
           THEN enqueue_write(conns[c], n, <<[k |-> accepted[n][Other(c, n)] + 1, big |-> big]>>)
           ELSE conns[c]]
    /\ accepted' = [accepted EXCEPT ![n] =
           [m \in Node |-> IF m \in M THEN accepted[n][m] + 1 ELSE accepted[n][m]]]
    /\ UNCHANGED <<alive, run, dial, connections, pending_frames, last, breaks>>

\* Streams grow by the frames that send takes, in their order.
LEMMA EnqueueStep ==
    ASSUME IInv, NEW n \in Node, NEW M \in SUBSET Node, NEW big \in BOOLEAN, HandOver(n, M, big)
    PROVE  IInv'
<1>0. /\ UNCHANGED <<alive, run, dial, connections, pending_frames, last, breaks>>
      /\ \A m \in M : connections[n][m] # 0 /\ accepted[n][m] < MaxFrames
  BY DEF HandOver
<1>1. Typed /\ EndInv /\ OneConnection /\ LinkInv /\ StreamInv /\ PendingInv
  BY DEF IInv
<1>2. \A a, b \in Node : accepted[a][b] \in Nat /\ accepted[a][b] \in 0..MaxFrames /\ MaxFrames \in Nat
  <2>1. MaxFrames \in Nat /\ \A a, b \in Node : accepted[a][b] \in 0..MaxFrames
    BY <1>1, NodesAssumption DEF Typed
  <2> QED BY <2>1
<1>3. /\ \A m \in M : accepted'[n][m] = accepted[n][m] + 1
      /\ \A a, b \in Node : ~(a = n /\ b \in M) => accepted'[a][b] = accepted[a][b]
  BY <1>1 DEF Typed, HandOver
<1>4. ASSUME NEW d \in 1..Len(conns), \A m \in M : connections[n][m] # d
      PROVE  conns'[d] = conns[d]
  BY <1>4 DEF HandOver
<1>5. ASSUME NEW d \in 1..Len(conns), NEW m \in M, connections[n][m] = d
      PROVE  /\ n # m /\ Ends(d) = {n, m} /\ conns[d].state[n] = "open" /\ Good(conns[d], n, m)
             /\ \E f \in Frame : /\ f.k = accepted[n][m] + 1
                                 /\ Lengthened(conns[d], conns'[d], n, m, <<f>>)
  <2>1. LinkOk(n, m, d, last[n][m]) /\ d # 0
    BY <1>0, <1>1, <1>5 DEF LinkInv
  <2>2. n # m /\ Ends(d) = {n, m} /\ conns[d].state[n] = "open"
    BY <2>1 DEF LinkOk
  <2>3. n \in Ends(d) /\ Other(d, n) = m
    <3>1. Other(d, n) = m
      BY <2>2, OtherIs
    <3> QED BY <2>2, <3>1
  <2>4. Good(conns[d], n, m)
    <3>1. PICK e \in Node : Ends(d) = {n, e} /\ Other(d, n) = e /\ Good(conns[d], n, e)
      BY <1>1, <1>5, <2>3, EndAt
    <3> QED BY <2>3, <3>1
  <2>5. PICK f : f = [k |-> accepted[n][m] + 1, big |-> big]
    OBVIOUS
  <2>6. f \in Frame /\ f.k = accepted[n][m] + 1
    <3>1. accepted[n][m] + 1 \in 1..MaxFrames
      BY <1>0, <1>2, <1>5
    <3> QED BY <2>5, <3>1 DEF Frame
  <2>7. PICK x, y : /\ x = conns[d] /\ y = enqueue_write(x, n, <<f>>)
                    /\ Good(x, n, m) /\ x.state[n] = "open"
    BY <2>2, <2>4
  <2>8. conns'[d] = y
    BY <1>5, <2>3, <2>5, <2>7 DEF HandOver
  <2>9. <<f>> \in Seq(Frame)
    BY <2>6
  <2>10. Lengthened(x, y, n, m, <<f>>)
    BY <2>7, <2>9, EnqueueStreams
  <2> QED BY <2>2, <2>4, <2>6, <2>7, <2>8, <2>10
<1>6. Stepped
  <2>1. conns' = [d \in 1..Len(conns) |-> conns'[d]]
    BY DEF HandOver
  <2>2. ASSUME NEW d \in 1..Len(conns), NEW a \in Ends(d), NEW b \in Ends(d), a # b
        PROVE  Successor(conns[d], conns'[d], a, b)
    <3>1. PICK e \in Node : Ends(d) = {a, e} /\ Good(conns[d], a, e)
      BY <1>1, <2>2, EndAt
    <3>2. Good(conns[d], a, b)
      BY <2>2, <3>1
    <3>3. CASE \A m \in M : connections[n][m] # d
      <4>1. conns'[d] = conns[d]
        BY <1>4, <2>2, <3>3
      <4> QED BY <3>2, <4>1, SuccessorSame
    <3>4. ASSUME NEW m \in M, connections[n][m] = d PROVE Successor(conns[d], conns'[d], a, b)
      <4>1. PICK f \in Frame : n # m /\ Ends(d) = {n, m} /\ Lengthened(conns[d], conns'[d], n, m, <<f>>)
        BY <1>5, <2>2, <3>4
      <4>2. {a, b} = {n, m} /\ ((a = n /\ b = m) \/ (a = m /\ b = n))
        BY <2>2, <4>1
      <4>3. Good(conns'[d], a, b)
        BY <4>1, <4>2, GoodSwap DEF Lengthened
      <4> QED BY <4>1, <4>2, <4>3 DEF Successor, Lengthened
    <3> QED BY <3>3, <3>4
  <2> QED BY <2>1, <2>2 DEF Stepped
<1>7. /\ conns' \in Seq(Conn) /\ Len(conns') = Len(conns)
      /\ \A d \in 1..Len(conns) : Ends(d)' = Ends(d) /\ conns'[d].run = conns[d].run
  BY <1>1, <1>6, SteppedFacts
<1>8. \A d \in 1..Len(conns) : conns'[d].state = conns[d].state
  BY <1>4, <1>5 DEF Lengthened
<1>9. Typed'
  <2>1. accepted' \in [Node -> [Node -> 0..MaxFrames]]
    <3>1. \A m \in M : accepted[n][m] + 1 \in 0..MaxFrames
      BY <1>0, <1>2
    <3>2. [m \in Node |-> IF m \in M THEN accepted[n][m] + 1 ELSE accepted[n][m]] \in [Node -> 0..MaxFrames]
      BY <1>2, <3>1
    <3> QED BY <1>1, <3>2 DEF Typed, HandOver
  <2> QED BY <1>0, <1>1, <1>7, <2>1 DEF Typed
<1>10. LinkInv'
  <2>1. \A a, b, k, l : LinkOk(a, b, k, l) => LinkOk(a, b, k, l)'
    BY <1>0, <1>7, <1>8 DEF LinkOk
  <2> QED BY <1>0, <1>1, <2>1, LinkAfter DEF LinkInv
<1>11. PendingInv'
  <2>1. ASSUME NEW m \in M PROVE pending_frames[n][m] = << >> /\ last[n][m] # 0
    <3>1. connections[n][m] # 0 /\ m \in Node
      BY <1>0, <2>1
    <3>2. LinkOk(n, m, connections[n][m], last[n][m])
      BY <1>1, <3>1 DEF LinkInv
    <3> QED BY <1>1, <3>1, <3>2 DEF PendingInv, LinkOk
  <2>2. ASSUME NEW a \in Node, NEW b \in Node
        PROVE  /\ Numbered(pending_frames'[a][b])
               /\ pending_frames'[a][b] # << >> =>
                     /\ pending_frames'[a][b][Len(pending_frames'[a][b])].k = accepted'[a][b]
                     /\ connections'[a][b] = 0
               /\ last'[a][b] = 0 =>
                     IF pending_frames'[a][b] = << >> THEN accepted'[a][b] = 0
                     ELSE pending_frames'[a][b][1].k = 1
    BY <1>0, <1>1, <1>3, <2>1, <2>2 DEF PendingInv
  <2> QED BY <2>2 DEF PendingInv
<1>12. ASSUME NEW d \in 1..Len(conns), NEW m \in M, connections[n][m] = d,
              conns'[d].state[m] # "closed"
       PROVE  StreamOk(d, m, n)'
  <2>1. PICK f \in Frame : /\ f.k = accepted[n][m] + 1
                           /\ Lengthened(conns[d], conns'[d], n, m, <<f>>)
    BY <1>5, <1>12
  <2>2. n # m /\ Ends(d) = {n, m} /\ conns[d].state[n] = "open" /\ Good(conns[d], n, m)
    BY <1>5, <1>12
  <2>3. StreamOk(d, m, n)
    BY <1>1, <1>8, <1>12, <2>2 DEF StreamInv
  <2>4. PICK s \in Seq(Wired) : s = Sent(conns[d], m, n)
    <3>1. n \in {n, m} /\ m \in {n, m} /\ conns[d] \in ConnOn({n, m})
      BY <2>2 DEF Good
    <3>2. Sent(conns[d], m, n) \in Seq(Wired)
      BY <3>1, PartTypes
    <3> QED BY <3>2
  <2>5. f \in Wired
    BY <2>1, HelloNoFrame
  <2>6. PICK t : t = Append(s, f)
    OBVIOUS
  <2>7. Sent(conns'[d], m, n) = t
    <3>1. Sent(conns'[d], m, n) = s \o <<f>>
      BY <2>1, <2>4 DEF Lengthened
    <3> QED BY <2>5, <2>6, <3>1, AppendIsConcat
  <2>8. Sent(conns[d], m, n)' = t
    BY <2>7 DEF Sent, Body
  <2>9. /\ Numbered(s) /\ (s # << >> => s[Len(s)].k = accepted[n][m])
        /\ (s # << >> /\ First(d, m, n) => s[1].k = 1)
        /\ (s = << >> /\ First(d, m, n) => accepted[n][m] = 0)
    BY <1>12, <2>3, <2>4 DEF StreamOk
  <2>10. /\ Numbered(t) /\ t # << >> /\ t[Len(t)] = f
         /\ t[1] = IF s = << >> THEN f ELSE s[1]
    <3>1. s # << >> => f.k = s[Len(s)].k + 1
      BY <2>1, <2>9
    <3>2. Continues(s, f, t)
      BY <2>5, <2>6, <2>9, <3>1, NumberedAppend
    <3> QED BY <3>2 DEF Continues
  <2>11. First(d, m, n)' => First(d, m, n)
    BY <1>1, <1>6, <1>12, FirstKept
  <2>12. conns'[d].state[n] = "open" /\ t[Len(t)].k = accepted'[n][m]
    BY <1>3, <1>8, <1>12, <2>1, <2>2, <2>10
  <2>13. First(d, m, n) => t[1].k = 1
    BY <2>1, <2>9, <2>10
  <2> QED BY <1>0, <2>8, <2>10, <2>11, <2>12, <2>13 DEF StreamOk
<1>13. ASSUME NEW d \in 1..Len(conns), NEW a \in Ends(d), NEW b \in Ends(d), a # b,
              conns'[d].state[a] # "closed"
       PROVE  StreamOk(d, a, b)'
  <2>1. a \in Node /\ b \in Node
    BY <1>1, <1>13, EndAt
  <2>2. CASE \A m \in M : connections[n][m] # d
    <3>1. conns'[d] = conns[d]
      BY <1>4, <1>13, <2>2
    <3>2. connections'[b][a] = d => accepted'[b][a] = accepted[b][a]
      BY <1>0, <1>3, <2>1, <2>2
    <3> QED BY <1>0, <1>6, <1>13, <3>1, <3>2, OtherStreams
  <2>3. ASSUME NEW m \in M, connections[n][m] = d PROVE StreamOk(d, a, b)'
    <3>1. PICK f \in Frame : n # m /\ Ends(d) = {n, m} /\ Lengthened(conns[d], conns'[d], n, m, <<f>>)
      BY <1>5, <1>13, <2>3
    <3>2. CASE a = m /\ b = n
      BY <1>12, <1>13, <2>3, <3>2
    <3>3. CASE a = n /\ b = m
      <4>1. StreamOk(d, a, b)
        BY <1>1, <1>8, <1>13 DEF StreamInv
      <4>2. First(d, a, b)' => First(d, a, b)
        BY <1>1, <1>6, <1>13, FirstKept
      <4>3. Sent(conns'[d], a, b) = Sent(conns[d], a, b)
        BY <3>1, <3>3 DEF Lengthened
      <4>4. accepted'[b][a] = accepted[b][a]
        BY <1>3, <2>1, <3>1, <3>3
      <4> QED BY <1>0, <1>8, <1>13, <4>1, <4>2, <4>3, <4>4, StreamKept
    <3> QED BY <1>13, <3>1, <3>2, <3>3
  <2> QED BY <2>2, <2>3
<1> QED BY <1>0, <1>6, <1>9, <1>10, <1>11, <1>13, SteppedInv

\* send, to a connection or to pending_frames_.
LEMMA SendStep ==
    ASSUME IInv, NEW n \in Node, NEW m \in Node, NEW big \in BOOLEAN, send(n, m, big)
    PROVE  IInv'
<1>1. Typed /\ EndInv /\ OneConnection /\ LinkInv /\ StreamInv /\ PendingInv
  BY DEF IInv
<1>2. PICK f : f = [k |-> accepted[n][m] + 1, big |-> big]
  OBVIOUS
<1>3. PICK c : c = connections[n][m]
  OBVIOUS
<1>4. /\ accepted[n][m] < MaxFrames
      /\ accepted' = [accepted EXCEPT ![n][m] = accepted[n][m] + 1]
      /\ UNCHANGED <<alive, run, dial, connections, last, breaks>>
      /\ c = 0 => /\ pending_frames' = [pending_frames EXCEPT ![n][m] = Append(pending_frames[n][m], f)]
                  /\ UNCHANGED conns
      /\ c # 0 => /\ conns' = [conns EXCEPT ![c] = enqueue_write(conns[c], n, <<f>>)]
                  /\ UNCHANGED pending_frames
  BY <1>2, <1>3 DEF send
<1>5. MaxFrames \in Nat /\ \A a, b \in Node : accepted[a][b] \in 0..MaxFrames
  BY <1>1, NodesAssumption DEF Typed
<1>6. CASE c # 0
  <2>1. LinkOk(n, m, c, last[n][m])
    BY <1>1, <1>3 DEF LinkInv
  <2>2. n # m /\ c \in 1..Len(conns) /\ Ends(c) = {n, m} /\ Other(c, n) = m
    <3>1. n # m /\ c \in 1..Len(conns) /\ Ends(c) = {n, m}
      BY <1>6, <2>1 DEF LinkOk
    <3>2. Other(c, n) = m
      BY <3>1 DEF Other
    <3> QED BY <3>1, <3>2
  <2>3. conns' = [d \in 1..Len(conns) |->
            IF \E a \in {m} : connections[n][a] = d
            THEN enqueue_write(conns[d], n, <<[k |-> accepted[n][Other(d, n)] + 1, big |-> big]>>)
            ELSE conns[d]]
    <3>1. DOMAIN conns = 1..Len(conns) /\ conns = [d \in 1..Len(conns) |-> conns[d]]
      BY <1>1, LenProperties DEF Typed
    <3> QED BY <1>2, <1>3, <1>4, <1>6, <2>2, <3>1
  <2>4. accepted' = [accepted EXCEPT ![n] =
            [a \in Node |-> IF a \in {m} THEN accepted[n][a] + 1 ELSE accepted[n][a]]]
    <3>1. accepted[n] = [a \in Node |-> accepted[n][a]]
      BY <1>1 DEF Typed
    <3>2. [accepted[n] EXCEPT ![m] = accepted[n][m] + 1]
            = [a \in Node |-> IF a \in {m} THEN accepted[n][a] + 1 ELSE accepted[n][a]]
      BY <3>1
    <3> QED BY <1>4, <3>2
  <2>5. HandOver(n, {m}, big)
    BY <1>3, <1>4, <1>6, <2>3, <2>4 DEF HandOver
  <2> QED BY <2>5, EnqueueStep
<1>7. CASE c = 0
  <2>1. PICK s \in Seq(Frame) : s = pending_frames[n][m]
    BY <1>1 DEF Typed
  <2>2. f \in Frame /\ f \in Wired /\ f.k = accepted[n][m] + 1 /\ s \in Seq(Wired)
    <3>1. accepted[n][m] + 1 \in 1..MaxFrames
      BY <1>4, <1>5
    <3>2. f \in Frame
      BY <1>2, <3>1 DEF Frame
    <3> QED BY <1>2, <3>2, HelloNoFrame, SeqMonotonic
  <2>3. PICK t \in Seq(Frame) : t = Append(s, f)
    <3>1. Append(s, f) \in Seq(Frame)
      BY <2>2, AppendProperties
    <3> QED BY <3>1
  <2>4. /\ Numbered(s) /\ (s # << >> => s[Len(s)].k = accepted[n][m])
        /\ (last[n][m] = 0 => IF s = << >> THEN accepted[n][m] = 0 ELSE s[1].k = 1)
    BY <1>1, <2>1 DEF PendingInv
  <2>5. Continues(s, f, t)
    BY <2>2, <2>3, <2>4, NumberedAppend
  <2>6. /\ pending_frames'[n][m] = t /\ accepted'[n][m] = accepted[n][m] + 1
        /\ \A a, b \in Node : ~(a = n /\ b = m) =>
              pending_frames'[a][b] = pending_frames[a][b] /\ accepted'[a][b] = accepted[a][b]
        /\ pending_frames' \in [Node -> [Node -> Seq(Frame)]]
    <3>1. pending_frames' = [pending_frames EXCEPT ![n][m] = t]
      BY <1>4, <1>7, <2>1, <2>3
    <3>2. pending_frames \in [Node -> [Node -> Seq(Frame)]]
      BY <1>1 DEF Typed
    <3>3. /\ pending_frames'[n][m] = t /\ pending_frames' \in [Node -> [Node -> Seq(Frame)]]
          /\ \A a, b \in Node : ~(a = n /\ b = m) => pending_frames'[a][b] = pending_frames[a][b]
      BY <3>1, <3>2
    <3>4. /\ accepted'[n][m] = accepted[n][m] + 1
          /\ \A a, b \in Node : ~(a = n /\ b = m) => accepted'[a][b] = accepted[a][b]
      BY <1>1, <1>4 DEF Typed
    <3> QED BY <3>3, <3>4
  <2>7. Typed'
    <3>1. pending_frames' \in [Node -> [Node -> Seq(Frame)]]
      BY <2>6
    <3>2. accepted' \in [Node -> [Node -> 0..MaxFrames]]
      <4>1. accepted[n][m] + 1 \in 0..MaxFrames
        BY <1>4, <1>5
      <4> QED BY <1>1, <1>4, <4>1 DEF Typed
    <3> QED BY <1>1, <1>4, <1>7, <3>1, <3>2 DEF Typed
  <2>8. Stepped
    <3>1. conns = [d \in 1..Len(conns) |-> conns[d]]
      BY <1>1, LenProperties DEF Typed
    <3>2. ASSUME NEW d \in 1..Len(conns), NEW a \in Ends(d), NEW b \in Ends(d), a # b
          PROVE  Successor(conns[d], conns[d], a, b)
      <4>1. PICK e \in Node : Ends(d) = {a, e} /\ Good(conns[d], a, e)
        BY <1>1, <3>2, EndAt
      <4>2. Good(conns[d], a, b)
        BY <3>2, <4>1
      <4> QED BY <4>2, SuccessorSame
    <3> QED BY <1>4, <1>7, <3>1, <3>2 DEF Stepped
  <2>9. LinkInv'
    <3>1. \A a, b, k, l : LinkOk(a, b, k, l)' <=> LinkOk(a, b, k, l)
      BY <1>4, <1>7 DEF LinkOk, Ends
    <3> QED BY <1>1, <1>4, <3>1, LinkAfter DEF LinkInv
  <2>10. PendingInv'
    <3>1. ASSUME NEW a \in Node, NEW b \in Node
          PROVE  /\ Numbered(pending_frames'[a][b])
                 /\ pending_frames'[a][b] # << >> =>
                       /\ pending_frames'[a][b][Len(pending_frames'[a][b])].k = accepted'[a][b]
                       /\ connections'[a][b] = 0
                 /\ last'[a][b] = 0 =>
                       IF pending_frames'[a][b] = << >> THEN accepted'[a][b] = 0
                       ELSE pending_frames'[a][b][1].k = 1
      <4>1. CASE a = n /\ b = m
        <5>1. /\ Numbered(t) /\ t # << >> /\ t[Len(t)] = f
              /\ t[1] = IF s = << >> THEN f ELSE s[1]
          BY <2>5 DEF Continues
        <5>2. last[n][m] = 0 => t[1].k = 1
          BY <2>2, <2>4, <5>1
        <5> QED BY <1>3, <1>4, <1>7, <2>2, <2>6, <4>1, <5>1, <5>2
      <4>2. CASE ~(a = n /\ b = m)
        <5>1. /\ Numbered(pending_frames[a][b])
              /\ pending_frames[a][b] # << >> =>
                    /\ pending_frames[a][b][Len(pending_frames[a][b])].k = accepted[a][b]
                    /\ connections[a][b] = 0
              /\ last[a][b] = 0 =>
                    IF pending_frames[a][b] = << >> THEN accepted[a][b] = 0
                    ELSE pending_frames[a][b][1].k = 1
          BY <1>1, <3>1 DEF PendingInv
        <5>2. pending_frames'[a][b] = pending_frames[a][b] /\ accepted'[a][b] = accepted[a][b]
          BY <2>6, <3>1, <4>2
        <5> QED BY <1>4, <5>1, <5>2
      <4> QED BY <4>1, <4>2
    <3> QED BY <3>1 DEF PendingInv
  <2>11. ASSUME NEW d \in 1..Len(conns), NEW a \in Ends(d), NEW b \in Ends(d), a # b,
                conns'[d].state[a] # "closed"
         PROVE  StreamOk(d, a, b)'
    <3>1. a \in Node /\ b \in Node /\ d # 0
      <4>1. d # 0
        BY <2>11, LenProperties DEF IInv, Typed
      <4> QED BY <1>1, <2>11, <4>1, EndAt
    <3>2. connections'[b][a] = d => connections[b][a] = d /\ accepted'[b][a] = accepted[b][a]
      BY <1>3, <1>4, <1>7, <2>6, <3>1
    <3>3. conns'[d] = conns[d]
      BY <1>4, <1>7
    <3> QED BY <2>8, <2>11, <3>2, <3>3, OtherStreams
  <2> QED BY <1>4, <2>7, <2>8, <2>9, <2>10, <2>11, SteppedInv
<1> QED BY <1>6, <1>7

\* broadcast.
LEMMA BroadcastStep ==
    ASSUME IInv, NEW n \in Node, NEW role, broadcast(n, role)
    PROVE  IInv'
<1>1. PICK M \in SUBSET Node : M = {m \in Node : Role[m] = role /\ connections[n][m] # 0}
  OBVIOUS
<1>2. HandOver(n, M, FALSE)
  BY <1>1 DEF broadcast, HandOver
<1> QED BY <1>2, EnqueueStep

-----------------------------------------------------------------------------
(* The theorems *)

\* Nothing has happened yet.
LEMMA InitIInv == Init => IInv
<1> SUFFICES ASSUME Init PROVE IInv
  OBVIOUS
<1>1. Len(<< >>) = 0 /\ Numbered(<< >>) /\ \A S : << >> \in Seq(S)
  <2>1. Len(<< >>) = 0 /\ \A S : << >> \in Seq(S)
    BY EmptySeq
  <2> QED BY <2>1 DEF Numbered
<1>2. 0 \in 0..MaxStarts /\ 0 \in 0..MaxFrames /\ 0 \in 0..MaxBreaks
  <2>1. MaxStarts \in Nat /\ MaxFrames \in Nat /\ MaxBreaks \in Nat
    BY NodesAssumption
  <2> QED BY <2>1
<1>3. Typed
  BY <1>1, <1>2 DEF Init, Typed, ByPeer
<1>4. 1..Len(conns) = {}
  BY <1>1 DEF Init
<1>5. RunInv /\ DialInv /\ OneConnection /\ EndInv /\ StreamInv
  BY <1>4 DEF Init, ByPeer, RunInv, DialInv, OneConnection, EndInv, StreamInv
<1>6. \A n, m \in Node : connections[n][m] = 0 /\ last[n][m] = 0 /\ accepted[n][m] = 0
                         /\ pending_frames[n][m] = << >>
  BY DEF Init, ByPeer
<1>7. LinkInv /\ PendingInv
  BY <1>1, <1>6 DEF LinkInv, LinkOk, PendingInv
<1> QED BY <1>3, <1>5, <1>7 DEF IInv

\* A step that changes nothing.
LEMMA StutterIInv == ASSUME IInv, UNCHANGED vars PROVE IInv'
<1>1. UNCHANGED <<alive, run, dial, conns, connections, pending_frames, accepted, last, breaks>>
  BY DEF vars
<1>2. Typed' /\ RunInv' /\ DialInv'
  BY <1>1 DEF IInv, Typed, RunInv, DialInv, Ends
<1>3. \A a, b, c, l : LinkOk(a, b, c, l)' <=> LinkOk(a, b, c, l)
  BY <1>1 DEF LinkOk, Ends
<1>4. LinkInv'
  BY <1>1, <1>3, LinkAfter DEF IInv, LinkInv
<1>5. EndInv' /\ OneConnection' /\ StreamInv' /\ PendingInv'
  BY <1>1, FramesUntouched
<1> QED BY <1>2, <1>4, <1>5 DEF IInv

\* IInv holds in every state: one step per action of Next.
THEOREM NetworkInvariant == Spec => []IInv
<1>1. IInv /\ [Next]_vars => IInv'
  <2> SUFFICES ASSUME IInv, [Next]_vars PROVE IInv'
    OBVIOUS
  <2>1. ASSUME NEW n \in Node, start(n) PROVE IInv'
    BY <2>1, StartStep
  <2>2. ASSUME NEW n \in Node, Die(n) PROVE IInv'
    BY <2>2, DieStep
  <2>3. ASSUME NEW n \in Node, broadcast(n, "METADATA") PROVE IInv'
    BY <2>3, BroadcastStep
  <2>4. ASSUME NEW n \in Node, NEW m \in Node, ConnectFails(n, m) \/ Redial(n, m) PROVE IInv'
    BY <2>4, DialSteps
  <2>5. ASSUME NEW n \in Node, NEW m \in Node, Connect(n, m) PROVE IInv'
    BY <2>5, ConnectStep
  <2>6. ASSUME NEW n \in Node, NEW m \in Node, NEW big \in BOOLEAN, send(n, m, big) PROVE IInv'
    BY <2>6, SendStep
  <2>7. ASSUME NEW c \in 1..Len(conns), NEW n \in Ends(c), register_connection(c, n) PROVE IInv'
    BY <2>7, RegisterStep
  <2>8. ASSUME NEW c \in 1..Len(conns), NEW n \in Ends(c), start_reading(c, n) PROVE IInv'
    BY <2>8, ReadStep
  <2>9. ASSUME NEW c \in 1..Len(conns), NEW n \in Ends(c), write_next(c, n) PROVE IInv'
    BY <2>9, WriteStep
  <2>10. ASSUME NEW c \in 1..Len(conns), NEW n \in Ends(c), ConnectionFails(c, n) PROVE IInv'
    BY <2>10, BreakStep
  <2>11. CASE UNCHANGED vars
    BY <2>11, StutterIInv
  <2> QED BY <2>1, <2>2, <2>3, <2>4, <2>5, <2>6, <2>7, <2>8, <2>9, <2>10, <2>11 DEF Next
<1> QED BY <1>1, InitIInv, PTL DEF Spec

\* Every variable keeps its type; what an end has read holds no HELLO.
THEOREM NetworkTypes == Spec => []TypeOK
<1>1. IInv => TypeOK
  <2> SUFFICES ASSUME IInv PROVE TypeOK
    OBVIOUS
  <2>1. Typed /\ RunInv /\ EndInv /\ LinkInv
    BY DEF IInv
  <2>2. ASSUME NEW c \in 1..Len(conns), NEW n \in Node, n \in Ends(c)
        PROVE  /\ conns[c].state[n] \in {"hello", "open", "closed"}
               /\ conns[c].run[n] \in 1..run[n]
               /\ conns[c].queue[n] \in Seq(Frame) /\ conns[c].got[n] \in Seq(Frame)
               /\ conns[c].wire[n] \in Seq(Frame \cup {HELLO})
               /\ conns[c].writing[n] \in BOOLEAN
    <3>1. PICK E \in Pairs : conns[c] \in ConnOn(E)
      BY <2>1, <2>2, ElementOfSeq DEF Typed, Conn
    <3>2. Ends(c) = E
      BY <3>1, ConnFields DEF Ends
    <3>3. PICK x : x = conns[c] /\ x \in ConnOn(E) /\ n \in E
      BY <2>2, <3>1, <3>2
    <3>4. /\ x.state[n] \in {"hello", "open", "closed"} /\ x.queue[n] \in Seq(Frame)
          /\ x.got[n] \in Seq(Frame) /\ x.wire[n] \in Seq(Wired) /\ x.writing[n] \in BOOLEAN
          /\ x.run[n] \in Nat
      BY <3>3, ConnFields
    <3>5. x.run[n] >= 1 /\ x.run[n] <= run[n]
      BY <2>1, <2>2, <3>3 DEF RunInv
    <3>6. run[n] \in Nat
      <4>1. MaxStarts \in Nat /\ run[n] \in 0..MaxStarts
        BY <2>1, <2>2, NodesAssumption DEF Typed
      <4> QED BY <4>1
    <3>7. x.run[n] \in 1..run[n]
      BY <3>4, <3>5, <3>6
    <3> QED BY <3>3, <3>4, <3>7 DEF Wired
  <2>3. ASSUME NEW n \in Node, NEW m \in Node
        PROVE  /\ connections[n][m] \in {0} \cup {c \in ConnsOf(n) : m = Other(c, n)}
               /\ pending_frames[n][m] \in Seq(Frame) /\ accepted[n][m] \in 0..MaxFrames
    <3>1. PICK c : c = connections[n][m]
      OBVIOUS
    <3>2. c # 0 => n # m /\ c \in 1..Len(conns) /\ Ends(c) = {n, m}
      BY <2>1, <2>3, <3>1 DEF LinkInv, LinkOk
    <3>3. c # 0 => Other(c, n) = m
      BY <3>2, OtherIs
    <3>4. c # 0 => c \in ConnsOf(n)
      BY <3>2 DEF ConnsOf
    <3>5. connections[n][m] \in {0} \cup {d \in ConnsOf(n) : m = Other(d, n)}
      BY <3>1, <3>3, <3>4
    <3> QED BY <2>1, <2>3, <3>5 DEF Typed
  <2> QED BY <2>1, <2>2, <2>3 DEF TypeOK, Typed
<1> QED BY <1>1, NetworkInvariant, PTL

\* Two processes are connected at most once, whatever fails and restarts.
THEOREM ConnectedOnce == Spec => []OneConnection
<1>1. IInv => OneConnection
  BY DEF IInv
<1> QED BY <1>1, NetworkInvariant, PTL

\* The first frame an end reads is the HELLO of the other, and no later one is.
THEOREM HandshakeFirst == Spec => []HelloFirst
<1>1. IInv => HelloFirst
  <2> SUFFICES ASSUME IInv, NEW c \in 1..Len(conns), NEW n \in Ends(c), NEW m, m = Other(c, n),
                      NEW i \in 1..Len(conns[c].wire[m])
               PROVE  conns[c].wire[m][i] = HELLO <=> i = 1 /\ conns[c].state[n] = "hello"
    BY DEF HelloFirst
  <2>1. PICK e \in Node : Other(c, n) = e /\ Good(conns[c], n, e)
    BY EndAt DEF IInv
  <2> QED BY <2>1 DEF Good, EndOk
<1> QED BY <1>1, NetworkInvariant, PTL

\* send finds the connection registered last for as long as it is open, and
\* never one that is closed.
THEOREM SendUsesCurrent == Spec => []CurrentConnection
<1>1. IInv => CurrentConnection
  <2> SUFFICES ASSUME IInv, NEW n \in Node, NEW m \in Node
               PROVE  /\ connections[n][m] # 0 => conns[connections[n][m]].state[n] = "open"
                      /\ last[n][m] # 0 /\ conns[last[n][m]].state[n] = "open"
                            => connections[n][m] = last[n][m]
    BY DEF CurrentConnection
  <2>1. LinkOk(n, m, connections[n][m], last[n][m])
    BY DEF IInv, LinkInv
  <2> QED BY <2>1 DEF LinkOk
<1> QED BY <1>1, NetworkInvariant, PTL

\* What Delivery says of the stream s from m to n on c.
Arrives(s, c, n, m) ==
    /\ Consecutive(s)
    /\ s # << >> /\ connections[m][n] = c => s[Len(s)].k = accepted[m][n]
    /\ s # << >> /\ First(c, n, m) => s[1].k = 1
    /\ connections[m][n] = c /\ s = << >> /\ First(c, n, m) => accepted[m][n] = 0

\* Frames arrive in the order of the calls of send, none twice and none left
\* out, from the first one on the first connection of the sending process to
\* the last one on the connection that send uses.
THEOREM FramesInOrder == Spec => []Delivery
<1>1. ASSUME IInv, NEW c \in 1..Len(conns), NEW n \in Ends(c), NEW m, m = Other(c, n),
             NEW s, s = conns[c].got[n] \o conns[c].wire[m] \o conns[c].queue[m],
             conns[c].state[n] = "open"
      PROVE  Arrives(s, c, n, m)
  <2>1. Typed /\ EndInv /\ StreamInv
    BY <1>1 DEF IInv
  <2>2. n \in Node /\ m \in Node /\ n # m /\ Ends(c) = {n, m} /\ m \in Ends(c) /\ Good(conns[c], n, m)
    BY <1>1, <2>1, EndAt
  <2>3. PICK x : x = conns[c] /\ x \in ConnOn({n, m}) /\ n \in {n, m} /\ m \in {n, m}
    BY <2>2 DEF Good
  <2>4. s = Sent(x, n, m)
    BY <1>1, <2>3 DEF Sent, Body
  <2>5. s \in Seq(Wired)
    BY <2>3, <2>4, PartTypes
  <2>6. StreamOk(c, n, m)
    BY <1>1, <2>1, <2>2 DEF StreamInv
  <2>7. Consecutive(s)
    <3>1. Len(s) \in Nat /\ Numbered(s)
      BY <2>3, <2>4, <2>5, <2>6, LenProperties DEF StreamOk
    <3>2. \A i \in 1..Len(s) - 1 : i \in 1..Len(s) /\ i < Len(s)
      BY <3>1
    <3> QED BY <3>1, <3>2 DEF Consecutive, Numbered
  <2> QED BY <2>3, <2>4, <2>6, <2>7 DEF StreamOk, Arrives
<1>2. ASSUME IInv, NEW c \in 1..Len(conns), NEW n \in Ends(c), NEW m, m = Other(c, n),
             \A d \in ConnsOf(m) \ {c} : Other(d, m) = n => conns[d].run[m] # conns[c].run[m]
      PROVE  First(c, n, m)
  <2>1. n # m
    BY <1>2, EndAt DEF IInv
  <2>2. ASSUME NEW d \in 1..Len(conns), Ends(d) = {n, m} PROVE d \in ConnsOf(m) /\ Other(d, m) = n
    <3>1. Other(d, m) = n
      BY <2>1, <2>2, OtherIs
    <3> QED BY <2>2, <3>1 DEF ConnsOf
  <2> QED BY <1>2, <2>2 DEF First
<1>3. IInv => Delivery
  <2> SUFFICES ASSUME IInv, NEW c \in 1..Len(conns), NEW n \in Ends(c), conns[c].state[n] = "open"
               PROVE  LET m == Other(c, n)
                          stream == conns[c].got[n] \o conns[c].wire[m] \o conns[c].queue[m]
                          first == \A d \in ConnsOf(m) \ {c} :
                                      Other(d, m) = n => conns[d].run[m] # conns[c].run[m]
                      IN  /\ Consecutive(stream)
                          /\ stream # << >> /\ connections[m][n] = c
                                => stream[Len(stream)].k = accepted[m][n]
                          /\ stream # << >> /\ first => stream[1].k = 1
                          /\ connections[m][n] = c /\ stream = << >> /\ first => accepted[m][n] = 0
    BY DEF Delivery
  <2>1. PICK m : m = Other(c, n)
    OBVIOUS
  <2>2. PICK s : s = conns[c].got[n] \o conns[c].wire[m] \o conns[c].queue[m]
    OBVIOUS
  <2>3. Arrives(s, c, n, m)
    BY <1>1, <2>1, <2>2
  <2>4. (\A d \in ConnsOf(m) \ {c} : Other(d, m) = n => conns[d].run[m] # conns[c].run[m])
          => First(c, n, m)
    BY <1>2, <2>1
  <2> QED BY <2>1, <2>2, <2>3, <2>4 DEF Arrives
<1> QED BY <1>3, NetworkInvariant, PTL
=============================================================================
