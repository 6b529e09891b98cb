---------------------------- MODULE MessageQueue ----------------------------
(***************************************************************************)
(* The promise of a queue between threads: pushing and taking are atomic,  *)
(* a consumer takes the oldest item it asked for, each item goes to one    *)
(* consumer, and a consumer leaves with empty hands only at a moment when  *)
(* nothing it asked for is in the queue.  BlockingQueue is shown to        *)
(* implement it.                                                           *)
(***************************************************************************)
EXTENDS Integers, Sequences

CONSTANTS Consumer, Item,
          Nothing         \* std::nullopt; also: not asking

VARIABLES queue,          \* the items, oldest first
          wanted,         \* the items a consumer is asking for, or Nothing
          returned        \* what a consumer's last call gave it, or Nothing

Matching(q, S) == {i \in 1..Len(q) : q[i] \in S}

\* std::find_if: the oldest item of q in S.
FirstMatching(q, S) == CHOOSE i \in Matching(q, S) : \A j \in Matching(q, S) : i <= j

\* queue_.erase
Without(q, i) == SubSeq(q, 1, i - 1) \o SubSeq(q, i + 1, Len(q))

Init ==
    /\ queue = << >>
    /\ wanted = [c \in Consumer |-> Nothing]
    /\ returned = [c \in Consumer |-> Nothing]

Push(x) == queue' = Append(queue, x) /\ UNCHANGED <<wanted, returned>>

Ask(c, S) ==
    /\ wanted[c] = Nothing
    /\ wanted' = [wanted EXCEPT ![c] = S]
    /\ UNCHANGED <<queue, returned>>

Take(c) ==
    /\ wanted[c] # Nothing /\ Matching(queue, wanted[c]) # {}
    /\ LET i == CHOOSE i \in Matching(queue, wanted[c]) :
                    \A j \in Matching(queue, wanted[c]) : i <= j
       IN  /\ returned' = [returned EXCEPT ![c] = queue[i]]
           /\ queue' = SubSeq(queue, 1, i - 1) \o SubSeq(queue, i + 1, Len(queue))
    /\ wanted' = [wanted EXCEPT ![c] = Nothing]

GiveUp(c) ==
    /\ wanted[c] # Nothing /\ Matching(queue, wanted[c]) = {}
    /\ returned' = [returned EXCEPT ![c] = Nothing]
    /\ wanted' = [wanted EXCEPT ![c] = Nothing]
    /\ UNCHANGED queue

Next ==
    \/ \E x \in Item : Push(x)
    \/ \E c \in Consumer : \/ \E S \in SUBSET Item : Ask(c, S)
                           \/ Take(c) \/ GiveUp(c)

Spec == Init /\ [][Next]_<<queue, wanted, returned>>
=============================================================================
