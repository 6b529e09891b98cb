-------------------------- MODULE MCBlockingQueue --------------------------
(* message_queue_ of the metadata node: the network thread and another     *)
(* producer; the thread that takes requests, the worker that waits for     *)
(* responses, and a consumer that takes anything and never gives up.       *)
EXTENDS BlockingQueue

CONSTANTS request, response

Kinds == {request, response}
ByKind == {{request}, {response}, Kinds}
=============================================================================
