---- MODULE BoundedQueue ----
(***************************************************************************)
(* What the kernel's message queue promises its users, without the ring:   *)
(* a bounded sequence whose oldest message is received, or goes back to    *)
(* the end.  Without Requeue it would be the first-in-first-out queue that *)
(* kernel/specs/tla/IPC.tla asks for.                                      *)
(***************************************************************************)
EXTENDS Naturals, Sequences

CONSTANTS Messages, Capacity

VARIABLE queue

Init == queue = << >>

Send == /\ Len(queue) < Capacity
        /\ \E m \in Messages : queue' = Append(queue, m)

Receive == /\ queue # << >>
           /\ queue' = Tail(queue)

Requeue == /\ queue # << >>
           /\ queue' = Append(Tail(queue), Head(queue))

RelaySpec == Init /\ [][Send \/ Receive \/ Requeue]_queue
====
