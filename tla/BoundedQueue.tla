---------------------------- MODULE BoundedQueue ----------------------------
(* What a FIFO promises: elements leave in the order in which they came,   *)
(* none is made up, and the only ones that are lost are those that are     *)
(* offered while it is full.                                               *)
EXTENDS Integers, Sequences

CONSTANTS Data, Capacity

VARIABLE queue

Init == queue = <<>>

Put(d) == Len(queue) < Capacity /\ queue' = Append(queue, d)

Get == queue # <<>> /\ queue' = Tail(queue)

(* Both at once, of a queue that is neither empty nor full. *)
PutGet(d) ==
    /\ queue # <<>> /\ Len(queue) < Capacity
    /\ queue' = Append(Tail(queue), d)

Next == (\E d \in Data : Put(d) \/ PutGet(d)) \/ Get

Spec == Init /\ [][Next]_queue
=============================================================================
