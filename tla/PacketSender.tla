---------------------------- MODULE PacketSender ----------------------------
(***************************************************************************)
(* FlowControlledPacketSender of the host library: a queue of packets, the *)
(* board's room for them, and a thread that takes a packet under the lock  *)
(* and sends it outside.  close() interrupts the thread and does not wait  *)
(* for it.  An object is a record; a bus master has one for each session.  *)
(***************************************************************************)
EXTENDS Integers, Sequences

\* A packet has getSize() = size.  taken is the packet between taking and sending.
NewSender == [queue |-> <<>>, ready |-> 0, taken |-> <<>>, closed |-> FALSE, alive |-> TRUE]
DeadSender == [NewSender EXCEPT !.closed = TRUE, !.alive = FALSE]

\* The condition FlushThread waits for; closed_ is no part of it.
HasRoom(o) == o.queue # <<>> /\ Head(o.queue).size <= o.ready

\* An interrupted thread ends in its next wait().  One that was notified before the interrupt,
\* or is sending, goes on as long as it need not wait.
Interrupted(o) == IF o.closed /\ o.taken = <<>> /\ ~HasRoom(o) THEN DeadSender ELSE o

Write(o, p) == [o EXCEPT !.queue = Append(@, p)]
ReadyToSend(o, n) == IF o.alive THEN [o EXCEPT !.ready = @ + n] ELSE o
CloseSender(o) == Interrupted([o EXCEPT !.closed = TRUE])

CanTake(o) == o.alive /\ o.taken = <<>> /\ HasRoom(o)
Take(o) == [o EXCEPT !.ready = @ - Head(o.queue).size, !.taken = <<Head(o.queue)>>, !.queue = Tail(@)]
Sent(o) == Interrupted([o EXCEPT !.taken = <<>>])
=============================================================================
