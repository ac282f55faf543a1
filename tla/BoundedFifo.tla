------------------------------ MODULE BoundedFifo ------------------------------
(***************************************************************************)
(* What common/byte_queue.h promises its users: a bounded first-in         *)
(* first-out queue of bytes.  A push is all or nothing; a pull removes     *)
(* bytes from the head; a clear empties the queue.  Bytes are numbered in  *)
(* the order in which they were accepted, so that loss, duplication and    *)
(* reordering are all visible.                                             *)
(***************************************************************************)
EXTENDS Naturals, Sequences

CONSTANTS Capacity,   \* BYTE_QUEUE.capacity
          MaxBytes    \* bound on the number of bytes ever accepted

VARIABLES contents,   \* the bytes in the queue, head first
          last        \* the number of the byte accepted last

fifoVars == <<contents, last>>

Numbered(from, n) == [k \in 1..n |-> from + k]

FifoInit == contents = <<>> /\ last = 0

Push(n) == /\ Len(contents) + n <= Capacity
           /\ contents' = contents \o Numbered(last, n)
           /\ last' = last + n

Pull(n) == /\ n <= Len(contents)
           /\ contents' = SubSeq(contents, n + 1, Len(contents))
           /\ UNCHANGED last

Clear == contents' = <<>> /\ UNCHANGED last

FifoNext == \/ \E n \in 1..Capacity : Push(n) \/ Pull(n)
            \/ Clear

FifoSpec == FifoInit /\ [][FifoNext]_fifoVars
================================================================================
