---------------------------- MODULE ByteQueue_proofs ----------------------------
(***************************************************************************)
(* Machine-checked proofs about the ring buffer, for every capacity.       *)
(***************************************************************************)
EXTENDS ByteQueue, TLAPS

(***************************************************************************)
(* The empty queue satisfies the inductive invariant.                      *)
(***************************************************************************)
LEMMA InitIInv == Init => IInv
  BY CapacityAssumption DEF Init, IInv, TypeOK, ProducerInv, ConsumerInv, CursorInv,
     ContentsInOrder, PullByteReturnsOldest, PeekStillThere, Oldest, Wrap, Slots

(***************************************************************************)
(* A push that passed its check (ByteQueuePushByte, ByteQueuePushBuffer)   *)
(* has room for all its bytes.                                             *)
(***************************************************************************)
LEMMA PushStart == ASSUME IInv, NEW n \in 1..Capacity,
                          ByteQueuePushByte \/ ByteQueuePushBuffer(n)
                   PROVE  IInv'
  <1> USE CapacityAssumption DEF IInv, ByteQueuePushByte, ByteQueuePushBuffer
  <1>1. Oldest' = Oldest
    BY DEF Oldest, Wrap
  <1>2. TypeOK'
    BY DEF TypeOK
  <1>3. ProducerInv'
    BY <1>1 DEF TypeOK, ProducerInv
  <1>4. ConsumerInv' /\ PullByteReturnsOldest'
    BY <1>1 DEF ConsumerInv, PeekStillThere, PullByteReturnsOldest, Slots
  <1>5. CursorInv' /\ ContentsInOrder'
    BY <1>1 DEF CursorInv, ContentsInOrder, Wrap, ProducerInv
  <1>6. QED
    BY <1>2, <1>3, <1>4, <1>5

(***************************************************************************)
(* Storing a push writes only slots outside the published bytes.           *)
(***************************************************************************)
LEMMA PushStoreStep == IInv /\ PushStore => IInv'
  <1> SUFFICES ASSUME IInv, PushStore PROVE IInv'
    OBVIOUS
  <1> USE CapacityAssumption DEF IInv, PushStore
  <1>1. Oldest' = Oldest
    BY DEF Oldest, Wrap
  <1>2. /\ Oldest \in Slots /\ size \in 0..Capacity /\ len \in 1..Capacity
        /\ size + len <= Capacity
        /\ write_cursor = Wrap(Oldest + size) /\ write_cursor \in Slots
        /\ accepted \in Nat
    BY DEF TypeOK, ProducerInv, ConsumerInv, CursorInv, Wrap, Slots
  <1>3. TypeOK'
    BY <1>2 DEF TypeOK, Stored, Wrap, Slots
  <1>4. ContentsInOrder'
    <2>1. ASSUME NEW k \in 1..size
          PROVE  buf'[Wrap(Oldest + k - 1)] = buf[Wrap(Oldest + k - 1)]
      BY <1>2 DEF Stored, Wrap, Slots
    <2>2. QED
      BY <1>1, <2>1 DEF ContentsInOrder, Wrap
  <1>5. ASSUME NEW k \in 1..len
        PROVE  buf'[Wrap(Oldest + size + k - 1)] = accepted + k
    BY <1>2 DEF Stored, Wrap, Slots
  <1>6. ProducerInv'
    BY <1>1, <1>2, <1>5 DEF ProducerInv, Wrap
  <1>7. ConsumerInv' /\ PullByteReturnsOldest'
    BY <1>1 DEF ConsumerInv, PeekStillThere, PullByteReturnsOldest, Slots
  <1>8. CursorInv'
    BY <1>1, <1>2 DEF CursorInv, Wrap, Slots
  <1>9. QED
    BY <1>3, <1>4, <1>6, <1>7, <1>8

(***************************************************************************)
(* Publishing appends exactly the stored bytes to the visible ones.        *)
(***************************************************************************)
LEMMA PushPublishStep == IInv /\ PushPublish => IInv'
  <1> SUFFICES ASSUME IInv, PushPublish PROVE IInv'
    OBVIOUS
  <1> USE CapacityAssumption DEF IInv, PushPublish
  <1>1. Oldest' = Oldest
    BY DEF Oldest, Wrap
  <1>2. /\ Oldest \in Slots /\ size \in 0..Capacity /\ len \in 1..Capacity
        /\ size + len <= Capacity
        /\ accepted = delivered + size /\ accepted \in Nat /\ delivered \in Nat
    BY DEF TypeOK, ProducerInv, ConsumerInv, CursorInv
  <1>3. TypeOK'
    BY <1>2 DEF TypeOK
  <1>4. ContentsInOrder'
    <2>1. ASSUME NEW k \in 1..(size + len), k > size
          PROVE  buf[Wrap(Oldest + k - 1)] = delivered + k
      <3>1. k - size \in 1..len
        BY <1>2, <2>1
      <3>2. buf[Wrap(Oldest + size + (k - size) - 1)] = accepted + (k - size)
        BY <3>1 DEF ProducerInv
      <3>3. QED
        BY <1>2, <3>2 DEF Slots
    <2>2. QED
      BY <1>1, <1>2, <2>1 DEF ContentsInOrder, Wrap
  <1>5. ProducerInv'
    BY <1>2 DEF ProducerInv
  <1>6. ConsumerInv' /\ PullByteReturnsOldest'
    BY <1>1, <1>2 DEF ConsumerInv, PeekStillThere, PullByteReturnsOldest, Slots, TypeOK
  <1>7. CursorInv'
    BY <1>1, <1>2 DEF CursorInv, Wrap, Slots
  <1>8. QED
    BY <1>3, <1>4, <1>5, <1>6, <1>7

(***************************************************************************)
(* ByteQueuePullByte reads the oldest byte; releasing it moves the oldest  *)
(* one slot on.                                                            *)
(***************************************************************************)
LEMMA PullByteStart == IInv /\ ByteQueuePullByte => IInv'
  <1> SUFFICES ASSUME IInv, ByteQueuePullByte PROVE IInv'
    OBVIOUS
  <1> USE CapacityAssumption DEF IInv, ByteQueuePullByte
  <1>1. read_cursor \in Slots /\ Oldest = read_cursor /\ size \in 1..Capacity
    BY DEF TypeOK, ConsumerInv, Oldest, Wrap, Slots
  <1>2. Oldest' = Oldest
    BY <1>1 DEF Oldest, Wrap, Slots
  <1>3. buf[read_cursor] = delivered + 1
    <2>1. buf[Wrap(Oldest + 1 - 1)] = delivered + 1
      BY <1>1 DEF ContentsInOrder
    <2>2. Wrap(Oldest + 1 - 1) = read_cursor
      BY <1>1 DEF Wrap, Slots
    <2>3. QED
      BY <2>1, <2>2
  <1>4. TypeOK'
    BY <1>1 DEF TypeOK, Wrap, Slots
  <1>5. ProducerInv' /\ CursorInv' /\ ContentsInOrder'
    BY <1>2 DEF ProducerInv, CursorInv, ContentsInOrder, Wrap
  <1>6. ConsumerInv' /\ PullByteReturnsOldest'
    BY <1>1, <1>2, <1>3 DEF ConsumerInv, PeekStillThere, PullByteReturnsOldest, Wrap, Slots
  <1>7. QED
    BY <1>4, <1>5, <1>6

(***************************************************************************)
(* When n bytes leave the queue, the oldest slot moves n on; everything    *)
(* behind it keeps its place.  Shared by both ways of pulling.             *)
(***************************************************************************)
LEMMA ReleaseShift ==
    ASSUME IInv, NEW n \in 1..Capacity, n <= size,
           size' = size - n, delivered' = delivered + n,
           Oldest' = Wrap(Oldest + n),
           UNCHANGED <<buf, write_cursor, producer, len, accepted>>
    PROVE  ProducerInv' /\ CursorInv' /\ ContentsInOrder'
  <1> USE CapacityAssumption DEF IInv
  <1>1. /\ Oldest \in 0 .. Capacity - 1 /\ size \in 0..Capacity /\ len \in 0..Capacity
        /\ accepted \in Nat /\ delivered \in Nat
        /\ accepted = delivered + size /\ size + len <= Capacity
    BY DEF TypeOK, ProducerInv, ConsumerInv, CursorInv, Slots
  <1>2. ASSUME NEW j \in 0 .. Capacity - 1 - n
        PROVE  Wrap(Oldest' + j) = Wrap(Oldest + n + j)
    BY <1>1 DEF Wrap
  <1>3. ContentsInOrder'
    <2> SUFFICES ASSUME NEW k \in 1..(size - n)
                 PROVE  buf[Wrap(Oldest' + k - 1)] = delivered + n + k
      BY <1>1 DEF ContentsInOrder, Wrap
    <2>1. n + k \in 1..size /\ k - 1 \in 0 .. Capacity - 1 - n
      BY <1>1
    <2>2. buf[Wrap(Oldest + (n + k) - 1)] = delivered + (n + k)
      BY <2>1 DEF ContentsInOrder
    <2>3. Wrap(Oldest' + (k - 1)) = Wrap(Oldest + n + (k - 1))
      BY <1>2, <2>1
    <2>4. Oldest + (n + k) - 1 = Oldest + n + (k - 1) /\ Oldest' + k - 1 = Oldest' + (k - 1)
      BY <1>1 DEF Wrap
    <2>5. QED
      BY <1>1, <2>2, <2>3, <2>4
  <1>4. ProducerInv'
    <2> SUFFICES ASSUME producer = "stored", NEW k \in 1..len
                 PROVE  buf[Wrap(Oldest' + (size - n) + k - 1)] = accepted + k
      BY <1>1 DEF ProducerInv, Wrap
    <2>1. size - n + k - 1 \in 0 .. Capacity - 1 - n
      BY <1>1
    <2>2. Wrap(Oldest' + (size - n + k - 1)) = Wrap(Oldest + n + (size - n + k - 1))
      BY <1>2, <2>1
    <2>3. buf[Wrap(Oldest + size + k - 1)] = accepted + k
      BY DEF ProducerInv
    <2>4. /\ Oldest + size + k - 1 = Oldest + n + (size - n + k - 1)
          /\ Oldest' + (size - n) + k - 1 = Oldest' + (size - n + k - 1)
      BY <1>1 DEF Wrap
    <2>5. QED
      BY <2>2, <2>3, <2>4
  <1>5. CursorInv'
    <2>1. CASE producer = "stored"
      BY <1>1, <2>1 DEF CursorInv, Wrap
    <2>2. CASE producer # "stored"
      BY <1>1, <2>2 DEF CursorInv, Wrap
    <2>3. QED
      BY <2>1, <2>2
  <1>6. QED
    BY <1>3, <1>4, <1>5

LEMMA PullByteReleaseStep == IInv /\ PullByteRelease => IInv'
  <1> SUFFICES ASSUME IInv, PullByteRelease PROVE IInv'
    OBVIOUS
  <1> USE CapacityAssumption DEF IInv, PullByteRelease
  <1>1. read_cursor \in Slots /\ size \in 1..Capacity
    BY DEF TypeOK, ConsumerInv, PeekStillThere, Slots
  <1>2. Oldest' = read_cursor /\ Oldest' = Wrap(Oldest + 1)
    BY <1>1 DEF Oldest, Wrap, Slots
  <1>3. ProducerInv' /\ CursorInv' /\ ContentsInOrder'
    BY <1>1, <1>2, ReleaseShift
  <1>4. TypeOK'
    BY <1>1 DEF TypeOK
  <1>5. ConsumerInv' /\ PullByteReturnsOldest'
    BY <1>1, <1>2 DEF ConsumerInv, PeekStillThere, PullByteReturnsOldest, Slots
  <1>6. QED
    BY <1>3, <1>4, <1>5

(***************************************************************************)
(* Both ways of peeking see only published bytes.  For ByteQueuePeek this  *)
(* rests on the distance between the two cursors: with the producer idle,  *)
(* the run up to the write cursor or the end of the buffer is published.   *)
(***************************************************************************)
LEMMA PeekStep == ASSUME IInv, NEW n \in 1..Capacity,
                         ByteQueuePeekMax(n) \/ ByteQueuePeek(n)
                  PROVE  IInv'
  <1> USE CapacityAssumption DEF IInv
  <1>1. /\ read_cursor \in Slots /\ Oldest = read_cursor /\ size \in 0..Capacity
        /\ consumer = "idle" /\ consumer' = "peeked"
        /\ UNCHANGED <<buf, read_cursor, write_cursor, size, producer, len, ret,
                       accepted, delivered>>
    BY DEF TypeOK, ConsumerInv, Oldest, Wrap, Slots, ByteQueuePeekMax, ByteQueuePeek
  <1>2. count' \in 1..size
    <2>1. CASE ByteQueuePeekMax(n)
      BY <1>1, <2>1 DEF ByteQueuePeekMax
    <2>2. CASE ByteQueuePeek(n)
      <3>1. write_cursor = Wrap(read_cursor + size)
        BY <1>1, <2>2 DEF ByteQueuePeek, CursorInv, Slots, Wrap
      <3>2. QED
        BY <1>1, <2>2, <3>1 DEF ByteQueuePeek, Slots, Wrap
    <2>3. QED
      BY <2>1, <2>2
  <1>3. Oldest' = Oldest
    BY <1>1 DEF Oldest, Wrap, Slots
  <1>4. TypeOK'
    BY <1>1, <1>2 DEF TypeOK
  <1>5. ProducerInv' /\ CursorInv' /\ ContentsInOrder'
    BY <1>1, <1>3 DEF ProducerInv, CursorInv, ContentsInOrder, Wrap
  <1>6. ConsumerInv' /\ PullByteReturnsOldest'
    BY <1>1, <1>2, <1>3 DEF ConsumerInv, PeekStillThere, PullByteReturnsOldest, Slots
  <1>7. QED
    BY <1>4, <1>5, <1>6

(***************************************************************************)
(* ByteQueuePull in its three steps.  While the cursor stands past the end *)
(* of the buffer, Oldest is still a slot, and the producer never reads the *)
(* cursor.                                                                 *)
(***************************************************************************)
LEMMA PullStart == IInv /\ ByteQueuePull => IInv'
  <1> SUFFICES ASSUME IInv, ByteQueuePull PROVE IInv'
    OBVIOUS
  <1> USE CapacityAssumption DEF IInv, ByteQueuePull
  <1>1. /\ read_cursor \in Slots /\ Oldest = read_cursor
        /\ count \in 0..Capacity /\ count <= size
    BY DEF TypeOK, ConsumerInv, PeekStillThere, Oldest, Wrap, Slots
  <1>2. Oldest' = Oldest
    BY <1>1 DEF Oldest, Slots
  <1>3. TypeOK'
    BY <1>1 DEF TypeOK, Slots
  <1>4. ProducerInv' /\ CursorInv' /\ ContentsInOrder'
    BY <1>2 DEF ProducerInv, CursorInv, ContentsInOrder, Wrap
  <1>5. ConsumerInv' /\ PullByteReturnsOldest'
    BY <1>1, <1>2 DEF ConsumerInv, PeekStillThere, PullByteReturnsOldest, Slots
  <1>6. QED
    BY <1>3, <1>4, <1>5

LEMMA PullReleaseStep == IInv /\ PullRelease => IInv'
  <1> SUFFICES ASSUME IInv, PullRelease PROVE IInv'
    OBVIOUS
  <1> USE CapacityAssumption DEF IInv, PullRelease
  <1>1. /\ Oldest = read_cursor - count /\ Oldest \in Slots
        /\ count \in 1..Capacity /\ count <= size
        /\ read_cursor \in 0 .. 2 * Capacity /\ size \in 0..Capacity
    BY DEF TypeOK, ConsumerInv, PeekStillThere, Oldest
  <1>2. Oldest' = Wrap(read_cursor) /\ Oldest' = Wrap(Oldest + count)
    BY <1>1 DEF Oldest, Wrap, Slots
  <1>3. ProducerInv' /\ CursorInv' /\ ContentsInOrder'
    BY <1>1, <1>2, ReleaseShift
  <1>4. TypeOK'
    BY <1>1 DEF TypeOK
  <1>5. ConsumerInv' /\ PullByteReturnsOldest'
    BY <1>1, <1>2 DEF ConsumerInv, PeekStillThere, PullByteReturnsOldest, Slots, Wrap
  <1>6. QED
    BY <1>3, <1>4, <1>5

LEMMA PullWrapStep == IInv /\ PullWrap => IInv'
  <1> SUFFICES ASSUME IInv, PullWrap PROVE IInv'
    OBVIOUS
  <1> USE CapacityAssumption DEF IInv, PullWrap
  <1>1. Oldest = Wrap(read_cursor) /\ Oldest \in Slots
    BY DEF ConsumerInv, Oldest
  <1>2. Oldest' = Oldest /\ read_cursor' = Oldest
    BY <1>1 DEF Oldest, Wrap, Slots
  <1>3. TypeOK'
    BY <1>1, <1>2 DEF TypeOK, Slots
  <1>4. ProducerInv' /\ CursorInv' /\ ContentsInOrder'
    BY <1>2 DEF ProducerInv, CursorInv, ContentsInOrder, Wrap
  <1>5. ConsumerInv' /\ PullByteReturnsOldest'
    BY <1>1, <1>2 DEF ConsumerInv, PeekStillThere, PullByteReturnsOldest, Slots
  <1>6. QED
    BY <1>3, <1>4, <1>5

LEMMA ClearStep == IInv /\ ByteQueueClear => IInv'
  BY CapacityAssumption
  DEF IInv, ByteQueueClear, TypeOK, ProducerInv, ConsumerInv, CursorInv,
      ContentsInOrder, PullByteReturnsOldest, PeekStillThere, Oldest, Wrap, Slots

(***************************************************************************)
(* The invariant is inductive.                                             *)
(***************************************************************************)
LEMMA NextIInv == IInv /\ [Next]_vars => IInv'
  <1>1. IInv /\ UNCHANGED vars => IInv'
    BY DEF vars, IInv, TypeOK, ProducerInv, ConsumerInv, CursorInv, ContentsInOrder,
       PullByteReturnsOldest, PeekStillThere, Oldest, Wrap
  <1>2. 1 \in 1..Capacity
    BY CapacityAssumption
  <1>3. QED
    BY <1>1, <1>2, PushStart, PushStoreStep, PushPublishStep, PullByteStart,
       PullByteReleaseStep, PeekStep, PullStart, PullReleaseStep, PullWrapStep,
       ClearStep
    DEF Next

(***************************************************************************)
(* Type correctness of the ring buffer under every interleaving of its     *)
(* two sides.                                                              *)
(***************************************************************************)
THEOREM TypeCorrect == Spec => []TypeOK
  <1>1. IInv => TypeOK
    BY DEF IInv
  <1>2. QED
    BY <1>1, InitIInv, NextIInv, PTL DEF Spec

(***************************************************************************)
(* Peeked and pulled bytes are the right ones, in order, for every         *)
(* capacity: byte_queue.c never lets a push disturb published bytes.       *)
(***************************************************************************)
THEOREM BytesInOrder == Spec => []ContentsInOrder
  <1>1. IInv => ContentsInOrder
    BY DEF IInv
  <1>2. QED
    BY <1>1, InitIInv, NextIInv, PTL DEF Spec

(***************************************************************************)
(* The assertion of ByteQueuePull never fails: what ByteQueuePeek showed   *)
(* is still there when it is pulled.                                       *)
(***************************************************************************)
THEOREM PeeksAreSound == Spec => []PeekStillThere
  <1>1. IInv => PeekStillThere
    BY DEF IInv, ConsumerInv
  <1>2. QED
    BY <1>1, InitIInv, NextIInv, PTL DEF Spec

(***************************************************************************)
(* ByteQueuePullByte returns the oldest byte, although pushes go on        *)
(* between its steps.                                                      *)
(***************************************************************************)
THEOREM PullsAreSound == Spec => []PullByteReturnsOldest
  <1>1. IInv => PullByteReturnsOldest
    BY DEF IInv, ConsumerInv
  <1>2. QED
    BY <1>1, InitIInv, NextIInv, PTL DEF Spec

--------------------------------------------------------------------------------
(* The refinement. *)

\* What the mapping shows of a state that satisfies the invariant: the numbers
\* delivered + 1 .. delivered + size.
LEMMA MappedContents == IInv => Contents = [k \in 1..size |-> delivered + k]
  BY DEF IInv, ContentsInOrder, Contents

LEMMA MappedInit == Init => Fifo!FifoInit
  BY CapacityAssumption DEF Init, Fifo!FifoInit, Contents

\* A step that keeps size and delivered keeps the mapped contents.
LEMMA MappedStutter ==
    ASSUME IInv, IInv', UNCHANGED <<size, delivered, accepted>>
    PROVE  UNCHANGED Fifo!fifoVars
  BY MappedContents DEF IInv, ContentsInOrder, Contents, Fifo!fifoVars

\* Publishing a push appends the next bytes to the mapped queue.
LEMMA MappedPush == ASSUME IInv, IInv', PushPublish
                    PROVE  Fifo!FifoNext
  <1> DEFINE new == [k \in 1..len |-> accepted + k]
  <1>1. /\ size \in Nat /\ len \in 1..Capacity /\ size + len <= Capacity
        /\ delivered \in Nat /\ accepted = delivered + size
    BY CapacityAssumption DEF IInv, TypeOK, ProducerInv, CursorInv, PushPublish
  <1>2. Contents = [k \in 1..size |-> delivered + k]
    BY MappedContents
  <1>3. Contents' = [k \in 1..(size + len) |-> delivered + k]
    BY <1>1 DEF IInv, ContentsInOrder, Contents, PushPublish
  <1>4. /\ Contents \in Seq(Nat) /\ Len(Contents) = size
        /\ new \in Seq(Nat) /\ Len(new) = len
    BY <1>1, <1>2
  <1>5. Contents' = Contents \o new
    BY <1>1, <1>2, <1>3, <1>4
  <1>6. Fifo!Push(len)
    BY <1>1, <1>4, <1>5 DEF Fifo!Push, Fifo!Numbered, PushPublish
  <1>7. QED
    BY <1>1, <1>6 DEF Fifo!FifoNext

\* Releasing n bytes removes n bytes from the head of the mapped queue.
LEMMA MappedPull == ASSUME IInv, IInv', NEW n \in 1..Capacity, n <= size,
                           size' = size - n, delivered' = delivered + n,
                           UNCHANGED accepted
                    PROVE  Fifo!FifoNext
  <1>1. size \in Nat /\ delivered \in Nat
    BY CapacityAssumption DEF IInv, TypeOK
  <1>2. Contents = [k \in 1..size |-> delivered + k]
    BY MappedContents
  <1>3. Contents' = [k \in 1..(size - n) |-> delivered + n + k]
    BY <1>1 DEF IInv, ContentsInOrder, Contents
  <1>4. Contents \in Seq(Nat) /\ Len(Contents) = size
    BY <1>1, <1>2
  <1>5. Contents' = SubSeq(Contents, n + 1, Len(Contents))
    BY <1>1, <1>2, <1>3, <1>4
  <1>6. Fifo!Pull(n)
    BY <1>4, <1>5 DEF Fifo!Pull
  <1>7. QED
    BY <1>6 DEF Fifo!FifoNext

LEMMA MappedNext == IInv /\ IInv' /\ [Next]_vars => [Fifo!FifoNext]_(Fifo!fifoVars)
  <1> SUFFICES ASSUME IInv, IInv', [Next]_vars
               PROVE  [Fifo!FifoNext]_(Fifo!fifoVars)
    OBVIOUS
  <1>1. CASE PushPublish
    BY <1>1, MappedPush
  <1>2. CASE PullByteRelease
    <2>1. 1 \in 1..Capacity /\ 1 <= size
      BY <1>2, CapacityAssumption
      DEF IInv, ConsumerInv, PeekStillThere, TypeOK, PullByteRelease
    <2>2. QED
      BY <1>2, <2>1, MappedPull DEF PullByteRelease
  <1>3. CASE PullRelease
    <2>1. count \in 1..Capacity /\ count <= size
      BY <1>3 DEF IInv, ConsumerInv, PeekStillThere, TypeOK, PullRelease
    <2>2. QED
      BY <1>3, <2>1, MappedPull DEF PullRelease
  <1>4. CASE ByteQueueClear
    <2>1. Contents' = <<>>
      BY <1>4 DEF ByteQueueClear, Contents
    <2>2. QED
      BY <1>4, <2>1 DEF ByteQueueClear, Fifo!Clear, Fifo!FifoNext
  <1>5. CASE UNCHANGED <<size, delivered, accepted>>
    BY <1>5, MappedStutter
  <1>6. QED
    BY <1>1, <1>2, <1>3, <1>4, <1>5
    DEF Next, vars, ByteQueuePushByte, ByteQueuePushBuffer, PushStore,
        ByteQueuePullByte, ByteQueuePeekMax, ByteQueuePeek, ByteQueuePull, PullWrap

(***************************************************************************)
(* The ring buffer of byte_queue.c, with pushes and pulls interleaved at   *)
(* every point an interrupt can hit, implements the bounded FIFO queue.    *)
(***************************************************************************)
THEOREM RingImplementsFifo == Spec => ImplementsFifo
  <1>1. Spec => []IInv
    BY InitIInv, NextIInv, PTL DEF Spec
  <1>2. QED
    BY <1>1, MappedInit, MappedNext, PTL DEF Spec, ImplementsFifo, Fifo!FifoSpec
================================================================================
