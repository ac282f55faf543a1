------------------------------- MODULE ByteQueue -------------------------------
(***************************************************************************)
(* The ring buffer of firmware/common/byte_queue.{h,c}, shared between one *)
(* producer and one consumer: an interrupt handler and the main loop.      *)
(* Nothing in byte_queue.c masks interrupts: the two sides meet only in    *)
(* `size`, which is updated by a single-instruction add (atomic16_add).    *)
(* Every push and every pull is therefore split at the points where the    *)
(* other side can run.  The peeked bytes are used in place (USB transmits  *)
(* straight out of the buffer) until a later pull.                         *)
(*                                                                         *)
(* Bytes are numbered in the order they are accepted; the code never looks *)
(* at a byte's value.                                                      *)
(***************************************************************************)
EXTENDS Naturals, Sequences

CONSTANTS Capacity,   \* BYTE_QUEUE.capacity
          MaxBytes    \* bound on the number of bytes ever accepted

ASSUME CapacityAssumption == Capacity \in Nat \ {0}
ASSUME MaxBytesAssumption == MaxBytes \in Nat

VARIABLES
    buf,            \* buf[0 .. capacity - 1]
    read_cursor,
    write_cursor,
    size,
    producer,       \* where the producer is: "idle", "checked", "stored"
    len,            \* the length of the push in progress
    consumer,       \* "idle", "peeked", "took", "advanced", "released"
    count,          \* the length of the peek or pull in progress
    ret,            \* the value ByteQueuePullByte is about to return
    accepted,       \* number of bytes accepted so far (history)
    delivered       \* number of bytes that left the queue so far (history)

vars == <<buf, read_cursor, write_cursor, size, producer, len, consumer,
          count, ret, accepted, delivered>>

Slots == 0 .. Capacity - 1

\* A cursor that ran past the end of the buffer continues at its start.
Wrap(i) == IF i >= Capacity THEN i - Capacity ELSE i

Init ==
    /\ buf = [i \in Slots |-> 0]
    /\ read_cursor = 0 /\ write_cursor = 0 /\ size = 0
    /\ producer = "idle" /\ len = 0
    /\ consumer = "idle" /\ count = 0 /\ ret = 0
    /\ accepted = 0 /\ delivered = 0

--------------------------------------------------------------------------------
(* The producer. *)

\* ByteQueuePushByte up to the store; a full queue drops the byte.
ByteQueuePushByte ==
    /\ producer = "idle"
    /\ accepted < MaxBytes
    /\ size # Capacity
    /\ producer' = "checked" /\ len' = 1
    /\ UNCHANGED <<buf, read_cursor, write_cursor, size, consumer, count, ret,
                   accepted, delivered>>

\* ByteQueuePushBuffer up to the copy; a buffer that does not fit is dropped
\* whole (ByteQueueOverflow only logs).
ByteQueuePushBuffer(n) ==
    /\ producer = "idle"
    /\ accepted + n <= MaxBytes
    /\ n # 0
    /\ size + n <= Capacity
    /\ producer' = "checked" /\ len' = n
    /\ UNCHANGED <<buf, read_cursor, write_cursor, size, consumer, count, ret,
                   accepted, delivered>>

\* Mutant of Stored: the second run, from the start of the buffer, is missing.
StoredOneRun(n) ==
    [i \in Slots |-> IF write_cursor <= i /\ i < write_cursor + n
                     THEN accepted + 1 + (i - write_cursor) ELSE buf[i]]

\* The slots a push of n bytes writes, in one or two runs, and what they hold.
Stored(n) ==
    [i \in Slots |->
        IF write_cursor <= i /\ i < write_cursor + n
        THEN accepted + 1 + (i - write_cursor)
        ELSE IF i + Capacity < write_cursor + n
        THEN accepted + 1 + (i + Capacity - write_cursor)
        ELSE buf[i]]

PushStore ==
    /\ producer = "checked"
    /\ buf' = Stored(len)
    /\ write_cursor' = Wrap(write_cursor + len)
    /\ producer' = "stored"
    /\ UNCHANGED <<read_cursor, size, len, consumer, count, ret, accepted,
                   delivered>>

PushPublish ==
    /\ producer = "stored"
    /\ size' = size + len
    /\ accepted' = accepted + len
    /\ producer' = "idle" /\ len' = 0
    /\ UNCHANGED <<buf, read_cursor, write_cursor, consumer, count, ret,
                   delivered>>

--------------------------------------------------------------------------------
(* The consumer. *)

\* Mutant of ByteQueuePullByte: the cursor moves before the byte is read.
PullByteAfterAdvance ==
    /\ consumer = "idle"
    /\ size # 0
    /\ read_cursor' = Wrap(read_cursor + 1)
    /\ ret' = buf[read_cursor']
    /\ consumer' = "took" /\ count' = 1
    /\ UNCHANGED <<buf, write_cursor, size, producer, len, accepted, delivered>>

\* ByteQueuePullByte up to the release of the slot.  Callers hold the assertion
\* `size` != 0: they test ByteQueueSize first.
ByteQueuePullByte ==
    /\ consumer = "idle"
    /\ size # 0
    /\ ret' = buf[read_cursor]
    /\ read_cursor' = Wrap(read_cursor + 1)
    /\ consumer' = "took" /\ count' = 1
    /\ UNCHANGED <<buf, write_cursor, size, producer, len, accepted, delivered>>

PullByteRelease ==
    /\ consumer = "took"
    /\ size' = size - 1
    /\ delivered' = delivered + 1
    /\ consumer' = "idle" /\ count' = 0
    /\ UNCHANGED <<buf, read_cursor, write_cursor, producer, len, ret, accepted>>

\* Mutant of ByteQueuePeekMax: max is not capped by the size.
PeekUncapped(max) ==
    /\ consumer = "idle"
    /\ size # 0
    /\ count' = max
    /\ consumer' = "peeked"
    /\ UNCHANGED <<buf, read_cursor, write_cursor, size, producer, len, ret,
                   accepted, delivered>>

\* ByteQueuePeekMax: up to max bytes, in at most two runs, taken from a local
\* copy of `size`.
ByteQueuePeekMax(max) ==
    /\ consumer = "idle"
    /\ count' = IF max > size THEN size ELSE max
    /\ count' # 0
    /\ consumer' = "peeked"
    /\ UNCHANGED <<buf, read_cursor, write_cursor, size, producer, len, ret,
                   accepted, delivered>>

\* ByteQueuePeek: the first run only.  It compares both cursors, so its one
\* caller (AppProtocolTasks) relies on pushes to that queue being complete
\* whenever the main loop runs: they happen in the main loop itself, in an
\* interrupt handler, or under PRIORITY(1).  The caller then caps the run at
\* max_packet.
ByteQueuePeek(max_packet) ==
    LET run == IF size = 0 THEN 0
               ELSE IF write_cursor <= read_cursor THEN Capacity - read_cursor
               ELSE write_cursor - read_cursor
    IN  /\ consumer = "idle"
        /\ producer = "idle"
        /\ run > 0
        /\ count' = IF run > max_packet THEN max_packet ELSE run
        /\ consumer' = "peeked"
        /\ UNCHANGED <<buf, read_cursor, write_cursor, size, producer, len, ret,
                       accepted, delivered>>

\* ByteQueuePull of the peeked bytes: the cursor runs ahead (perhaps past the
\* end), the bytes are released, and only then the cursor wraps.
ByteQueuePull ==
    /\ consumer = "peeked"
    /\ read_cursor' = read_cursor + count
    /\ consumer' = "advanced"
    /\ UNCHANGED <<buf, write_cursor, size, producer, len, count, ret, accepted,
                   delivered>>

\* Mutant of PullRelease: one byte is released whatever the length.
PullReleaseOne ==
    /\ consumer = "advanced"
    /\ size' = size - 1
    /\ delivered' = delivered + count
    /\ consumer' = "released" /\ count' = 0
    /\ UNCHANGED <<buf, read_cursor, write_cursor, producer, len, ret, accepted>>

PullRelease ==
    /\ consumer = "advanced"
    /\ size' = size - count
    /\ delivered' = delivered + count
    /\ consumer' = "released" /\ count' = 0
    /\ UNCHANGED <<buf, read_cursor, write_cursor, producer, len, ret, accepted>>

PullWrap ==
    /\ consumer = "released"
    /\ read_cursor' = Wrap(read_cursor)
    /\ consumer' = "idle"
    /\ UNCHANGED <<buf, write_cursor, size, producer, len, count, ret, accepted,
                   delivered>>

\* ByteQueueClear, called with the producer quiet (interrupt disabled, or no
\* open channel) and no pull half done; a peek in progress is abandoned.
ByteQueueClear ==
    /\ producer = "idle" /\ consumer \in {"idle", "peeked"}
    /\ size' = 0 /\ read_cursor' = 0 /\ write_cursor' = 0
    /\ consumer' = "idle" /\ count' = 0
    /\ delivered' = accepted
    /\ UNCHANGED <<buf, producer, len, ret, accepted>>

Next ==
    \/ ByteQueuePushByte
    \/ \E n \in 1..Capacity : ByteQueuePushBuffer(n)
    \/ PushStore
    \/ PushPublish
    \/ ByteQueuePullByte
    \/ PullByteRelease
    \/ \E n \in 1..Capacity : ByteQueuePeekMax(n)
    \/ \E n \in 1..Capacity : ByteQueuePeek(n)
    \/ ByteQueuePull
    \/ PullRelease
    \/ PullWrap
    \/ ByteQueueClear

Spec == Init /\ [][Next]_vars

--------------------------------------------------------------------------------
(* Properties. *)

\* The cursors and counters of BYTE_QUEUE stay in range; only read_cursor may stand
\* past the end, inside ByteQueuePull.
TypeOK ==
    /\ buf \in [Slots -> Nat]
    /\ read_cursor \in 0 .. 2 * Capacity
    /\ write_cursor \in Slots
    /\ size \in 0 .. Capacity
    /\ producer \in {"idle", "checked", "stored"}
    /\ len \in 0 .. Capacity
    /\ consumer \in {"idle", "peeked", "took", "advanced", "released"}
    /\ count \in 0 .. Capacity
    /\ ret \in Nat
    /\ accepted \in Nat /\ delivered \in Nat

\* The slot of the oldest byte still in the queue: the cursor has already moved
\* past the bytes of a pull that has not released them yet.
Oldest == IF consumer = "advanced" THEN read_cursor - count
          ELSE IF consumer = "took" /\ read_cursor = 0 THEN Capacity - 1
          ELSE IF consumer = "took" THEN read_cursor - 1
          ELSE Wrap(read_cursor)

\* Every byte the consumer can see is the right one: the k-th byte in the queue
\* is the k-th one accepted and not yet pulled, whatever a push or pull has done
\* so far.  This is what makes reading peeked data in place safe.
ContentsInOrder ==
    \A k \in 1..size : buf[Wrap(Oldest + k - 1)] = delivered + k

\* ByteQueuePullByte returns the oldest byte in the queue.
PullByteReturnsOldest == consumer = "took" => ret = delivered + 1

\* The assertion in ByteQueuePull holds when it is reached: what was peeked is
\* still there, in the queue, when the pull comes.
PeekStillThere == consumer \in {"peeked", "took", "advanced"} => count <= size

--------------------------------------------------------------------------------
(* The inductive invariant behind the properties above. *)

\* The producer's progress: a push under way has room reserved for it, and its
\* stored bytes lie behind the published ones.
ProducerInv ==
    /\ producer = "idle" <=> len = 0
    /\ size + len <= Capacity
    /\ producer = "stored" =>
           \A k \in 1..len : buf[Wrap(Oldest + size + k - 1)] = accepted + k

\* The consumer's progress: how far its cursor may stand past the end, and that
\* what it peeked or took is still accounted for in `size`.
ConsumerInv ==
    /\ Oldest \in Slots
    /\ consumer \in {"idle", "peeked", "took"} => read_cursor \in Slots
    /\ consumer \in {"idle", "released"} <=> count = 0
    /\ consumer = "took" => count = 1
    /\ PeekStillThere

\* The two cursors are exactly the published and the stored bytes apart.
CursorInv ==
    /\ accepted = delivered + size
    /\ write_cursor = Wrap(Oldest + size + (IF producer = "stored" THEN len ELSE 0))

IInv == /\ TypeOK
        /\ ProducerInv
        /\ ConsumerInv
        /\ CursorInv
        /\ ContentsInOrder
        /\ PullByteReturnsOldest

--------------------------------------------------------------------------------
\* The refinement mapping: what the slots from Oldest on hold.
Contents == [k \in 1..size |-> buf[Wrap(Oldest + k - 1)]]

Fifo == INSTANCE BoundedFifo WITH contents <- Contents, last <- accepted

\* The ring buffer, with its pushes and pulls interleaved, implements the
\* bounded queue: a push takes effect when `size` grows, a pull when it shrinks.
ImplementsFifo == Fifo!FifoSpec
================================================================================
