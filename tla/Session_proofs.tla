---------------------------- MODULE Session_proofs ----------------------------
(***************************************************************************)
(* Proofs about Session, for every number of ADB channels and every length *)
(* of tx_queue.                                                            *)
(***************************************************************************)
EXTENDS Session, TLAPS, WellFoundedInduction

-----------------------------------------------------------------------------
(* What the operations on the board's state change.                        *)

\* AppProtocolSendMessage touches tx_queue only, and leaves something in it
\* while the protocol is open.
LEMMA SendMessageBoard ==
    ASSUME NEW b \in BoardType
    PROVE  LET c == SendMessage(b)
           IN  /\ c \in BoardType
               /\ c.main = b.main /\ c.handle = b.handle /\ c.proto = b.proto
               /\ c.bytes_out = b.bytes_out /\ b.tx <= c.tx
               /\ c.configured = b.configured /\ c.outputs = b.outputs /\ c.preserve = b.preserve
               /\ b.proto = "OPEN" => c.tx # 0
  BY SessionAssumption DEF SendMessage, BoardType

\* AppCallback(NULL) resets a board that was connected, and only that.
LEMMA ChannelClosedBoard ==
    ASSUME NEW b \in BoardType
    PROVE  LET c == ChannelClosed(b)
           IN  /\ c \in BoardType
               /\ c.main = "OPEN_CHANNEL" /\ c.handle = b.handle /\ c.proto = b.proto
               /\ c.tx = b.tx /\ c.bytes_out = b.bytes_out
               /\ b.main = "CONNECTED" => ~c.configured /\ ~c.preserve
               /\ b.main # "CONNECTED" => /\ c.configured = b.configured /\ c.preserve = b.preserve
                                          /\ c.outputs = b.outputs
  BY DEF ChannelClosed, SoftResetOnDisconnect, ResetAll, PinsInit, BoardType

\* A reset changes neither the connection nor the queue.
LEMMA ResetBoard ==
    ASSUME NEW b \in BoardType
    PROVE  /\ SoftReset(b) \in BoardType /\ SoftResetOnDisconnect(b) \in BoardType
           /\ \A c \in {SoftReset(b), SoftResetOnDisconnect(b)} :
                /\ c.main = b.main /\ c.handle = b.handle /\ c.proto = b.proto
                /\ c.tx = b.tx /\ c.bytes_out = b.bytes_out
                /\ ~c.configured /\ ~c.preserve
  BY DEF SoftReset, SoftResetOnDisconnect, ResetAll, PinsInit, BoardType

\* A message that configures something touches nothing else.
LEMMA SetFlagBoard ==
    ASSUME NEW b \in BoardType,
           NEW c \in {[b EXCEPT !.configured = TRUE], [b EXCEPT !.outputs = TRUE],
                      [b EXCEPT !.preserve = TRUE]}
    PROVE  /\ c \in BoardType
           /\ c.main = b.main /\ c.handle = b.handle /\ c.proto = b.proto
           /\ c.tx = b.tx /\ c.bytes_out = b.bytes_out
  BY DEF BoardType

\* MessageDone: only a corrupt message leads to STATE_ERROR, only SOFT_CLOSE out
\* of STATE_OPEN, and then its answer is in the queue.
LEMMA MessageDoneBoard ==
    ASSUME NEW b \in BoardType, NEW m \in Messages
    PROVE  LET c == MessageDone(b, m)
           IN  /\ c \in BoardType
               /\ c.handle = b.handle /\ c.bytes_out = b.bytes_out /\ b.tx <= c.tx
               /\ c.main = b.main \/ (c.main = "ERROR" /\ m = "corrupt")
               /\ c.proto = b.proto \/ (c.proto = "CLOSING" /\ m = "soft_close")
               /\ b.proto = "OPEN" /\ c.proto = "CLOSING" => c.tx # 0
  <1>1. CASE b.main = "ERROR"
    BY <1>1 DEF MessageDone, BoardType
  <1>2. CASE b.main # "ERROR" /\ m = "soft_reset"
    <2>1. MessageDone(b, m) = SendMessage(SoftReset(b))
      BY <1>2 DEF MessageDone
    <2>2. QED
      BY <2>1, <1>2, ResetBoard, SendMessageBoard DEF BoardType
  <1>3. CASE b.main # "ERROR" /\ m = "soft_close"
    <2>1. MessageDone(b, m) = [SendMessage(b) EXCEPT !.proto = "CLOSING"]
      BY <1>3 DEF MessageDone
    <2>2. QED
      BY <2>1, <1>3, SendMessageBoard DEF BoardType
  <1>4. CASE b.main # "ERROR" /\ m \in {"config", "output", "preserve"}
    <2>1. MessageDone(b, m) \in {[b EXCEPT !.configured = TRUE], [b EXCEPT !.outputs = TRUE],
                                 [b EXCEPT !.preserve = TRUE]}
      BY <1>4 DEF MessageDone
    <2> DEFINE c == MessageDone(b, m)
    <2>2. /\ c \in BoardType
          /\ c.main = b.main /\ c.handle = b.handle /\ c.proto = b.proto
          /\ c.tx = b.tx /\ c.bytes_out = b.bytes_out
      BY <2>1, SetFlagBoard
    <2>3. b.tx \in Nat
      BY SessionAssumption DEF BoardType
    <2> HIDE DEF c
    <2>4. c.handle = b.handle /\ c.bytes_out = b.bytes_out /\ b.tx <= c.tx
      BY <2>2, <2>3
    <2>5. b.proto = "OPEN" /\ c.proto = "CLOSING" => c.tx # 0
      BY <2>2
    <2>6. QED
      BY <2>2, <2>4, <2>5 DEF c
  <1>5. CASE b.main # "ERROR" /\ m = "corrupt"
    BY <1>5 DEF MessageDone, BoardType
  <1>6. QED
    BY <1>1, <1>2, <1>3, <1>4, <1>5 DEF Messages

\* AppCallback(data), for a buffer of one or two messages.
LEMMA ReceivedBoard ==
    ASSUME NEW b \in BoardType, NEW m1 \in Messages, NEW m2 \in Seconds
    PROVE  LET c == Received(b, m1, m2)
           IN  /\ c \in BoardType
               /\ c.handle = b.handle /\ c.bytes_out = b.bytes_out /\ b.tx <= c.tx
               /\ c.main \in {b.main, "ERROR"}
               /\ b.proto # "OPEN" => c.main = "ERROR"
               /\ c.main # b.main => b.proto # "OPEN" \/ "corrupt" \in {m1, m2}
               /\ c.proto = b.proto \/ (b.proto = "OPEN" /\ c.proto = "CLOSING" /\ "soft_close" \in {m1, m2})
               /\ c.proto = "CLOSING" /\ c.tx = 0 => b.proto = "CLOSING" /\ b.tx = 0
  <1>1. CASE b.proto # "OPEN"
    BY <1>1 DEF Received, BoardType
  <1>2. CASE b.proto = "OPEN"
    <2> DEFINE b1 == MessageDone(b, m1)
    <2>1. CASE m2 = "none"
      <3>1. Received(b, m1, m2) = b1
        BY <1>2, <2>1 DEF Received
      <3>2. QED
        BY <3>1, <1>2, MessageDoneBoard DEF BoardType
    <2>2. CASE m2 \in Messages
      <3>1. Received(b, m1, m2) = MessageDone(b1, m2)
        BY <1>2, <2>2 DEF Received, Messages
      <3>2. b1 \in BoardType
        BY MessageDoneBoard
      <3>3. b1.handle = b.handle /\ b1.bytes_out = b.bytes_out /\ b.tx <= b1.tx
        BY MessageDoneBoard
      <3>4. b1.main = b.main \/ (b1.main = "ERROR" /\ m1 = "corrupt")
        BY MessageDoneBoard
      <3>5. b1.proto = b.proto \/ (b1.proto = "CLOSING" /\ m1 = "soft_close")
        BY MessageDoneBoard
      <3>6. b1.proto = "CLOSING" => b1.tx # 0
        BY <1>2, MessageDoneBoard
      <3> HIDE DEF b1
      <3> DEFINE c == MessageDone(b1, m2)
      <3>7. /\ c \in BoardType
            /\ c.handle = b1.handle /\ c.bytes_out = b1.bytes_out /\ b1.tx <= c.tx
            /\ c.main = b1.main \/ (c.main = "ERROR" /\ m2 = "corrupt")
            /\ c.proto = b1.proto \/ (c.proto = "CLOSING" /\ m2 = "soft_close")
            /\ b1.proto = "OPEN" /\ c.proto = "CLOSING" => c.tx # 0
        BY <2>2, <3>2, MessageDoneBoard
      <3> HIDE DEF c
      <3>8. Received(b, m1, m2) = c
        BY <3>1 DEF c
      <3>9. QED
        BY <3>2, <3>3, <3>4, <3>5, <3>6, <3>7, <3>8, <1>2 DEF BoardType
    <2>3. QED
      BY <2>1, <2>2 DEF Seconds
  <1>3. QED
    BY <1>1, <1>2

-----------------------------------------------------------------------------
(* ADBTasks: what sending a packet does to the channels.                   *)

\* A set of numbers has a least element, which the loop of ADBChannelTasks finds.
LEMMA LeastExists ==
    ASSUME NEW S \in SUBSET Nat, S # {}
    PROVE  LET k == CHOOSE i \in S : \A l \in S : i <= l IN k \in S
  <1>1. \E i \in S : \A l \in S : ~ (<<l, i>> \in OpToRel(<, Nat))
    BY WFMin, NatLessThanWellFounded
  <1>2. PICK i \in S : \A l \in S : ~ (<<l, i>> \in OpToRel(<, Nat))
    BY <1>1
  <1>3. ASSUME NEW l \in S, ~ (i <= l) PROVE FALSE
    <2>1. l < i /\ l \in Nat /\ i \in Nat
      BY <1>3
    <2>2. <<l, i>> \in OpToRel(<, Nat)
      BY <2>1 DEF OpToRel
    <2>3. QED
      BY <2>2, <1>2
  <1>4. QED
    BY <1>3

\* What ADBTasks may do to a channel on its own: it asks the phone to open or to
\* close it, acknowledges, or sends; it neither takes nor frees a channel, and a
\* channel that is ready stays so.
Goes(c, d) ==
    /\ d.data = c.data
    /\ d.state = "FREE" <=> c.state = "FREE"
    /\ d.state \in {"START", "WAIT_OPEN"} <=> c.state \in {"START", "WAIT_OPEN"}
    /\ c.state = "IDLE" /\ ~c.data => d.state = "IDLE"

LEMMA AdbSentChannel ==
    ASSUME NEW c \in AdbChanType, AdbPending(c)
    PROVE  AdbSent(c) \in AdbChanType /\ Goes(c, AdbSent(c))
  BY DEF AdbSent, AdbPending, AdbChanType, AdbOpenStates, Goes

\* ADBChannelTasks serves one channel, the next in turn.
LEMMA ChannelTasksGo ==
    ASSUME NEW a \in AdbType
    PROVE  LET r == ADBChannelTasks(a)
           IN  /\ r \in AdbType /\ r.conn = a.conn
               /\ \A g \in Chans : Goes(a.ch[g], r.ch[g])
  <1> DEFINE Turn(k) == (a.current + k) % AdbChannels
             Waiting == {k \in 1..AdbChannels : AdbPending(a.ch[Turn(k)])}
             k0 == CHOOSE k \in Waiting : \A l \in Waiting : k <= l
             h == Turn(k0)
             r == ADBChannelTasks(a)
  <1>1. \A c : Goes(c, c)
    BY DEF Goes
  <1>2. CASE Waiting = {}
    <2>1. r = a
      BY <1>2 DEF ADBChannelTasks
    <2>2. QED
      BY <1>1, <2>1
  <1>3. CASE Waiting # {}
    <2>1. r = [a EXCEPT !.ch[h] = AdbSent(@), !.current = h]
      BY <1>3 DEF ADBChannelTasks
    <2>2. k0 \in Waiting
      <3>1. Waiting \in SUBSET Nat
        BY SessionAssumption
      <3>2. QED
        BY <1>3, <3>1, LeastExists
    <2> HIDE DEF k0
    <2>3. k0 \in Nat /\ AdbPending(a.ch[h])
      BY <2>2, SessionAssumption
    <2>4. a.current \in Nat /\ a.ch \in [Chans -> AdbChanType]
      BY SessionAssumption DEF AdbType, Chans
    <2>5. h \in Chans
      BY <2>3, <2>4, SessionAssumption DEF Chans
    <2> HIDE DEF h, r
    <2>6. AdbSent(a.ch[h]) \in AdbChanType /\ Goes(a.ch[h], AdbSent(a.ch[h]))
      BY <2>3, <2>4, <2>5, AdbSentChannel
    <2>7. r.ch = [a.ch EXCEPT ![h] = AdbSent(a.ch[h])] /\ r.conn = a.conn
      BY <2>1 DEF AdbType
    <2>8. r \in AdbType
      BY <2>1, <2>4, <2>5, <2>6 DEF AdbType
    <2>9. \A g \in Chans : Goes(a.ch[g], r.ch[g])
      BY <1>1, <2>4, <2>5, <2>6, <2>7
    <2>10. QED
      BY <2>7, <2>8, <2>9 DEF r
  <1>4. QED
    BY <1>2, <1>3

\* The rest of ADBTasks: a failed transfer is noticed in the next round.
LEMMA ADBSendGoes ==
    ASSUME NEW a \in AdbType, NEW send \in SendStates
    PROVE  LET r == ADBSend(a, send)
           IN  /\ r \in AdbType
               /\ r.conn = a.conn \/ (r.conn = "ERROR" /\ a.conn = "CONNECTED")
               /\ r.connected = (r.conn = "CONNECTED")
               /\ \A g \in Chans : Goes(a.ch[g], r.ch[g])
  <1> DEFINE s == IF a.conn # "CONNECTED" \/ send = "busy" THEN a
                  ELSE IF send = "error" THEN [a EXCEPT !.conn = "ERROR"]
                  ELSE ADBChannelTasks(a)
             r == ADBSend(a, send)
  <1>1. \A c : Goes(c, c)
    BY DEF Goes
  <1>2. /\ s \in AdbType
        /\ s.conn = a.conn \/ (s.conn = "ERROR" /\ a.conn = "CONNECTED")
        /\ \A g \in Chans : Goes(a.ch[g], s.ch[g])
    <2>1. CASE s = a
      BY <1>1, <2>1
    <2>2. CASE a.conn = "CONNECTED" /\ s = [a EXCEPT !.conn = "ERROR"]
      <3>1. s \in AdbType /\ s.conn = "ERROR" /\ s.ch = a.ch
        BY <2>2 DEF AdbType
      <3>2. QED
        BY <1>1, <2>2, <3>1
    <2>3. CASE s = ADBChannelTasks(a)
      BY <2>3, ChannelTasksGo
    <2>4. QED
      BY <2>1, <2>2, <2>3
  <1>3. r = [s EXCEPT !.connected = (s.conn = "CONNECTED")]
    BY DEF ADBSend
  <1> HIDE DEF s, r
  <1>4. r \in AdbType /\ r.conn = s.conn /\ r.ch = s.ch /\ r.connected = (s.conn = "CONNECTED")
    BY <1>2, <1>3 DEF AdbType
  <1>5. QED
    BY <1>2, <1>4 DEF r

-----------------------------------------------------------------------------
(* The queue of outgoing messages.  These facts need no assumption on the  *)
(* peers: they hold whatever a host sends, and whatever is plugged in.     *)

\* An accessory channel in state OPEN has a client, and so has the Bluetooth
\* channel of a session; without a Bluetooth dongle there is no channel.
ClientsKnown ==
    /\ acc.state = "OPEN" => acc.open
    /\ bt.state = "DETACHED" => bt = BtDetached
    /\ board.main \in {"WAIT_CHANNEL_OPEN", "CONNECTED"} /\ Type = "BT" => bt.app

\* Once tx_queue has run empty after SOFT_CLOSE, the connection stays ready until
\* AppProtocolTasks closes it.
ClosingIsFlushed ==
    board.main = "CONNECTED" /\ board.proto = "CLOSING" /\ board.tx = 0 => ConnectionCanSend

QueueInv == TypeOK /\ PullIsBounded /\ ClosingIsFlushed /\ ClientsKnown

\* What the callbacks of the channels and the interrupts may do to the board.
BoardStep(b, c) ==
    /\ c.handle = b.handle /\ c.bytes_out = b.bytes_out /\ b.tx <= c.tx
    /\ c.main \in {"WAIT_CHANNEL_OPEN", "CONNECTED"} => c.main = b.main
    /\ c.proto = "CLOSING" /\ c.tx = 0 => b.proto = "CLOSING" /\ b.tx = 0
    /\ c.proto = "CLOSED" <=> b.proto = "CLOSED"

LEMMA BoardSteps ==
    ASSUME NEW b \in BoardType
    PROVE  /\ BoardStep(b, b)
           /\ ChannelClosed(b) \in BoardType /\ BoardStep(b, ChannelClosed(b))
           /\ \A m1 \in Messages, m2 \in Seconds :
                Received(b, m1, m2) \in BoardType /\ BoardStep(b, Received(b, m1, m2))
  <1>1. b.tx \in Nat
    BY SessionAssumption DEF BoardType
  <1>2. BoardStep(b, b)
    BY <1>1 DEF BoardStep
  <1>3. ChannelClosed(b) \in BoardType /\ BoardStep(b, ChannelClosed(b))
    BY <1>1, ChannelClosedBoard DEF BoardStep
  <1>4. ASSUME NEW m1 \in Messages, NEW m2 \in Seconds
        PROVE  Received(b, m1, m2) \in BoardType /\ BoardStep(b, Received(b, m1, m2))
    BY ReceivedBoard DEF BoardStep
  <1>5. QED
    BY <1>2, <1>3, <1>4

\* A step of a channel or of the world keeps QueueInv when it leaves a connection
\* that is ready as it is.
LEMMA ChannelStep ==
    ASSUME QueueInv, TypeOK', ClientsKnown', BoardStep(board, board'),
           board'.main = "CONNECTED" /\ ConnectionCanSend => ConnectionCanSend'
    PROVE  QueueInv'
  <1>1. PullIsBounded'
    <2>1. /\ board.bytes_out <= board.tx /\ board'.bytes_out = board.bytes_out /\ board.tx <= board'.tx
          /\ board.tx \in Nat /\ board'.tx \in Nat /\ board.bytes_out \in Nat
      BY SessionAssumption DEF QueueInv, TypeOK, PullIsBounded, BoardStep, BoardType
    <2>2. QED
      BY <2>1 DEF PullIsBounded
  <1>2. ClosingIsFlushed'
    BY DEF QueueInv, ClosingIsFlushed, BoardStep
  <1>3. QED
    BY <1>1, <1>2 DEF QueueInv

\* The handle of a session over ADB is a channel.
LEMMA AdbHandle ==
    ASSUME TypeOK, Type = "ADB"
    PROVE  board.handle[2] \in Chans
  BY DEF TypeOK, BoardType, Type, INVALID

\* Deliver is a step of the board that the channels may take.
LEMMA DeliverSteps ==
    ASSUME TypeOK, NEW i, NEW m1 \in Messages, NEW m2 \in Seconds, Deliver(i, m1, m2)
    PROVE  /\ board' \in BoardType /\ BoardStep(board, board')
           /\ host' \in {"waiting", "talking", "done"}
  BY BoardSteps DEF Deliver, TypeOK

\* A round of ADBTasks that leaves the channels that are ready as they are.
LEMMA AdbRound ==
    ASSUME QueueInv, pc' = "ACC", attached' = attached, host' \in {"waiting", "talking", "done"},
           board' \in BoardType, BoardStep(board, board'), adb' \in AdbType,
           UNCHANGED <<acc, bt, cdc, dte>>,
           board'.main = "CONNECTED" =>
             \A g \in Chans : adb.ch[g].state = "IDLE" /\ ~adb.ch[g].data =>
                              adb'.ch[g].state = "IDLE" /\ ~adb'.ch[g].data
    PROVE  QueueInv'
  <1>1. TypeOK'
    BY DEF QueueInv, TypeOK
  <1>2. ClientsKnown'
    BY DEF QueueInv, ClientsKnown, BoardStep, Type
  <1>3. board'.main = "CONNECTED" /\ ConnectionCanSend => ConnectionCanSend'
    BY AdbHandle DEF QueueInv, ConnectionCanSend, Type, AdbChan, ADBChannelReady, AccessoryCanSend,
                     BTCanSend, CDCCanSend, BoardStep
  <1>4. QED
    BY <1>1, <1>2, <1>3, ChannelStep

LEMMA AdbKeepsQueue ==
    ASSUME QueueInv, ADBConTasks
    PROVE  QueueInv'
  <1>1. adb \in AdbType /\ adb.ch \in [Chans -> AdbChanType] /\ board \in BoardType
        /\ host \in {"waiting", "talking", "done"}
    BY DEF QueueInv, TypeOK, AdbType
  <1>2. BoardStep(board, board) /\ ChannelClosed(board) \in BoardType
        /\ BoardStep(board, ChannelClosed(board)) /\ ChannelClosed(board).main = "OPEN_CHANNEL"
    BY <1>1, BoardSteps, ChannelClosedBoard
  <1>3. CASE ADBReset
    <2>1. adb' \in AdbType
      BY <1>1, <1>3, SessionAssumption DEF ADBReset, AdbReset, AdbType, AdbChanType, Free, AdbOpenStates, Chans
    <2>2. board' \in BoardType /\ BoardStep(board, board')
      BY <1>1, <1>2, <1>3 DEF ADBReset
    <2>3. board'.main = "CONNECTED" => \A g \in Chans : adb.ch[g].state = "FREE"
      BY <1>2, <1>3 DEF ADBReset
    <2>4. QED
      BY <1>1, <1>3, <2>1, <2>2, <2>3, AdbRound DEF ADBReset
  <1>4. CASE ADBWaitAttach
    <2>1. adb' \in AdbType /\ adb'.ch = adb.ch
      BY <1>1, <1>4 DEF ADBWaitAttach, AdbType
    <2>2. QED
      BY <1>1, <1>2, <1>4, <2>1, AdbRound DEF ADBWaitAttach
  <1>5. ASSUME NEW s \in SendStates, ADBStep(s) \/ ADBHandleCNXN(s)
        PROVE  QueueInv'
    <2>1. PICK a \in {adb, [adb EXCEPT !.conn = "CONNECTED"]} : adb' = ADBSend(a, s)
      BY <1>5 DEF ADBStep, ADBHandleCNXN
    <2>2. a \in AdbType /\ a.ch = adb.ch
      BY <1>1 DEF AdbType
    <2>3. adb' \in AdbType /\ \A g \in Chans : Goes(adb.ch[g], adb'.ch[g])
      BY <2>1, <2>2, ADBSendGoes
    <2>4. QED
      BY <1>1, <1>2, <1>5, <2>3, AdbRound DEF ADBStep, ADBHandleCNXN, Goes
  <1>6. ASSUME NEW s \in SendStates, NEW h \in Chans, ADBHandleOKAY(h, s)
        PROVE  QueueInv'
    <2> DEFINE a == [adb EXCEPT !.ch[h].state = "IDLE",
                                !.ch[h].data = IF adb.ch[h].state = "WAIT_READY" THEN FALSE ELSE @]
    <2>1. adb' = ADBSend(a, s) /\ adb.ch[h].state \in {"WAIT_OPEN", "WAIT_READY"}
      BY <1>6 DEF ADBHandleOKAY
    <2>2. a \in AdbType /\ \A g \in Chans \ {h} : a.ch[g] = adb.ch[g]
      <3> DEFINE c == [adb.ch[h] EXCEPT !.state = "IDLE",
                                        !.data = IF adb.ch[h].state = "WAIT_READY" THEN FALSE ELSE @]
      <3>1. c \in AdbChanType
        BY <1>1 DEF AdbChanType, AdbOpenStates
      <3>2. a = [adb EXCEPT !.ch = [adb.ch EXCEPT ![h] = c]]
        BY <1>1 DEF AdbType, AdbChanType
      <3> HIDE DEF a, c
      <3>3. QED
        BY <1>1, <3>1, <3>2 DEF AdbType
    <2> HIDE DEF a
    <2>3. adb' \in AdbType /\ \A g \in Chans : Goes(a.ch[g], adb'.ch[g])
      BY <2>1, <2>2, ADBSendGoes
    <2>4. \A g \in Chans : adb.ch[g].state = "IDLE" /\ ~adb.ch[g].data =>
                              adb'.ch[g].state = "IDLE" /\ ~adb'.ch[g].data
      BY <2>1, <2>2, <2>3 DEF Goes
    <2>5. QED
      BY <1>1, <1>2, <1>6, <2>3, <2>4, AdbRound DEF ADBHandleOKAY
  <1>7. ASSUME NEW s \in SendStates, NEW h \in Chans, ADBHandleCLSE(h, s)
        PROVE  QueueInv'
    <2>1. [adb EXCEPT !.ch[h].state = "FREE"] \in AdbType
      BY <1>1 DEF AdbType, AdbChanType, AdbOpenStates
    <2>2. adb' \in AdbType
      BY <1>7, <2>1, ADBSendGoes DEF ADBHandleCLSE
    <2>3. QED
      BY <1>1, <1>2, <1>7, <2>2, AdbRound DEF ADBHandleCLSE
  <1>8. ASSUME NEW s \in SendStates, NEW h \in Chans, NEW m1 \in Messages, NEW m2 \in Seconds,
               ADBHandleWRTE(h, m1, m2, s)
        PROVE  QueueInv'
    <2> DEFINE a == [adb EXCEPT !.ch[h].ack = TRUE]
    <2>1. adb' = ADBSend(a, s)
      BY <1>8 DEF ADBHandleWRTE
    <2>2. a \in AdbType /\ \A g \in Chans : a.ch[g].state = adb.ch[g].state /\ a.ch[g].data = adb.ch[g].data
      BY ZenonT(60), <1>1 DEF AdbType, AdbChanType, AdbOpenStates
    <2> HIDE DEF a
    <2>3. adb' \in AdbType /\ \A g \in Chans : Goes(a.ch[g], adb'.ch[g])
      BY <2>1, <2>2, ADBSendGoes
    <2>4. \A g \in Chans : adb.ch[g].state = "IDLE" /\ ~adb.ch[g].data =>
                              adb'.ch[g].state = "IDLE" /\ ~adb'.ch[g].data
      BY <2>2, <2>3 DEF Goes
    <2>5. Deliver("ADB", m1, m2) \/ UNCHANGED <<host, board>>
      BY <1>8 DEF ADBHandleWRTE
    <2>6. board' \in BoardType /\ BoardStep(board, board') /\ host' \in {"waiting", "talking", "done"}
      BY <1>1, <1>2, <2>5, DeliverSteps DEF QueueInv
    <2>7. QED
      BY <1>8, <2>3, <2>4, <2>6, AdbRound DEF ADBHandleWRTE
  <1>9. QED
    BY <1>3, <1>4, <1>5, <1>6, <1>7, <1>8 DEF ADBConTasks

LEMMA BtDetachedType ==
    /\ BtDetached \in BtType /\ BtDetached.state = "DETACHED" /\ ~BtDetached.id /\ ~BtDetached.app
    /\ BtDetached.link = "none" /\ BtDetached.tx = "ready"
  BY DEF BtDetached, BtType

LEMMA AccessoryKeepsQueue ==
    ASSUME QueueInv, AccessoryTasks
    PROVE  QueueInv'
  <1> USE DEF QueueInv
  <1>1. acc \in AccType /\ board \in BoardType /\ host \in {"waiting", "talking", "done"}
    BY DEF TypeOK
  <1>2. BoardStep(board, board) /\ ChannelClosed(board) \in BoardType
        /\ BoardStep(board, ChannelClosed(board)) /\ ChannelClosed(board).main = "OPEN_CHANNEL"
    BY <1>1, BoardSteps, ChannelClosedBoard
  <1>3. AccessoryStep
    BY DEF AccessoryTasks, AccessoryDetach, AccessoryAttach, AccessoryInit, AccessoryWaitOpen,
           AccessoryIdle, AccessoryWaitClosed, AccessoryReceive
  <1>4. /\ board' \in BoardType /\ BoardStep(board, board')
        /\ host' \in {"waiting", "talking", "done"}
    <2>1. ASSUME NEW m1 \in Messages, NEW m2 \in Seconds, AccessoryReceive(m1, m2)
          PROVE  <1>4!:
      BY <2>1, DeliverSteps DEF AccessoryReceive
    <2>2. board' \in {board, ChannelClosed(board)} /\ host' \in {host, "waiting"} => <1>4!:
      BY <1>1, <1>2
    <2>3. QED
      BY <2>1, <2>2 DEF AccessoryTasks, AccessoryDetach, AccessoryAttach, AccessoryInit,
           AccessoryWaitOpen, AccessoryIdle, AccessoryWaitClosed
  <1>5. /\ acc' \in AccType
        /\ acc'.state = "OPEN" => acc'.open
        /\ acc.state = "OPEN" => board'.main = "OPEN_CHANNEL" \/ (acc'.state = "OPEN" /\ acc'.tx = acc.tx)
    BY <1>1, <1>2 DEF ClientsKnown, AccType, AccessoryTasks, AccessoryDetach, AccessoryAttach,
         AccessoryInit, AccessoryWaitOpen, AccessoryIdle, AccessoryWaitClosed, AccessoryReceive,
         ReadAcc, WriteAcc
  <1>6. TypeOK'
    BY <1>3, <1>4, <1>5 DEF TypeOK, AccessoryStep
  <1>7. ClientsKnown'
    BY <1>3, <1>4, <1>5 DEF ClientsKnown, BoardStep, Type, AccessoryStep
  <1>8. board'.main = "CONNECTED" /\ ConnectionCanSend => ConnectionCanSend'
    BY <1>3, <1>4, <1>5 DEF ConnectionCanSend, Type, AdbChan, ADBChannelReady, AccessoryCanSend,
         BTCanSend, CDCCanSend, BoardStep, AccessoryStep
  <1>9. QED
    BY <1>4, <1>6, <1>7, <1>8, ChannelStep

LEMMA BtKeepsQueue ==
    ASSUME QueueInv, BTTasks
    PROVE  QueueInv'
  <1> USE DEF QueueInv
  <1>1. bt \in BtType /\ board \in BoardType /\ host \in {"waiting", "talking", "done"}
    BY DEF TypeOK
  <1>2. BoardStep(board, board) /\ ChannelClosed(board) \in BoardType
        /\ BoardStep(board, ChannelClosed(board)) /\ ChannelClosed(board).main = "OPEN_CHANNEL"
    BY <1>1, BoardSteps, ChannelClosedBoard
  <1>3. BTStep
    BY DEF BTTasks, BTAttach, BTDetach, BTIdle, BTEvent, IncomingConnection, OpenChannelComplete,
           RfcommChannelClosed, RfcommData
  <1>4. /\ board' \in BoardType /\ BoardStep(board, board')
        /\ host' \in {"waiting", "talking", "done"}
    <2>1. board' \in {board, ChannelClosed(board)} /\ host' \in {host, "waiting"} => <1>4!:
      BY <1>1, <1>2
    <2>2. ASSUME NEW m1 \in Messages, NEW m2 \in Seconds, RfcommData(m1, m2)
          PROVE  <1>4!:
      BY <2>1, <2>2, DeliverSteps DEF RfcommData
    <2>3. QED
      BY <2>1, <2>2 DEF BTTasks, BTAttach, BTDetach, BTIdle, IncomingConnection,
           OpenChannelComplete, RfcommChannelClosed
  <1>5. /\ bt' \in BtType
        /\ bt'.state = "DETACHED" => bt' = BtDetached
        /\ bt.app => board'.main = "OPEN_CHANNEL" \/ bt'.app
        /\ bt.app /\ bt.id /\ bt.link \in {"open", "closing"} =>
             board'.main = "OPEN_CHANNEL" \/ (bt'.id /\ bt'.link = bt.link /\ bt'.tx = bt.tx)
    <2>1. CASE BTAttach
      BY <1>1, <2>1 DEF ClientsKnown, BtType, BtDetached, BTAttach
    <2>2. CASE BTDetach \/ RfcommChannelClosed
      <3>1. bt' \in BtType /\ (bt'.state = "DETACHED" => bt' = BtDetached)
        <4>1. CASE BTDetach
          BY <4>1, BtDetachedType DEF BTDetach
        <4>2. CASE RfcommChannelClosed
          BY <1>1, <4>2 DEF BtType, RfcommChannelClosed, BTEvent
        <4>3. QED
          BY <2>2, <4>1, <4>2
      <3>2. bt.app => board' = ChannelClosed(board)
        BY <2>2 DEF BTDetach, RfcommChannelClosed
      <3>3. QED
        BY <1>2, <3>1, <3>2
    <2>3. CASE IncomingConnection
      BY <1>1, <2>3 DEF BtType, IncomingConnection, BTEvent
    <2>4. ASSUME NEW l \in {"open", "none"}, OpenChannelComplete(l) PROVE <1>5!:
      BY <1>1, <2>4 DEF BtType, OpenChannelComplete, BTEvent
    <2>5. CASE BTEvent /\ bt' = bt
      BY <1>1, <2>5 DEF BTEvent
    <2>6. QED
      BY <2>1, <2>2, <2>3, <2>4, <2>5 DEF BTTasks, BTIdle, RfcommData
  <1>6. TypeOK'
    BY <1>3, <1>4, <1>5 DEF TypeOK, BTStep
  <1>7. ClientsKnown'
    BY <1>3, <1>4, <1>5 DEF ClientsKnown, BoardStep, Type, BTStep
  <1>8. board'.main = "CONNECTED" /\ ConnectionCanSend => ConnectionCanSend'
    BY <1>3, <1>4, <1>5 DEF ClientsKnown, ConnectionCanSend, Type, AdbChan, ADBChannelReady,
         AccessoryCanSend, BTCanSend, CDCCanSend, BoardStep, BTStep
  <1>9. QED
    BY <1>4, <1>6, <1>7, <1>8, ChannelStep

LEMMA CdcKeepsQueue ==
    ASSUME QueueInv, CDCTasks
    PROVE  QueueInv'
  <1> USE DEF QueueInv
  <1>1. cdc \in CdcType /\ board \in BoardType /\ host \in {"waiting", "talking", "done"}
    BY DEF TypeOK
  <1>2. BoardStep(board, board) /\ ChannelClosed(board) \in BoardType
        /\ BoardStep(board, ChannelClosed(board)) /\ ChannelClosed(board).main = "OPEN_CHANNEL"
    BY <1>1, BoardSteps, ChannelClosedBoard
  <1>3. CDCStep
    BY DEF CDCTasks, CDCClosed, CDCWait, CDCReceive
  <1>4. /\ board' \in BoardType /\ BoardStep(board, board')
        /\ host' \in {"waiting", "talking", "done"}
    <2>1. ASSUME NEW m1 \in Messages, NEW m2 \in Seconds, CDCReceive(m1, m2)
          PROVE  <1>4!:
      BY <2>1, DeliverSteps DEF CDCReceive
    <2>2. QED
      BY <1>1, <1>2, <2>1 DEF CDCTasks, CDCClosed, CDCWait
  <1>5. /\ cdc' \in CdcType
        /\ cdc.state = "OPEN" => board'.main = "OPEN_CHANNEL" \/ cdc' = cdc
    BY <1>1, <1>2 DEF CdcType, CDCTasks, CDCClosed, CDCWait, CDCReceive
  <1>6. TypeOK'
    BY <1>3, <1>4, <1>5 DEF TypeOK, CDCStep
  <1>7. ClientsKnown'
    BY <1>3, <1>4 DEF ClientsKnown, BoardStep, Type, CDCStep
  <1>8. board'.main = "CONNECTED" /\ ConnectionCanSend => ConnectionCanSend'
    BY <1>3, <1>4, <1>5 DEF ConnectionCanSend, Type, AdbChan, ADBChannelReady, AccessoryCanSend,
         BTCanSend, CDCCanSend, BoardStep, CDCStep
  <1>9. QED
    BY <1>4, <1>6, <1>7, <1>8, ChannelStep

LEMMA WorldKeepsQueue ==
    ASSUME QueueInv, World
    PROVE  QueueInv'
  <1> USE DEF QueueInv
  <1>1. /\ board \in BoardType /\ acc \in AccType /\ bt \in BtType /\ cdc \in CdcType
        /\ board.tx \in Nat
    BY SessionAssumption DEF TypeOK, BoardType
  <1>2. /\ board' \in BoardType /\ BoardStep(board, board') /\ board'.main = board.main
        /\ UNCHANGED <<pc, adb>>
    BY <1>1, SendMessageBoard, BoardSteps DEF BoardStep, World, Interrupt, Attach, Detach, AccRxDone,
         AccTxDone, BtTxDone, CdcTxDone, PortOpen, PortClose, Channels
  <1>3. /\ acc' \in AccType /\ acc'.state = acc.state /\ acc'.open = acc.open
        /\ acc.tx # "busy" => acc'.tx # "busy"
    BY <1>1 DEF AccType, World, Interrupt, Attach, Detach, Unplugged, AccRxDone, AccTxDone, BtTxDone,
         CdcTxDone, PortOpen, PortClose, Channels
  <1>4. /\ bt' \in BtType /\ \/ bt' = bt
                             \/ bt.tx = "busy" /\ bt' = [bt EXCEPT !.tx = "ready"]
    BY <1>1 DEF BtType, World, Interrupt, Attach, Detach, AccRxDone, AccTxDone, BtTxDone,
         CdcTxDone, PortOpen, PortClose, Channels
  <1>5. /\ cdc' \in CdcType /\ cdc'.state = cdc.state
        /\ cdc.tx = "ready" => cdc'.tx = "ready"
    BY <1>1 DEF CdcType, World, Interrupt, Attach, Detach, AccRxDone, AccTxDone, BtTxDone,
         CdcTxDone, PortOpen, PortClose, Channels
  <1>6. /\ attached' \in Peers \union {{}} /\ dte' \in BOOLEAN
        /\ host' \in {"waiting", "talking", "done"}
    BY DEF TypeOK, World, Interrupt, Attach, Detach, AccRxDone, AccTxDone, BtTxDone,
         CdcTxDone, PortOpen, PortClose
  <1>7. TypeOK'
    BY <1>2, <1>3, <1>4, <1>5, <1>6 DEF TypeOK
  <1>8. ClientsKnown'
    BY <1>1, <1>2, <1>3, <1>4 DEF ClientsKnown, BoardStep, Type, BtDetached, BtType
  <1>9. board'.main = "CONNECTED" /\ ConnectionCanSend => ConnectionCanSend'
    BY <1>1, <1>2, <1>3, <1>4, <1>5 DEF ConnectionCanSend, Type, AdbChan, ADBChannelReady,
         AccessoryCanSend, BTCanSend, CDCCanSend, BoardStep, BtType
  <1>10. QED
    BY <1>2, <1>7, <1>8, <1>9, ChannelStep

-----------------------------------------------------------------------------
(* The switch of the main loop.                                            *)

\* ConnectionOpenChannel opens what CanOpenChannel found.
LEMMA CanOpenHandle ==
    ASSUME TypeOK, CanOpenChannel
    PROVE  /\ Supported \in {"ADB", "ACC", "BT", "CDC"}
           /\ (IF Supported = "ADB" THEN FreeChannel ELSE 0) \in Chans
           /\ Supported = "ADB" => FreeChannel \in FreeChannels
  <1>1. Supported \in {"ADB", "ACC", "BT", "CDC"}
    BY DEF CanOpenChannel
  <1>2. 0 \in Chans
    BY SessionAssumption DEF Chans
  <1>3. FreeChannels \in SUBSET Chans /\ FreeChannels \in SUBSET Nat
    BY SessionAssumption DEF FreeChannels, Chans
  <1>4. Supported = "ADB" => FreeChannels # {}
    BY DEF CanOpenChannel
  <1>5. FreeChannels # {} => FreeChannel \in FreeChannels
    BY <1>3, LeastExists DEF FreeChannel
  <1>6. QED
    BY <1>1, <1>2, <1>3, <1>4, <1>5

\* AppProtocolInit leaves ESTABLISH_CONNECTION in the queue, and nothing else.
LEMMA AppProtocolInitBoard ==
    ASSUME NEW b \in BoardType
    PROVE  LET c == [AppProtocolInit(b) EXCEPT !.main = "CONNECTED"]
           IN  /\ c \in BoardType
               /\ c.main = "CONNECTED" /\ c.proto = "OPEN" /\ c.handle = b.handle
               /\ c.tx = 1 /\ c.bytes_out = 0
               /\ c.configured = b.configured /\ c.outputs = b.outputs /\ c.preserve = b.preserve
  <1> DEFINE d == [b EXCEPT !.proto = "OPEN", !.tx = 0, !.bytes_out = 0]
             c == [AppProtocolInit(b) EXCEPT !.main = "CONNECTED"]
             e == [d EXCEPT !.tx = @ + 1]
  <1>1. 0 \in 0..TxCap /\ 0 + 1 = 1 /\ 1 \in 0..TxCap /\ 0 < TxCap
    BY SessionAssumption
  <1>2. d \in BoardType /\ d.proto = "OPEN" /\ d.tx = 0 /\ d.bytes_out = 0
    BY <1>1 DEF BoardType
  <1>3. /\ d.handle = b.handle
        /\ d.configured = b.configured /\ d.outputs = b.outputs /\ d.preserve = b.preserve
    BY DEF BoardType
  <1>4. AppProtocolInit(b) = e
    BY <1>1, <1>2 DEF AppProtocolInit, SendMessage
  <1> HIDE DEF d
  <1>5. /\ e \in BoardType /\ e.tx = 1
        /\ e.proto = "OPEN" /\ e.bytes_out = 0 /\ e.handle = d.handle
        /\ e.configured = d.configured /\ e.outputs = d.outputs /\ e.preserve = d.preserve
    BY <1>1, <1>2 DEF BoardType
  <1> HIDE DEF e
  <1>6. c = [e EXCEPT !.main = "CONNECTED"]
    BY <1>4
  <1> HIDE DEF c
  <1>7. /\ c \in BoardType /\ c.tx = 1 /\ c.main = "CONNECTED"
        /\ c.proto = "OPEN" /\ c.bytes_out = 0 /\ c.handle = e.handle
        /\ c.configured = e.configured /\ c.outputs = e.outputs /\ c.preserve = e.preserve
    BY <1>5, <1>6 DEF BoardType
  <1>8. QED
    BY <1>3, <1>5, <1>7 DEF c

\* What ConnectionCloseChannel does to the channels.
LEMMA CloseChannelTypes ==
    ASSUME TypeOK, ClientsKnown, CloseChannel
    PROVE  /\ acc' \in AccType /\ adb' \in AdbType /\ bt' \in BtType /\ cdc' = cdc
           /\ acc'.state = "OPEN" => acc'.open
           /\ bt'.state = "DETACHED" => bt' = BtDetached
           /\ bt'.app = bt.app
  <1>1. acc' \in AccType /\ (acc'.state = "OPEN" => acc'.open) /\ cdc' = cdc
    BY DEF CloseChannel, TypeOK, AccType, AccessoryCloseChannel, ClientsKnown
  <1>2. adb' \in AdbType
    BY AdbHandle DEF CloseChannel, TypeOK, AdbType, AdbChanType, AdbOpenStates, ADBClose
  <1>3. bt' \in BtType /\ (bt'.state = "DETACHED" => bt' = BtDetached) /\ bt'.app = bt.app
    <2>1. CASE bt.state = "DETACHED"
      BY <2>1, BtDetachedType DEF CloseChannel, TypeOK, BTClose, ClientsKnown
    <2>2. CASE bt.state # "DETACHED"
      BY <2>2 DEF CloseChannel, TypeOK, BtType, BTClose
    <2>3. QED
      BY <2>1, <2>2
  <1>4. QED
    BY <1>1, <1>2, <1>3

LEMMA OpenKeepsQueue ==
    ASSUME QueueInv, MainOpenChannel
    PROVE  QueueInv'
  <1> USE DEF QueueInv
  <1>1. /\ board \in BoardType /\ acc \in AccType /\ bt \in BtType /\ cdc \in CdcType /\ adb \in AdbType
        /\ adb.ch \in [Chans -> AdbChanType]
    BY DEF TypeOK, AdbType
  <1>2. CASE ~CanOpenChannel
    <2>1. board' \in BoardType /\ board'.main = "OPEN_CHANNEL" /\ board'.tx = board.tx
          /\ board'.bytes_out = board.bytes_out
      BY <1>1, <1>2 DEF MainOpenChannel, BoardType
    <2>2. QED
      BY <1>2, <2>1 DEF MainOpenChannel, MainStep, Channels, TypeOK, PullIsBounded, ClosingIsFlushed,
           ClientsKnown
  <1>3. CASE CanOpenChannel
    <2> DEFINE h == IF Supported = "ADB" THEN FreeChannel ELSE 0
    <2>1. Supported \in {"ADB", "ACC", "BT", "CDC"} /\ h \in Chans
      BY <1>3, CanOpenHandle
    <2>2. /\ board' = [board EXCEPT !.main = "WAIT_CHANNEL_OPEN", !.handle = <<Supported, h>>]
          /\ OpenChannel(Supported, h) /\ pc' = "ADB" /\ UNCHANGED <<attached, host, dte>>
      BY <1>3 DEF MainOpenChannel, MainStep
    <2>3. Supported = "BT" => bt.id /\ ~bt.app
      BY <1>3 DEF CanOpenChannel, BTIsReadyToOpen
    <2> HIDE DEF h
    <2>4. /\ board' \in BoardType /\ board'.main = "WAIT_CHANNEL_OPEN" /\ board'.tx = board.tx
          /\ board'.bytes_out = board.bytes_out /\ board'.handle[1] = Supported
      BY <1>1, <2>1, <2>2 DEF BoardType
    <2>5. adb' \in AdbType
      BY <1>1, <2>1, <2>2 DEF OpenChannel, ADBOpen, Free, AdbType, AdbChanType, AdbOpenStates
    <2>6. /\ acc' \in AccType /\ cdc' \in CdcType
          /\ acc'.state = "OPEN" => acc'.open
      BY <1>1, <2>2 DEF OpenChannel, AccessoryOpenChannel, CDCOpenChannel, AccType, CdcType, ClientsKnown
    <2>7. /\ bt' \in BtType
          /\ bt'.state = "DETACHED" => bt' = BtDetached
          /\ Supported = "BT" => bt'.app
      <3>1. CASE Supported = "BT"
        <4>1. bt.state # "DETACHED" /\ bt' = [bt EXCEPT !.app = TRUE]
          BY <2>2, <2>3, <3>1, BtDetachedType DEF OpenChannel, BTOpen, ClientsKnown
        <4>2. QED
          BY <1>1, <4>1 DEF BtType
      <3>2. CASE Supported # "BT"
        BY <1>1, <2>2, <3>2 DEF OpenChannel, ClientsKnown
      <3>3. QED
        BY <3>1, <3>2
    <2>8. QED
      BY <2>2, <2>4, <2>5, <2>6, <2>7 DEF TypeOK, PullIsBounded, ClosingIsFlushed, ClientsKnown, Type
  <1>4. QED
    BY <1>2, <1>3

LEMMA SendKeepsQueue ==
    ASSUME QueueInv, NEW k \in 1..TxCap, TasksSend(k)
    PROVE  QueueInv'
  <1> USE DEF QueueInv
  <1>1. /\ board \in BoardType /\ acc \in AccType /\ bt \in BtType /\ cdc \in CdcType /\ adb \in AdbType
        /\ adb.ch \in [Chans -> AdbChanType]
    BY DEF TypeOK, AdbType
  <1>2. CASE ~ConnectionCanSend
    BY <1>2 DEF TasksSend, MainStep, Channels, TypeOK, PullIsBounded, ClosingIsFlushed, ClientsKnown,
         ConnectionCanSend, Type, AdbChan, ADBChannelReady, AccessoryCanSend, BTCanSend, CDCCanSend
  <1>3. CASE ConnectionCanSend
    <2> DEFINE left == board.tx - board.bytes_out
               sent == IF left = 0 THEN 0 ELSE k
    <2>1. /\ sent <= left
          /\ board' = [board EXCEPT !.tx = left, !.bytes_out = sent]
          /\ host' = IF sent # 0 /\ host = "waiting" THEN "talking" ELSE host
          /\ AfterWrite
          /\ acc' = IF WriteFailed THEN Unplugged(acc)
                    ELSE IF Type = "ACC" /\ sent # 0 THEN WriteAcc(acc) ELSE acc
          /\ adb' = IF Type = "ADB" /\ sent # 0
                    THEN [adb EXCEPT !.ch[board.handle[2]].data = TRUE] ELSE adb
          /\ bt' = IF Type = "BT" /\ sent # 0 THEN [bt EXCEPT !.tx = "busy"] ELSE bt
          /\ cdc' = IF Type = "CDC" /\ sent # 0 THEN [cdc EXCEPT !.tx = "busy"] ELSE cdc
          /\ pc' = "ADB" /\ dte' = dte /\ board.main = "CONNECTED"
      BY <1>3 DEF TasksSend, MainStep
    <2>2. left \in 0..TxCap /\ sent \in 0..TxCap /\ (left = 0 => sent = 0)
      BY <1>1, SessionAssumption DEF PullIsBounded, BoardType
    <2> HIDE DEF left, sent
    <2>3. /\ board' \in BoardType /\ board'.main = "CONNECTED" /\ board'.handle = board.handle
          /\ board'.tx = left /\ board'.bytes_out = sent
      BY <1>1, <2>1, <2>2 DEF BoardType
    <2>4. adb' \in AdbType
      BY ZenonT(60), <1>1, <2>1, AdbHandle DEF AdbType, AdbChanType
    <2>5. acc' \in AccType /\ acc'.state = acc.state /\ acc'.open = acc.open
      BY <1>1, <2>1 DEF AccType, Unplugged, WriteAcc
    <2>6. bt' \in BtType /\ bt'.app = bt.app /\ bt'.state = bt.state /\ (bt' = bt \/ bt.id)
      BY <1>1, <1>3, <2>1 DEF BtType, ConnectionCanSend, BTCanSend
    <2>7. cdc' \in CdcType
      BY <1>1, <2>1 DEF CdcType
    <2>8. TypeOK'
      BY <2>1, <2>3, <2>4, <2>5, <2>6, <2>7 DEF TypeOK, AfterWrite
    <2>9. PullIsBounded'
      BY <2>1, <2>3 DEF PullIsBounded
    <2>10. ClientsKnown'
      BY <2>1, <2>3, <2>5, <2>6, BtDetachedType DEF ClientsKnown, Type
    <2>11. left = 0 => ConnectionCanSend'
      BY <1>1, <1>3, <2>1, <2>2, <2>3 DEF ConnectionCanSend, Type, AdbChan, ADBChannelReady, AccessoryCanSend,
           BTCanSend, CDCCanSend, Unplugged, AccType
    <2>12. QED
      BY <2>3, <2>8, <2>9, <2>10, <2>11 DEF ClosingIsFlushed
  <1>4. QED
    BY <1>2, <1>3

LEMMA MainKeepsQueue ==
    ASSUME QueueInv, MainSwitch
    PROVE  QueueInv'
  <1> USE DEF QueueInv
  <1>1. board \in BoardType /\ acc \in AccType
    BY DEF TypeOK
  <1>2. CASE MainInit
    <2>1. board' \in BoardType /\ board'.main = "OPEN_CHANNEL" /\ board'.tx = board.tx
          /\ board'.bytes_out = board.bytes_out
      BY <1>1, <1>2 DEF MainInit, BoardType
    <2>2. QED
      BY <1>2, <2>1 DEF MainInit, MainStep, Channels, TypeOK, PullIsBounded, ClosingIsFlushed,
           ClientsKnown
  <1>3. CASE MainOpenChannel
    BY <1>3, OpenKeepsQueue
  <1>4. CASE MainWaitChannelOpen
    <2>1. CASE ~ConnectionCanSend
      BY <1>4, <2>1 DEF MainWaitChannelOpen, MainStep, TypeOK, PullIsBounded, ClosingIsFlushed,
           ClientsKnown, Type
    <2>2. CASE ConnectionCanSend
      <3> DEFINE c == [AppProtocolInit(board) EXCEPT !.main = "CONNECTED"]
      <3>1. /\ board' = c /\ AfterWrite /\ pc' = "ADB" /\ board.main = "WAIT_CHANNEL_OPEN"
            /\ acc' = IF WriteFailed THEN Unplugged(acc) ELSE acc
            /\ UNCHANGED <<host, adb, bt, cdc, dte>>
        BY <1>4, <2>2 DEF MainWaitChannelOpen, MainStep
      <3>2. /\ c \in BoardType /\ c.main = "CONNECTED" /\ c.proto = "OPEN" /\ c.handle = board.handle
            /\ c.tx = 1 /\ c.bytes_out = 0
        BY <1>1, AppProtocolInitBoard
      <3> HIDE DEF c
      <3>3. acc' \in AccType /\ acc'.state = acc.state /\ acc'.open = acc.open
        BY <1>1, <3>1 DEF AccType, Unplugged
      <3>4. QED
        BY <3>1, <3>2, <3>3 DEF AfterWrite, TypeOK, PullIsBounded, ClosingIsFlushed, ClientsKnown, Type
    <2>3. QED
      BY <2>1, <2>2
  <1>5. CASE TasksClose
    <2>1. /\ board' \in BoardType /\ board'.main = board.main /\ board'.tx = board.tx
          /\ board'.proto = "CLOSED" /\ board'.bytes_out = board.bytes_out /\ board'.handle = board.handle
      BY <1>1, <1>5 DEF TasksClose, BoardType
    <2>2. QED
      BY <1>5, <2>1, CloseChannelTypes DEF TasksClose, MainStep, TypeOK, PullIsBounded, ClosingIsFlushed,
           ClientsKnown, Type
  <1>6. ASSUME NEW k \in 1..TxCap, TasksSend(k) PROVE QueueInv'
    BY <1>6, SendKeepsQueue
  <1>7. CASE TasksClosed
    BY <1>7 DEF TasksClosed, MainStep, Channels, TypeOK, PullIsBounded, ClosingIsFlushed, ClientsKnown, Type
  <1>8. CASE MainError
    <2>1. CASE board.handle = INVALID
      <3>1. board' \in BoardType /\ board'.main = "UNDEFINED" /\ board'.tx = board.tx
            /\ board'.bytes_out = board.bytes_out
        BY <1>1, <1>8, <2>1 DEF MainError, BoardType
      <3>2. QED
        BY <1>8, <2>1, <3>1 DEF MainError, MainStep, Channels, TypeOK, PullIsBounded, ClosingIsFlushed,
             ClientsKnown
    <2>2. CASE board.handle # INVALID
      <3> DEFINE c == SoftResetOnDisconnect(board)
      <3>1. board' = [c EXCEPT !.main = "INIT"] /\ CloseChannel /\ pc' = "ADB"
            /\ UNCHANGED <<attached, host, dte>>
        BY <1>8, <2>2 DEF MainError, MainStep
      <3>2. c \in BoardType /\ c.tx = board.tx /\ c.bytes_out = board.bytes_out
        BY <1>1, ResetBoard
      <3> HIDE DEF c
      <3>3. board' \in BoardType /\ board'.main = "INIT" /\ board'.tx = board.tx
            /\ board'.bytes_out = board.bytes_out
        BY <3>1, <3>2 DEF BoardType
      <3>4. QED
        BY <3>1, <3>3, CloseChannelTypes DEF TypeOK, PullIsBounded, ClosingIsFlushed, ClientsKnown
    <2>3. QED
      BY <2>1, <2>2
  <1>9. QED
    BY <1>2, <1>3, <1>4, <1>5, <1>6, <1>7, <1>8 DEF MainSwitch

-----------------------------------------------------------------------------
(* The theorems that hold for every set of peers and every host.           *)

LEMMA InitQueue == Init => QueueInv
  <1> SUFFICES ASSUME Init PROVE QueueInv
    OBVIOUS
  <1>1. 0 \in 0..TxCap /\ 0 \in Chans
    BY SessionAssumption DEF Chans
  <1>2. board \in BoardType /\ board.main = "INIT" /\ board.bytes_out = board.tx /\ board.tx = 0
    BY <1>1 DEF Init, BoardType
  <1>3. acc \in AccType /\ acc.state = "DETACHED" /\ cdc \in CdcType
    BY DEF Init, AccType, CdcType
  <1>4. adb \in AdbType
    BY <1>1 DEF Init, AdbReset, Free, AdbType, AdbChanType
  <1>5. TypeOK
    BY <1>2, <1>3, <1>4, BtDetachedType DEF Init, TypeOK
  <1>6. QED
    BY <1>2, <1>3, <1>5 DEF Init, QueueInv, PullIsBounded, ClosingIsFlushed, ClientsKnown

LEMMA NextQueue == QueueInv /\ [Next]_vars => QueueInv'
  <1>1. QueueInv /\ Next => QueueInv'
    BY AdbKeepsQueue, AccessoryKeepsQueue, BtKeepsQueue, CdcKeepsQueue, MainKeepsQueue, WorldKeepsQueue
       DEF Next, MainLoop
  <1>2. QueueInv /\ UNCHANGED vars => QueueInv'
    BY DEF vars, QueueInv, TypeOK, PullIsBounded, ClosingIsFlushed, ClientsKnown, ConnectionCanSend,
       Type, AdbChan, ADBChannelReady, AccessoryCanSend, BTCanSend, CDCCanSend
  <1>3. QED
    BY <1>1, <1>2

LEMMA SpecQueue == Spec => []QueueInv
  BY InitQueue, NextQueue, PTL DEF Spec

\* The state of the main loop, of the protocol and of the channels has its type; in
\* particular tx_queue never holds more than its capacity.
THEOREM SessionTypeOK == Spec => []TypeOK
  <1>1. QueueInv => TypeOK
    BY DEF QueueInv
  <1>2. QED
    BY <1>1, SpecQueue, PTL

\* AppProtocolTasks never pulls more bytes than tx_queue holds, whatever sessions
\* came before: AppProtocolInit and ByteQueuePull keep bytes_out and the queue in step.
THEOREM SessionPullIsBounded == Spec => []PullIsBounded
  <1>1. QueueInv => PullIsBounded
    BY DEF QueueInv
  <1>2. QED
    BY <1>1, SpecQueue, PTL

\* Outside the switch of the main loop the board's state changes by AppCallback and
\* AppProtocolSendMessage only.
LEMMA BoardChanges ==
    ASSUME ADBConTasks \/ AccessoryTasks \/ BTTasks \/ CDCTasks \/ World
    PROVE  \/ board' \in {board, ChannelClosed(board), SendMessage(board)}
           \/ \E m1 \in Messages, m2 \in Seconds : board' = Received(board, m1, m2)
  <1>1. CASE ADBConTasks
    BY ZenonT(60), <1>1 DEF ADBConTasks, ADBReset, ADBWaitAttach, ADBStep, ADBHandleCNXN, ADBHandleOKAY,
         ADBHandleCLSE, ADBHandleWRTE, Deliver
  <1>2. CASE AccessoryTasks
    BY <1>2 DEF AccessoryTasks, AccessoryDetach, AccessoryAttach, AccessoryInit, AccessoryWaitOpen,
         AccessoryIdle, AccessoryWaitClosed, AccessoryReceive, Deliver
  <1>3. CASE BTTasks
    BY <1>3 DEF BTTasks, BTAttach, BTDetach, BTIdle, IncomingConnection, OpenChannelComplete,
         RfcommChannelClosed, RfcommData, Deliver
  <1>4. CASE CDCTasks
    BY <1>4 DEF CDCTasks, CDCClosed, CDCWait, CDCReceive, Deliver
  <1>5. CASE World
    BY <1>5 DEF World, Interrupt, Attach, Detach, AccRxDone, AccTxDone, BtTxDone, CdcTxDone, PortOpen,
         PortClose
  <1>6. QED
    BY <1>1, <1>2, <1>3, <1>4, <1>5

\* After SOFT_CLOSE the board closes the channel only when everything queued before
\* has been handed over and sent: in AppProtocolTasks tx_queue is empty, and the last
\* ConnectionSend is over.
THEOREM SessionSentBeforeClose == Spec => SentBeforeClose
  <1> DEFINE Closes == board.proto = "CLOSING" /\ board'.proto = "CLOSED"
  <1>1. ASSUME QueueInv, Next, Closes PROVE ConnectionCanSend
    <2>1. board \in BoardType
      BY <1>1 DEF QueueInv, TypeOK
    <2>2. CASE ADBConTasks \/ AccessoryTasks \/ BTTasks \/ CDCTasks \/ World
      <3>1. board'.proto \in {board.proto, "CLOSING"}
        BY <2>1, <2>2, BoardChanges, ChannelClosedBoard, SendMessageBoard, ReceivedBoard
      <3>2. QED
        BY <1>1, <3>1
    <2>3. CASE MainInit \/ MainOpenChannel \/ TasksClosed
      BY <1>1, <2>1, <2>3 DEF MainInit, MainOpenChannel, TasksClosed, BoardType
    <2>4. CASE MainWaitChannelOpen
      BY <1>1, <2>1, <2>4, AppProtocolInitBoard DEF MainWaitChannelOpen
    <2>5. CASE TasksClose
      BY <1>1, <2>5 DEF TasksClose, QueueInv, ClosingIsFlushed
    <2>6. ASSUME NEW k \in 1..TxCap, TasksSend(k) PROVE board'.proto = board.proto
      BY <2>1, <2>6 DEF TasksSend, BoardType
    <2>7. CASE MainError
      <3>1. SoftResetOnDisconnect(board) \in BoardType /\ SoftResetOnDisconnect(board).proto = board.proto
        BY <2>1, ResetBoard
      <3>2. board'.proto = board.proto
        BY <2>1, <2>7, <3>1 DEF MainError, BoardType
      <3>3. QED
        BY <1>1, <3>2
    <2>8. QED
      BY <1>1, <2>2, <2>3, <2>4, <2>5, <2>6, <2>7 DEF Next, MainLoop, MainSwitch
  <1>2. QueueInv /\ [Next]_vars => [Closes => ConnectionCanSend]_vars
    BY <1>1
  <1>3. QED
    BY <1>2, SpecQueue, PTL DEF Spec, SentBeforeClose

-----------------------------------------------------------------------------
(* The session and its channel.  What follows needs peers that offer one   *)
(* interface, and hosts that keep to the protocol on every interface but   *)
(* Open Accessory; it is false without either (README, section 5).         *)

PlainPeers ==
    /\ \A p \in Peers : \A i, j \in p : i = j
    /\ Faulty \subseteq {"ACC"}

\* The interfaces that are plugged in, or whose channel has not yet seen them go.
AdbLive == adb.conn # "WAIT_ATTACH" \/ "ADB" \in attached
AccLive == acc.state # "DETACHED" \/ "ACC" \in attached
BtLive == bt.state # "DETACHED" \/ "BT" \in attached
CdcLive == cdc.state # "DETACHED" \/ "CDC" \in attached

OneLive ==
    /\ AdbLive => ~AccLive /\ ~BtLive /\ ~CdcLive
    /\ AccLive => ~BtLive /\ ~CdcLive
    /\ BtLive => ~CdcLive

\* main.c waits for a channel of type t, or talks over it.
Waits(t) == board.main = "WAIT_CHANNEL_OPEN" /\ Type = t
Talks(t) == board.main = "CONNECTED" /\ Type = t

\* An ADB channel that is not free is that of the session.
AdbInv ==
    /\ adb.conn \notin {"CONNECTED", "ERROR"} => \A h \in Chans : adb.ch[h].state = "FREE"
    /\ adb.connected => adb.conn = "CONNECTED"
    /\ \A h \in Chans : adb.ch[h].state # "FREE" =>
          board.main \in {"WAIT_CHANNEL_OPEN", "CONNECTED"} /\ board.handle = <<"ADB", h>>
    /\ Waits("ADB") => /\ AdbChan.state \in {"START", "WAIT_OPEN", "IDLE"} /\ ~AdbChan.data
                       /\ AdbChan.state = "IDLE" => host = "waiting"
    /\ Talks("ADB") => AdbChan.state \notin {"FREE", "START", "WAIT_OPEN"}

\* is_channel_open is set from AccessoryOpenChannel until the channel is closed; main.c
\* is in STATE_ERROR only from AppCallback of this channel to its own next turn.
AccInv ==
    /\ acc.open => /\ board.main \in {"WAIT_CHANNEL_OPEN", "CONNECTED", "ERROR"} /\ Type = "ACC"
                   /\ acc.state \in {"INIT", "WAIT_OPEN", "OPEN"}
    /\ Waits("ACC") => acc.open /\ (acc.state = "OPEN" => host = "waiting")
    /\ Talks("ACC") /\ board.proto = "CLOSED" => ~acc.open
    /\ Talks("ACC") /\ board.proto # "CLOSED" => acc.open /\ acc.state = "OPEN"
    /\ board.main = "ERROR" => /\ Type = "ACC" /\ acc.open /\ acc.state = "OPEN"
                               /\ pc \in {"BT", "CDC", "main"}

\* The RFCOMM channel has a client during a session, and a host that talks only then.
BtInv ==
    /\ bt.app <=> Waits("BT") \/ Talks("BT")
    /\ bt.app => bt.id
    /\ bt.link # "none" => bt.id
    /\ bt.id /\ ~Talks("BT") => host = "waiting"
    /\ Talks("BT") => bt.link \in {"open", "closing"}

CdcInv ==
    /\ cdc.state = "OPEN" <=> Waits("CDC") \/ Talks("CDC")
    /\ cdc.state # "DETACHED" /\ dte /\ ~Talks("CDC") => host = "waiting"
    /\ "CDC" \in attached /\ cdc.state = "DETACHED" => ~dte

\* A host that keeps to the protocol is done once the board is closing.
HostInv ==
    /\ board.main = "CONNECTED" /\ Type # "ACC" /\ board.proto # "OPEN" => host = "done"
    /\ board.main \in {"WAIT_CHANNEL_OPEN", "CONNECTED"} => Type # "NONE"
    /\ board.main # "UNDEFINED"

SessionInv ==
    QueueInv /\ OneLive /\ AdbInv /\ AccInv /\ BtInv /\ CdcInv /\ HostInv /\ CleanStart

\* A session has an interface that is live, but for the accessory channel that is
\* already closed.
LEMMA SessionIsLive ==
    ASSUME SessionInv
    PROVE  /\ Waits("ADB") \/ Talks("ADB") => AdbLive
           /\ Waits("BT") \/ Talks("BT") => BtLive
           /\ Waits("CDC") \/ Talks("CDC") => CdcLive
           /\ Waits("ACC") => AccLive
           /\ Talks("ACC") => AccLive \/ board.proto = "CLOSED"
           /\ board.main = "ERROR" => AccLive
           /\ \A h \in Chans : adb.ch[h].state # "FREE" => AdbLive
           /\ bt.id => BtLive
           /\ acc.open => AccLive
  <1> USE DEF SessionInv, QueueInv
  <1>1. \A h \in Chans : adb.ch[h].state # "FREE" => AdbLive
    BY DEF AdbInv, AdbLive
  <1>2. Waits("ADB") \/ Talks("ADB") => AdbLive
    BY <1>1, AdbHandle DEF AdbInv, AdbChan, Waits, Talks
  <1>3. bt.id => BtLive
    BY BtDetachedType DEF ClientsKnown, BtLive
  <1>4. Waits("BT") \/ Talks("BT") => BtLive
    BY <1>3 DEF BtInv
  <1>5. Waits("CDC") \/ Talks("CDC") => CdcLive
    BY DEF CdcInv, CdcLive
  <1>6. /\ acc.open => AccLive
        /\ Waits("ACC") => AccLive
        /\ Talks("ACC") => AccLive \/ board.proto = "CLOSED"
        /\ board.main = "ERROR" => AccLive
    BY DEF AccInv, AccLive
  <1>7. QED
    BY <1>1, <1>2, <1>3, <1>4, <1>5, <1>6

\* A session has one of the four types.
LEMMA SessionType ==
    ASSUME SessionInv, board.main \in {"WAIT_CHANNEL_OPEN", "CONNECTED"}
    PROVE  Type \in {"ADB", "ACC", "BT", "CDC"}
  BY DEF SessionInv, QueueInv, HostInv, TypeOK, BoardType, Type, INVALID

\* What AppCallback does for another channel leaves one that is not live alone.
LEMMA QuietStays ==
    ASSUME SessionInv, BoardStep(board, board'), attached' = attached, dte' = dte
    PROVE  /\ ~AdbLive /\ adb' = adb => AdbInv'
           /\ ~AccLive /\ acc' = acc /\ board'.main # "ERROR" => AccInv'
           /\ ~BtLive /\ bt' = bt => BtInv'
           /\ ~CdcLive /\ cdc' = cdc => CdcInv'
  <1> USE DEF SessionInv, QueueInv
  <1>1. ASSUME NEW t PROVE Waits(t)' => Waits(t)
    BY DEF Waits, Type, BoardStep
  <1>2. ASSUME NEW t PROVE Talks(t)' => Talks(t)
    BY DEF Talks, Type, BoardStep
  <1>3. ASSUME ~AdbLive, adb' = adb PROVE AdbInv'
    <2>1. /\ \A h \in Chans : adb.ch[h].state = "FREE"
          /\ ~adb.connected
      BY <1>3 DEF AdbInv, AdbLive
    <2>2. ~Waits("ADB")' /\ ~Talks("ADB")'
      BY <1>1, <1>2, <1>3, SessionIsLive
    <2>3. QED
      BY <1>3, <2>1, <2>2 DEF AdbInv
  <1>4. ASSUME ~AccLive, acc' = acc, board'.main # "ERROR" PROVE AccInv'
    <2>1. ~acc.open /\ ~Waits("ACC")'
      BY <1>1, <1>4, SessionIsLive
    <2>2. Talks("ACC")' => board.proto = "CLOSED"
      BY <1>2, <1>4, SessionIsLive
    <2>3. QED
      BY <1>4, <2>1, <2>2 DEF AccInv, BoardStep
  <1>5. ASSUME ~BtLive, bt' = bt PROVE BtInv'
    <2>1. ~bt.app /\ ~bt.id /\ bt.link = "none"
      BY <1>5, BtDetachedType DEF BtLive, ClientsKnown
    <2>2. ~Waits("BT")' /\ ~Talks("BT")'
      BY <1>1, <1>2, <1>5, SessionIsLive
    <2>3. QED
      BY <1>5, <2>1, <2>2 DEF BtInv
  <1>6. ASSUME ~CdcLive, cdc' = cdc PROVE CdcInv'
    <2>1. ~Waits("CDC")' /\ ~Talks("CDC")'
      BY <1>1, <1>2, <1>6, SessionIsLive
    <2>2. QED
      BY <1>6, <2>1 DEF CdcInv, CdcLive
  <1>7. QED
    BY <1>3, <1>4, <1>5, <1>6

\* AppCallback(NULL) outside STATE_ERROR.
LEMMA ClosedStays ==
    ASSUME SessionInv, board' = ChannelClosed(board), board.main # "ERROR"
    PROVE  /\ board'.main = "OPEN_CHANNEL" /\ BoardStep(board, board')
           /\ HostInv' /\ CleanStart'
  <1>1. board \in BoardType
    BY DEF SessionInv, QueueInv, TypeOK
  <1>2. board'.main = "OPEN_CHANNEL" /\ BoardStep(board, board')
    BY <1>1, BoardSteps, ChannelClosedBoard
  <1>3. CleanStart'
    BY <1>1, <1>2, ChannelClosedBoard DEF SessionInv, CleanStart, HostInv, BoardType
  <1>4. QED
    BY <1>2, <1>3 DEF HostInv

\* AppCallback(data) from a host that keeps to the protocol.
LEMMA DeliverStays ==
    ASSUME SessionInv, PlainPeers, NEW i \in {"ADB", "BT", "CDC"},
           NEW m1 \in Messages, NEW m2 \in Seconds, Deliver(i, m1, m2),
           host # "waiting" => Talks(i)
    PROVE  /\ Talks(i) /\ board'.main = "CONNECTED" /\ BoardStep(board, board')
           /\ HostInv' /\ CleanStart'
  <1>1. board \in BoardType
    BY DEF SessionInv, QueueInv, TypeOK
  <1>2. /\ Talks(i) /\ host = "talking" /\ m1 # "corrupt" /\ m2 # "corrupt"
        /\ board' = Received(board, m1, m2)
        /\ host' = IF "soft_close" \in {m1, m2} THEN "done" ELSE host
    BY DEF Deliver, MaySend, PlainPeers
  <1>3. board.main = "CONNECTED" /\ board.proto = "OPEN" /\ Type # "ACC" /\ Type # "NONE"
    BY <1>1, <1>2 DEF SessionInv, HostInv, Talks, BoardType
  <1>4. board'.main = "CONNECTED" /\ board'.handle = board.handle
    BY <1>1, <1>2, <1>3, ReceivedBoard
  <1>5. BoardStep(board, board')
    BY <1>1, <1>2, BoardSteps
  <1>6. board'.proto = "OPEN" \/ host' = "done"
    BY <1>1, <1>2, <1>3, ReceivedBoard
  <1>7. HostInv' /\ CleanStart'
    BY <1>3, <1>4, <1>6 DEF HostInv, CleanStart, Type
  <1>8. QED
    BY <1>2, <1>4, <1>5, <1>7

\* A step of the main loop that does nothing.
LEMMA OnlyPc ==
    ASSUME SessionInv, QueueInv', UNCHANGED <<attached, host, board, acc, adb, bt, cdc, dte>>,
           board.main = "ERROR" => pc' \in {"BT", "CDC", "main"}
    PROVE  SessionInv'
  <1>1. AdbInv' /\ BtInv' /\ CdcInv' /\ OneLive'
    BY DEF SessionInv, AdbInv, BtInv, CdcInv, OneLive, AdbLive, AccLive, BtLive, CdcLive, Waits, Talks,
         Type, AdbChan
  <1>2. AccInv' /\ HostInv' /\ CleanStart'
    BY DEF SessionInv, AccInv, HostInv, CleanStart, Waits, Talks, Type
  <1>3. QED
    BY <1>1, <1>2 DEF SessionInv

\* A round of ADBTasks that neither takes nor frees a channel.
LEMMA AdbGoes ==
    ASSUME SessionInv, board'.handle = board.handle, board'.main = board.main,
           Waits("ADB") => host' = host, \A g \in Chans : Goes(adb.ch[g], adb'.ch[g]),
           adb'.conn \notin {"CONNECTED", "ERROR"} => adb.conn \notin {"CONNECTED", "ERROR"},
           adb'.connected => adb'.conn = "CONNECTED"
    PROVE  AdbInv'
  <1> USE DEF SessionInv, QueueInv
  <1>1. /\ adb'.conn \notin {"CONNECTED", "ERROR"} => \A h \in Chans : adb'.ch[h].state = "FREE"
        /\ \A h \in Chans : adb'.ch[h].state # "FREE" =>
              board'.main \in {"WAIT_CHANNEL_OPEN", "CONNECTED"} /\ board'.handle = <<"ADB", h>>
    BY DEF AdbInv, Goes
  <1>2. Waits("ADB")' => /\ AdbChan.state \in {"START", "WAIT_OPEN", "IDLE"} /\ ~AdbChan.data
                         /\ AdbChan.state = "IDLE" => host = "waiting"
                         /\ host' = host
    BY DEF AdbInv, Waits, Type
  <1>3. Talks("ADB")' => AdbChan.state \notin {"FREE", "START", "WAIT_OPEN"}
    BY DEF AdbInv, Talks, Type
  <1>4. Type = "ADB" => Goes(AdbChan, AdbChan')
    BY AdbHandle DEF AdbChan
  <1>5. Waits("ADB")' => /\ AdbChan'.state \in {"START", "WAIT_OPEN", "IDLE"} /\ ~AdbChan'.data
                         /\ AdbChan'.state = "IDLE" => host' = "waiting"
    BY <1>2, <1>4 DEF Goes, Waits, Type
  <1>6. Talks("ADB")' => AdbChan'.state \notin {"FREE", "START", "WAIT_OPEN"}
    BY <1>3, <1>4 DEF Goes, Talks, Type
  <1>7. QED
    BY <1>1, <1>5, <1>6 DEF AdbInv

\* The rest of SessionInv after a round of ADBTasks on an interface that is live.
LEMMA AdbOthers ==
    ASSUME SessionInv, AdbLive, QueueInv', AdbInv', HostInv', CleanStart',
           BoardStep(board, board'), board'.main # "ERROR",
           UNCHANGED <<attached, acc, bt, cdc, dte>>
    PROVE  SessionInv'
  <1>1. ~AccLive /\ ~BtLive /\ ~CdcLive
    BY DEF SessionInv, OneLive
  <1>2. OneLive'
    BY <1>1 DEF OneLive, AccLive, BtLive, CdcLive
  <1>3. QED
    BY <1>1, <1>2, QuietStays DEF SessionInv

LEMMA AdbKeepsSession ==
    ASSUME PlainPeers, SessionInv, ADBConTasks
    PROVE  SessionInv'
  <1>1. QueueInv'
    BY AdbKeepsQueue DEF SessionInv
  <1>2. /\ adb \in AdbType /\ adb.ch \in [Chans -> AdbChanType] /\ board \in BoardType
        /\ BoardStep(board, board)
    BY BoardSteps DEF SessionInv, QueueInv, TypeOK, AdbType
  <1>3. pc = "ADB" /\ board.main # "ERROR" /\ UNCHANGED <<attached, acc, bt, cdc, dte>>
    BY ZenonT(60) DEF ADBConTasks, ADBReset, ADBWaitAttach, ADBStep, ADBHandleCNXN, ADBHandleOKAY,
         ADBHandleCLSE, ADBHandleWRTE, SessionInv, AccInv
  <1>4. UNCHANGED <<host, board>> => HostInv' /\ CleanStart'
    BY DEF SessionInv, HostInv, CleanStart, Type
  <1>5. \A c : Goes(c, c)
    BY DEF Goes
  <1>6. CASE ADBReset
    <2>1. AdbLive
      BY <1>6 DEF ADBReset, AdbLive
    <2>2. /\ adb'.conn = "WAIT_ATTACH" /\ ~adb'.connected
          /\ \A h \in Chans : adb'.ch[h].state = "FREE"
      BY <1>6 DEF ADBReset, AdbReset, Free
    <2>3. CASE \E h \in Chans : adb.ch[h].state # "FREE"
      <3>1. board' = ChannelClosed(board)
        BY <1>6, <2>3 DEF ADBReset
      <3>2. board'.main = "OPEN_CHANNEL" /\ BoardStep(board, board') /\ HostInv' /\ CleanStart'
        BY <1>3, <3>1, ClosedStays
      <3>3. AdbInv'
        BY <2>2, <3>2 DEF AdbInv, Waits, Talks
      <3>4. QED
        BY <1>1, <1>3, <2>1, <3>2, <3>3, AdbOthers
    <2>4. CASE \A h \in Chans : adb.ch[h].state = "FREE"
      <3>1. UNCHANGED <<host, board>>
        BY <1>6, <2>4 DEF ADBReset
      <3>2. ~Waits("ADB") /\ ~Talks("ADB")
        BY <2>4, AdbHandle DEF SessionInv, QueueInv, AdbInv, AdbChan, Waits, Talks
      <3>3. AdbInv'
        BY <2>2, <3>1, <3>2 DEF AdbInv, Waits, Talks, Type
      <3>4. QED
        BY <1>1, <1>2, <1>3, <1>4, <2>1, <3>1, <3>3, AdbOthers
    <2>5. QED
      BY <2>3, <2>4
  <1>7. CASE ADBWaitAttach
    <2>1. UNCHANGED <<host, board>> /\ adb.conn = "WAIT_ATTACH"
      BY <1>7 DEF ADBWaitAttach
    <2>2. CASE "ADB" \in attached
      <3>1. adb'.ch = adb.ch /\ adb'.conn = "WAIT_CONNECT" /\ adb'.connected = adb.connected
        BY <1>2, <1>7, <2>2 DEF ADBWaitAttach, AdbType
      <3>2. AdbInv'
        BY <1>5, <2>1, <3>1, AdbGoes DEF SessionInv, AdbInv
      <3>3. QED
        BY <1>1, <1>2, <1>3, <1>4, <2>1, <2>2, <3>2, AdbOthers DEF AdbLive
    <2>3. CASE "ADB" \notin attached
      <3>1. adb' = adb
        BY <1>7, <2>3 DEF ADBWaitAttach
      <3>2. QED
        BY <1>1, <1>3, <2>1, <3>1, OnlyPc
    <2>4. QED
      BY <2>2, <2>3
  <1>8. ASSUME NEW s \in SendStates, ADBStep(s) \/ ADBHandleCNXN(s)
        PROVE  SessionInv'
    <2>1. PICK a \in {adb, [adb EXCEPT !.conn = "CONNECTED"]} : adb' = ADBSend(a, s)
      BY <1>8 DEF ADBStep, ADBHandleCNXN
    <2>2. a \in AdbType /\ a.ch = adb.ch /\ a.conn \in {adb.conn, "CONNECTED"}
      BY <1>2 DEF AdbType
    <2>3. /\ \A g \in Chans : Goes(adb.ch[g], adb'.ch[g])
          /\ adb'.conn \in {a.conn, "ERROR"}
          /\ adb'.connected = (adb'.conn = "CONNECTED")
      BY <2>1, <2>2, ADBSendGoes
    <2>4. UNCHANGED <<host, board>> /\ AdbLive
      BY <1>8 DEF ADBStep, ADBHandleCNXN, AdbLive
    <2>5. AdbInv'
      BY <2>2, <2>3, <2>4, AdbGoes
    <2>6. QED
      BY <1>1, <1>2, <1>3, <1>4, <2>4, <2>5, AdbOthers
  <1>9. ASSUME NEW s \in SendStates, NEW h \in Chans, ADBHandleOKAY(h, s)
        PROVE  SessionInv'
    <2> DEFINE st == adb.ch[h].state
               a == [adb EXCEPT !.ch[h].state = "IDLE",
                                !.ch[h].data = IF adb.ch[h].state = "WAIT_READY" THEN FALSE ELSE @]
    <2>1. /\ adb' = ADBSend(a, s) /\ st \in {"WAIT_OPEN", "WAIT_READY"} /\ board' = board
          /\ host' = (IF st = "WAIT_OPEN" THEN "waiting" ELSE host) /\ AdbLive /\ adb.conn = "CONNECTED"
      BY <1>9 DEF ADBHandleOKAY, AdbLive
    <2>2. /\ a \in AdbType /\ a.conn = adb.conn
          /\ \A g \in Chans \ {h} : a.ch[g] = adb.ch[g]
          /\ a.ch[h].state = "IDLE"
          /\ st = "WAIT_OPEN" => a.ch[h].data = adb.ch[h].data
      <3> DEFINE c == [adb.ch[h] EXCEPT !.state = "IDLE",
                                        !.data = IF adb.ch[h].state = "WAIT_READY" THEN FALSE ELSE @]
      <3>1. /\ c \in AdbChanType /\ c.state = "IDLE"
            /\ st = "WAIT_OPEN" => c.data = adb.ch[h].data
        BY <1>2 DEF AdbChanType, AdbOpenStates
      <3>2. a = [adb EXCEPT !.ch = [adb.ch EXCEPT ![h] = c]]
        BY <1>2 DEF AdbType, AdbChanType
      <3> HIDE DEF a, c
      <3>3. QED
        BY <1>2, <3>1, <3>2 DEF AdbType
    <2> HIDE DEF a
    <2>3. /\ \A g \in Chans : Goes(a.ch[g], adb'.ch[g])
          /\ adb'.conn \in {adb.conn, "ERROR"}
          /\ adb'.connected = (adb'.conn = "CONNECTED")
      BY <2>1, <2>2, ADBSendGoes
    <2>4. /\ board.main \in {"WAIT_CHANNEL_OPEN", "CONNECTED"} /\ board.handle = <<"ADB", h>>
          /\ \A g \in Chans \ {h} : adb.ch[g].state = "FREE"
      BY <2>1 DEF SessionInv, AdbInv
    <2>5. /\ Type = "ADB" /\ AdbChan = adb.ch[h] /\ Type' = "ADB" /\ AdbChan' = adb'.ch[h]
      BY <2>1, <2>4 DEF Type, AdbChan
    <2>6. board.main = "CONNECTED" => st # "WAIT_OPEN"
      BY <2>5 DEF SessionInv, AdbInv, Talks
    <2>7. board.main = "WAIT_CHANNEL_OPEN" => st = "WAIT_OPEN" /\ ~adb.ch[h].data
      BY <2>1, <2>5 DEF SessionInv, AdbInv, Waits
    <2>8. \A g \in Chans \ {h} : adb'.ch[g].state = "FREE"
      BY <2>2, <2>3, <2>4 DEF Goes
    <2>9. adb'.ch[h].state \notin {"FREE", "START", "WAIT_OPEN"}
      BY <2>2, <2>3 DEF Goes
    <2>10. st = "WAIT_OPEN" /\ ~adb.ch[h].data => adb'.ch[h].state = "IDLE" /\ ~adb'.ch[h].data
      BY <2>2, <2>3 DEF Goes
    <2>11. AdbInv'
      BY <2>1, <2>3, <2>4, <2>5, <2>7, <2>8, <2>9, <2>10 DEF AdbInv, Waits, Talks
    <2>12. HostInv' /\ CleanStart'
      BY <2>1, <2>6 DEF SessionInv, HostInv, CleanStart, Type
    <2>13. QED
      BY <1>1, <1>2, <1>3, <2>1, <2>11, <2>12, AdbOthers
  <1>10. ASSUME NEW s \in SendStates, NEW h \in Chans, ADBHandleCLSE(h, s)
         PROVE  SessionInv'
    <2> DEFINE a == [adb EXCEPT !.ch[h].state = "FREE"]
    <2>1. /\ adb' = ADBSend(a, s) /\ adb.ch[h].state # "FREE" /\ board' = ChannelClosed(board)
          /\ AdbLive /\ adb.conn = "CONNECTED"
      BY <1>10 DEF ADBHandleCLSE, AdbLive, AdbOpenStates
    <2>2. a \in AdbType /\ a.ch[h].state = "FREE" /\ \A g \in Chans \ {h} : a.ch[g] = adb.ch[g]
      BY <1>2 DEF AdbType, AdbChanType, AdbOpenStates
    <2> HIDE DEF a
    <2>3. \A g \in Chans \ {h} : adb.ch[g].state = "FREE"
      BY <2>1 DEF SessionInv, AdbInv
    <2>4. /\ \A g \in Chans : adb'.ch[g].state = "FREE"
          /\ adb'.connected = (adb'.conn = "CONNECTED")
      BY <2>1, <2>2, <2>3, ADBSendGoes DEF Goes
    <2>5. board'.main = "OPEN_CHANNEL" /\ BoardStep(board, board') /\ HostInv' /\ CleanStart'
      BY <1>3, <2>1, ClosedStays
    <2>6. AdbInv'
      BY <2>4, <2>5 DEF AdbInv, Waits, Talks
    <2>7. QED
      BY <1>1, <1>3, <2>1, <2>5, <2>6, AdbOthers
  <1>11. ASSUME NEW s \in SendStates, NEW h \in Chans, NEW m1 \in Messages, NEW m2 \in Seconds,
                ADBHandleWRTE(h, m1, m2, s)
         PROVE  SessionInv'
    <2> DEFINE a == [adb EXCEPT !.ch[h].ack = TRUE]
    <2>1. adb' = ADBSend(a, s) /\ AdbLive /\ adb.conn = "CONNECTED"
      BY <1>11 DEF ADBHandleWRTE, AdbLive
    <2>2. /\ a \in AdbType /\ a.conn = adb.conn
          /\ \A g \in Chans : a.ch[g].state = adb.ch[g].state /\ a.ch[g].data = adb.ch[g].data
      BY ZenonT(60), <1>2 DEF AdbType, AdbChanType, AdbOpenStates
    <2> HIDE DEF a
    <2>3. /\ \A g \in Chans : Goes(a.ch[g], adb'.ch[g])
          /\ adb'.conn \in {adb.conn, "ERROR"}
          /\ adb'.connected = (adb'.conn = "CONNECTED")
      BY <2>1, <2>2, ADBSendGoes
    <2>4. \A g \in Chans : Goes(adb.ch[g], adb'.ch[g])
      BY <2>2, <2>3 DEF Goes
    <2>5. CASE UNCHANGED <<host, board>>
      BY <1>1, <1>2, <1>3, <1>4, <2>1, <2>3, <2>4, <2>5, AdbGoes, AdbOthers
    <2>6. CASE ~UNCHANGED <<host, board>>
      <3>1. Deliver("ADB", m1, m2) /\ adb.ch[h].state \in {"IDLE", "WAIT_READY"}
        BY <1>11, <2>6 DEF ADBHandleWRTE
      <3>2. board.main \in {"WAIT_CHANNEL_OPEN", "CONNECTED"} /\ board.handle = <<"ADB", h>>
        BY <3>1 DEF SessionInv, AdbInv
      <3>3. host # "waiting" => Talks("ADB")
        BY <3>1, <3>2 DEF SessionInv, AdbInv, Waits, Talks, Type, AdbChan
      <3>4. /\ Talks("ADB") /\ board'.main = "CONNECTED" /\ BoardStep(board, board')
            /\ HostInv' /\ CleanStart'
        BY <3>1, <3>3, DeliverStays
      <3>5. AdbInv'
        BY <2>1, <2>3, <2>4, <3>4, AdbGoes DEF Waits, Talks, BoardStep
      <3>6. QED
        BY <1>1, <1>3, <2>1, <3>4, <3>5, AdbOthers
    <2>7. QED
      BY <2>5, <2>6
  <1>12. QED
    BY <1>6, <1>7, <1>8, <1>9, <1>10, <1>11 DEF ADBConTasks

\* The rest of SessionInv after a round of AccessoryTasks on an interface that is live.
LEMMA AccessoryOthers ==
    ASSUME SessionInv, AccLive, QueueInv', AccInv', HostInv', CleanStart', BoardStep(board, board'),
           UNCHANGED <<attached, adb, bt, cdc, dte>>
    PROVE  SessionInv'
  <1>1. ~AdbLive /\ ~BtLive /\ ~CdcLive
    BY DEF SessionInv, OneLive
  <1>2. OneLive'
    BY <1>1 DEF OneLive, AdbLive, BtLive, CdcLive
  <1>3. QED
    BY <1>1, <1>2, QuietStays DEF SessionInv

LEMMA AccessoryKeepsSession ==
    ASSUME SessionInv, AccessoryTasks
    PROVE  SessionInv'
  <1>1. QueueInv'
    BY AccessoryKeepsQueue DEF SessionInv
  <1>2. acc \in AccType /\ board \in BoardType /\ BoardStep(board, board)
    BY BoardSteps DEF SessionInv, QueueInv, TypeOK
  <1>3. pc = "ACC" /\ pc' = "BT" /\ board.main # "ERROR" /\ UNCHANGED <<attached, adb, bt, cdc, dte>>
    BY DEF AccessoryTasks, AccessoryDetach, AccessoryAttach, AccessoryInit, AccessoryWaitOpen,
         AccessoryIdle, AccessoryWaitClosed, AccessoryReceive, AccessoryStep, SessionInv, AccInv
  <1>4. UNCHANGED <<host, board>> => HostInv' /\ CleanStart'
    BY DEF SessionInv, HostInv, CleanStart, Type
  <1>5. AccLive /\ board.main \in {"WAIT_CHANNEL_OPEN", "CONNECTED"} => Type = "ACC"
    BY SessionIsLive, SessionType DEF SessionInv, OneLive, Waits, Talks
  <1>6. ASSUME board' = ChannelClosed(board), ~acc'.open, AccLive
        PROVE  SessionInv'
    <2>1. board'.main = "OPEN_CHANNEL" /\ BoardStep(board, board') /\ HostInv' /\ CleanStart'
      BY <1>3, <1>6, ClosedStays
    <2>2. AccInv'
      BY <1>6, <2>1 DEF AccInv, Waits, Talks
    <2>3. QED
      BY <1>1, <1>3, <1>6, <2>1, <2>2, AccessoryOthers
  <1>7. CASE AccessoryDetach
    <2>1. AccLive /\ acc'.state = "DETACHED" /\ ~acc'.open
      BY <1>2, <1>7 DEF AccessoryDetach, AccLive, AccType
    <2>2. CASE acc.open
      BY <1>6, <1>7, <2>1, <2>2 DEF AccessoryDetach
    <2>3. CASE ~acc.open
      <3>1. UNCHANGED <<host, board>>
        BY <1>7, <2>3 DEF AccessoryDetach
      <3>2. AccInv'
        BY <1>3, <2>1, <2>3, <3>1 DEF SessionInv, AccInv, Waits, Talks, Type
      <3>3. QED
        BY <1>1, <1>2, <1>3, <1>4, <2>1, <3>1, <3>2, AccessoryOthers
    <2>4. QED
      BY <2>2, <2>3
  <1>8. CASE AccessoryAttach
    <2>1. UNCHANGED <<host, board>>
      BY <1>8 DEF AccessoryAttach
    <2>2. CASE AccDetached
      <3>1. acc' = acc
        BY <1>2, <1>8, <2>2 DEF AccessoryAttach, AccType
      <3>2. QED
        BY <1>1, <1>3, <2>1, <3>1, OnlyPc
    <2>3. CASE ~AccDetached
      <3>1. acc'.state = "INIT" /\ acc'.open = acc.open /\ acc.state = "DETACHED"
        BY <1>2, <1>8, <2>3 DEF AccessoryAttach, AccType
      <3>2. AccInv'
        BY <1>3, <2>1, <3>1 DEF SessionInv, AccInv, Waits, Talks, Type
      <3>3. QED
        BY <1>1, <1>2, <1>3, <1>4, <2>1, <2>3, <3>2, AccessoryOthers DEF AccLive, AccDetached
    <2>4. QED
      BY <2>2, <2>3
  <1>9. CASE AccessoryInit \/ AccessoryIdle
    <2>1. /\ UNCHANGED <<host, board>> /\ AccLive /\ acc'.open = acc.open
          /\ acc'.state = acc.state \/ (acc.state = "INIT" /\ acc'.state = "WAIT_OPEN")
      BY <1>2, <1>9 DEF AccessoryInit, AccessoryIdle, AccLive, AccType, ReadAcc
    <2>2. AccInv'
      BY <1>3, <2>1 DEF SessionInv, AccInv, Waits, Talks, Type
    <2>3. QED
      BY <1>1, <1>2, <1>3, <1>4, <2>1, <2>2, AccessoryOthers
  <1>10. CASE AccessoryWaitOpen
    <2>1. CASE acc.rx # "done"
      BY <1>1, <1>3, <1>10, <2>1, OnlyPc DEF AccessoryWaitOpen
    <2>2. CASE acc.rx = "done"
      <3>1. /\ board' = board /\ host' = "waiting" /\ AccLive /\ acc.state = "WAIT_OPEN"
            /\ acc'.open = acc.open
            /\ IF acc.open THEN acc'.state = "OPEN" ELSE acc'.state = "WAIT_CLOSED"
        BY <1>2, <1>10, <2>2 DEF AccessoryWaitOpen, AccLive, AccType, ReadAcc, WriteAcc
      <3>2. AccInv'
        BY <1>3, <3>1 DEF SessionInv, AccInv, Waits, Talks, Type
      <3>3. HostInv' /\ CleanStart'
        BY <1>5, <3>1 DEF SessionInv, HostInv, CleanStart, Type
      <3>4. QED
        BY <1>1, <1>2, <1>3, <3>1, <3>2, <3>3, AccessoryOthers
    <2>3. QED
      BY <2>1, <2>2
  <1>11. CASE AccessoryWaitClosed
    <2>1. host' = host /\ acc.state = "WAIT_CLOSED" /\ AccLive /\ ~acc.open
      BY <1>11 DEF AccessoryWaitClosed, AccLive, SessionInv, AccInv
    <2>2. CASE acc.tx # "ready"
      BY <1>1, <1>3, <1>11, <2>1, <2>2, OnlyPc DEF AccessoryWaitClosed
    <2>3. CASE acc.tx = "ready" /\ ~acc.app
      <3>1. board' = board /\ acc'.state = "INIT" /\ ~acc'.open
        BY <1>2, <1>11, <2>1, <2>3 DEF AccessoryWaitClosed, AccType
      <3>2. AccInv'
        BY <1>3, <2>1, <3>1 DEF SessionInv, AccInv, Waits, Talks, Type
      <3>3. QED
        BY <1>1, <1>2, <1>3, <1>4, <2>1, <3>1, <3>2, AccessoryOthers
    <2>4. CASE acc.tx = "ready" /\ acc.app
      BY <1>2, <1>6, <1>11, <2>1, <2>4 DEF AccessoryWaitClosed, AccType
    <2>5. QED
      BY <2>2, <2>3, <2>4
  <1>12. ASSUME NEW m1 \in Messages, NEW m2 \in Seconds, AccessoryReceive(m1, m2)
         PROVE  SessionInv'
    <2>1. /\ acc.state = "OPEN" /\ AccLive /\ board' = Received(board, m1, m2) /\ host # "waiting"
          /\ acc'.state = "OPEN" /\ acc'.open = acc.open
      BY <1>2, <1>12 DEF AccessoryReceive, AccLive, Deliver, MaySend, AccType, ReadAcc
    <2>2. acc.open /\ Talks("ACC") /\ board.proto # "CLOSED"
      BY <1>3, <2>1 DEF SessionInv, QueueInv, ClientsKnown, AccInv, Waits, Talks
    <2>3. /\ board'.handle = board.handle /\ board'.main \in {"CONNECTED", "ERROR"}
          /\ BoardStep(board, board')
      BY <1>2, <2>1, <2>2, ReceivedBoard, BoardSteps DEF Talks
    <2>4. AccInv'
      BY <1>3, <2>1, <2>2, <2>3 DEF AccInv, Waits, Talks, Type, BoardStep
    <2>5. HostInv' /\ CleanStart'
      BY <2>2, <2>3 DEF HostInv, CleanStart, Talks, Type
    <2>6. QED
      BY <1>1, <1>3, <2>1, <2>3, <2>4, <2>5, AccessoryOthers
  <1>13. QED
    BY <1>7, <1>8, <1>9, <1>10, <1>11, <1>12 DEF AccessoryTasks

\* The rest of SessionInv after a round of BTTasks on an interface that is live.
LEMMA BtOthers ==
    ASSUME SessionInv, BtLive, QueueInv', BtInv', HostInv', CleanStart', BoardStep(board, board'),
           board'.main # "ERROR", UNCHANGED <<attached, acc, adb, cdc, dte>>
    PROVE  SessionInv'
  <1>1. ~AdbLive /\ ~AccLive /\ ~CdcLive
    BY DEF SessionInv, OneLive
  <1>2. OneLive'
    BY <1>1 DEF OneLive, AdbLive, AccLive, CdcLive
  <1>3. QED
    BY <1>1, <1>2, QuietStays DEF SessionInv

LEMMA BtKeepsSession ==
    ASSUME PlainPeers, SessionInv, BTTasks
    PROVE  SessionInv'
  <1>1. QueueInv'
    BY BtKeepsQueue DEF SessionInv
  <1>2. bt \in BtType /\ board \in BoardType /\ BoardStep(board, board)
    BY BoardSteps DEF SessionInv, QueueInv, TypeOK
  <1>3. pc' = "CDC" /\ UNCHANGED <<attached, acc, adb, cdc, dte>>
    BY DEF BTTasks, BTAttach, BTDetach, BTIdle, BTEvent, IncomingConnection, OpenChannelComplete,
           RfcommChannelClosed, RfcommData, BTStep
  <1>4. UNCHANGED <<host, board>> => HostInv' /\ CleanStart'
    BY DEF SessionInv, HostInv, CleanStart, Type
  <1>5. BtLive => /\ board.main # "ERROR"
                  /\ board.main \in {"WAIT_CHANNEL_OPEN", "CONNECTED"} => Type = "BT" \/ board.proto = "CLOSED"
                  /\ board.main \in {"WAIT_CHANNEL_OPEN", "CONNECTED"} => Type \in {"BT", "ACC"}
    BY SessionIsLive, SessionType DEF SessionInv, OneLive, Waits, Talks
  <1>6. CASE BTAttach
    <2>1. UNCHANGED <<host, board>> /\ bt = BtDetached
      BY <1>6 DEF BTAttach, SessionInv, QueueInv, ClientsKnown
    <2>2. CASE "BT" \in attached
      <3>1. bt'.app = bt.app /\ bt'.id = bt.id /\ bt'.link = bt.link
        BY <1>6, <2>1, <2>2 DEF BTAttach, BtDetached
      <3>2. BtInv'
        BY <2>1, <3>1 DEF SessionInv, BtInv, Waits, Talks, Type
      <3>3. QED
        BY <1>1, <1>2, <1>3, <1>4, <1>5, <2>1, <2>2, <3>2, BtOthers DEF BtLive
    <2>3. CASE "BT" \notin attached
      BY <1>1, <1>3, <1>6, <2>1, <2>3, OnlyPc DEF BTAttach
    <2>4. QED
      BY <2>2, <2>3
  <1>7. CASE BTDetach \/ RfcommChannelClosed
    <2>1. BtLive /\ host' = host /\ board' = (IF bt.app THEN ChannelClosed(board) ELSE board)
      BY <1>7 DEF BTDetach, RfcommChannelClosed, BTEvent, BtLive
    <2>2. ~bt'.app /\ ~bt'.id /\ bt'.link = "none"
      <3>1. CASE BTDetach
        BY <3>1, BtDetachedType DEF BTDetach
      <3>2. CASE RfcommChannelClosed
        BY <1>2, <3>2 DEF RfcommChannelClosed, BtType
      <3>3. QED
        BY <1>7, <3>1, <3>2
    <2>3. CASE bt.app
      <3>1. board'.main = "OPEN_CHANNEL" /\ BoardStep(board, board') /\ HostInv' /\ CleanStart'
        BY <1>5, <2>1, <2>3, ClosedStays
      <3>2. BtInv'
        BY <2>2, <3>1 DEF BtInv, Waits, Talks
      <3>3. QED
        BY <1>1, <1>3, <2>1, <3>1, <3>2, BtOthers
    <2>4. CASE ~bt.app
      <3>1. BtInv'
        BY <2>1, <2>2, <2>4 DEF SessionInv, BtInv, Waits, Talks, Type
      <3>2. QED
        BY <1>1, <1>2, <1>3, <1>4, <1>5, <2>1, <2>4, <3>1, BtOthers
    <2>5. QED
      BY <2>3, <2>4
  <1>8. CASE IncomingConnection
    <2>1. /\ BtLive /\ bt.link = "none" /\ host' = "waiting" /\ board' = board
          /\ bt'.link = "pending" /\ bt'.id /\ bt'.app = bt.app
      BY <1>2, <1>8 DEF IncomingConnection, BTEvent, BtLive, BtType
    <2>2. ~Talks("BT")
      BY <2>1 DEF SessionInv, BtInv
    <2>3. BtInv'
      BY <2>1, <2>2 DEF SessionInv, BtInv, Waits, Talks, Type
    <2>4. HostInv' /\ CleanStart'
      BY <1>5, <2>1, <2>2 DEF SessionInv, HostInv, CleanStart, Type, Talks
    <2>5. QED
      BY <1>1, <1>2, <1>3, <1>5, <2>1, <2>3, <2>4, BtOthers
  <1>9. ASSUME NEW l \in {"open", "none"}, OpenChannelComplete(l) PROVE SessionInv'
    <2>1. /\ BtLive /\ bt.link = "pending" /\ UNCHANGED <<host, board>>
          /\ bt'.link = l /\ bt'.id = bt.id /\ bt'.app = bt.app
      BY <1>2, <1>9 DEF OpenChannelComplete, BTEvent, BtLive, BtType
    <2>2. BtInv'
      BY <2>1 DEF SessionInv, BtInv, Waits, Talks, Type
    <2>3. QED
      BY <1>1, <1>2, <1>3, <1>4, <1>5, <2>1, <2>2, BtOthers
  <1>10. CASE UNCHANGED <<bt, host, board>>
    BY <1>1, <1>3, <1>10, OnlyPc
  <1>11. ASSUME NEW m1 \in Messages, NEW m2 \in Seconds, RfcommData(m1, m2), bt.app
         PROVE  SessionInv'
    <2>1. Deliver("BT", m1, m2) /\ BtLive /\ bt' = bt
      BY <1>11 DEF RfcommData, BTEvent, BtLive
    <2>2. host # "waiting" => Talks("BT")
      BY <1>11 DEF SessionInv, BtInv
    <2>3. /\ Talks("BT") /\ board'.main = "CONNECTED" /\ BoardStep(board, board')
          /\ HostInv' /\ CleanStart'
      BY <2>1, <2>2, DeliverStays
    <2>4. BtInv'
      BY <2>1, <2>3 DEF SessionInv, BtInv, Waits, Talks, Type, BoardStep
    <2>5. QED
      BY <1>1, <1>3, <2>1, <2>3, <2>4, BtOthers
  <1>12. QED
    BY <1>6, <1>7, <1>8, <1>9, <1>10, <1>11 DEF BTTasks, BTIdle, RfcommData

\* The rest of SessionInv after a round of CDCTasks on an interface that is live.
LEMMA CdcOthers ==
    ASSUME SessionInv, CdcLive, QueueInv', CdcInv', HostInv', CleanStart', BoardStep(board, board'),
           board'.main # "ERROR", UNCHANGED <<attached, acc, adb, bt, dte>>
    PROVE  SessionInv'
  <1>1. ~AdbLive /\ ~AccLive /\ ~BtLive
    BY DEF SessionInv, OneLive
  <1>2. OneLive'
    BY <1>1 DEF OneLive, AdbLive, AccLive, BtLive
  <1>3. QED
    BY <1>1, <1>2, QuietStays DEF SessionInv

LEMMA CdcKeepsSession ==
    ASSUME PlainPeers, SessionInv, CDCTasks
    PROVE  SessionInv'
  <1>1. QueueInv'
    BY CdcKeepsQueue DEF SessionInv
  <1>2. cdc \in CdcType /\ board \in BoardType /\ BoardStep(board, board) /\ dte \in BOOLEAN
    BY BoardSteps DEF SessionInv, QueueInv, TypeOK
  <1>3. pc' = "main" /\ UNCHANGED <<attached, acc, adb, bt, dte>>
    BY DEF CDCTasks, CDCClosed, CDCWait, CDCReceive, CDCStep
  <1>4. UNCHANGED <<host, board>> => HostInv' /\ CleanStart'
    BY DEF SessionInv, HostInv, CleanStart, Type
  <1>5. CdcLive => board.main # "ERROR"
    BY SessionIsLive DEF SessionInv, OneLive
  <1>6. CASE CDCClosed
    <2>1. /\ CdcLive /\ host' = host
          /\ board' = (IF cdc.state = "OPEN" THEN ChannelClosed(board) ELSE board)
          /\ IF "CDC" \in attached THEN cdc'.state = "WAIT_DTE" ELSE cdc'.state = "DETACHED"
          /\ "CDC" \in attached => ~dte
      BY <1>2, <1>6 DEF CDCClosed, CdcLive, CdcType
    <2>2. CASE cdc.state = "OPEN"
      <3>1. board'.main = "OPEN_CHANNEL" /\ BoardStep(board, board') /\ HostInv' /\ CleanStart'
        BY <1>5, <2>1, <2>2, ClosedStays
      <3>2. CdcInv'
        BY <1>3, <2>1, <3>1 DEF CdcInv, Waits, Talks
      <3>3. QED
        BY <1>1, <1>3, <2>1, <3>1, <3>2, CdcOthers
    <2>3. CASE cdc.state # "OPEN"
      <3>1. CdcInv'
        BY <1>3, <2>1, <2>3 DEF SessionInv, CdcInv, Waits, Talks, Type
      <3>2. QED
        BY <1>1, <1>2, <1>3, <1>4, <1>5, <2>1, <2>3, <3>1, CdcOthers
    <2>4. QED
      BY <2>2, <2>3
  <1>7. CASE CDCWait
    <2>1. UNCHANGED <<host, board>>
      BY <1>7 DEF CDCWait
    <2>2. CASE "CDC" \in attached
      <3>1. \/ cdc'.state = cdc.state
            \/ cdc.state = "DETACHED" /\ cdc'.state = "WAIT_DTE"
            \/ cdc.state = "WAIT_DTE" /\ cdc'.state = "WAIT_OPEN"
        BY <1>2, <1>7, <2>2 DEF CDCWait, CdcType
      <3>2. CdcInv'
        BY <1>3, <2>1, <2>2, <3>1 DEF SessionInv, CdcInv, Waits, Talks, Type
      <3>3. QED
        BY <1>1, <1>2, <1>3, <1>4, <1>5, <2>1, <2>2, <3>2, CdcOthers DEF CdcLive
    <2>3. CASE "CDC" \notin attached
      <3>1. cdc' = cdc
        BY <1>2, <1>7, <2>3 DEF CDCWait, CdcType
      <3>2. QED
        BY <1>1, <1>3, <2>1, <3>1, OnlyPc
    <2>4. QED
      BY <2>2, <2>3
  <1>8. ASSUME NEW m1 \in Messages, NEW m2 \in Seconds, CDCReceive(m1, m2) PROVE SessionInv'
    <2>1. Deliver("CDC", m1, m2) /\ CdcLive /\ cdc' = cdc /\ cdc.state = "OPEN" /\ dte
      BY <1>8 DEF CDCReceive, CdcLive
    <2>2. host # "waiting" => Talks("CDC")
      BY <2>1 DEF SessionInv, CdcInv
    <2>3. /\ Talks("CDC") /\ board'.main = "CONNECTED" /\ BoardStep(board, board')
          /\ HostInv' /\ CleanStart'
      BY <2>1, <2>2, DeliverStays
    <2>4. CdcInv'
      BY <1>3, <2>1, <2>3 DEF SessionInv, CdcInv, Waits, Talks, Type, BoardStep
    <2>5. QED
      BY <1>1, <1>3, <2>1, <2>3, <2>4, CdcOthers
  <1>9. QED
    BY <1>6, <1>7, <1>8 DEF CDCTasks

LEMMA OpenKeepsSession ==
    ASSUME SessionInv, MainInit \/ MainOpenChannel
    PROVE  SessionInv'
  <1>1. QueueInv'
    BY MainKeepsQueue DEF SessionInv, MainSwitch
  <1>2. /\ board \in BoardType /\ acc \in AccType /\ bt \in BtType /\ cdc \in CdcType /\ adb \in AdbType
        /\ adb.ch \in [Chans -> AdbChanType]
    BY DEF SessionInv, QueueInv, TypeOK, AdbType
  <1>3. /\ board.main \in {"INIT", "OPEN_CHANNEL"} /\ pc' = "ADB" /\ UNCHANGED <<attached, host, dte>>
    BY DEF MainInit, MainOpenChannel, MainStep
  <1>4. /\ \A h \in Chans : adb.ch[h].state = "FREE"
        /\ ~acc.open /\ ~bt.app /\ cdc.state # "OPEN"
        /\ bt.id => host = "waiting"
        /\ cdc.state # "DETACHED" /\ dte => host = "waiting"
        /\ ~board.configured /\ ~board.preserve
    BY <1>3 DEF SessionInv, AdbInv, AccInv, BtInv, CdcInv, CleanStart, Waits, Talks
  <1>5. CASE MainInit \/ (MainOpenChannel /\ ~CanOpenChannel)
    <2>1. UNCHANGED <<acc, adb, bt, cdc>>
      BY <1>5 DEF MainInit, MainOpenChannel, Channels
    <2>2. board'.main = "OPEN_CHANNEL" /\ ~board'.configured /\ ~board'.preserve
      BY <1>2, <1>4, <1>5 DEF MainInit, MainOpenChannel, BoardType
    <2>3. AdbInv' /\ AccInv'
      BY <1>4, <2>1, <2>2 DEF SessionInv, AdbInv, AccInv, Waits, Talks
    <2>4. BtInv' /\ CdcInv'
      BY <1>3, <1>4, <2>1, <2>2 DEF SessionInv, BtInv, CdcInv, Waits, Talks
    <2>5. OneLive'
      BY <1>3, <2>1 DEF SessionInv, OneLive, AdbLive, AccLive, BtLive, CdcLive
    <2>6. QED
      BY <1>1, <2>2, <2>3, <2>4, <2>5 DEF SessionInv, HostInv, CleanStart
  <1>6. CASE MainOpenChannel /\ CanOpenChannel
    <2> DEFINE t == Supported
               h == IF t = "ADB" THEN FreeChannel ELSE 0
    <2>1. t \in {"ADB", "ACC", "BT", "CDC"} /\ h \in Chans
      BY <1>6, CanOpenHandle DEF SessionInv, QueueInv
    <2>2. /\ board' = [board EXCEPT !.main = "WAIT_CHANNEL_OPEN", !.handle = <<t, h>>]
          /\ OpenChannel(t, h)
      BY <1>6 DEF MainOpenChannel
    <2>3. /\ t = "ADB" => adb.connected
          /\ t = "ACC" => acc.state = "INIT"
          /\ t = "BT" => bt.id
          /\ t = "CDC" => cdc.state = "WAIT_OPEN"
      BY <1>6 DEF CanOpenChannel, BTIsReadyToOpen
    <2> HIDE DEF t, h
    <2>4. /\ board'.main = "WAIT_CHANNEL_OPEN" /\ board'.handle = <<t, h>>
          /\ ~board'.configured /\ ~board'.preserve
      BY <1>2, <1>4, <2>2 DEF BoardType
    <2>5. Type' = t /\ AdbChan' = adb'.ch[h]
      BY <2>4 DEF Type, AdbChan
    <2>6. AdbInv' /\ adb'.conn = adb.conn
      <3>1. CASE t = "ADB"
        <4>1. /\ adb'.ch = [adb.ch EXCEPT ![h] = [Free EXCEPT !.state = "START"]]
              /\ adb'.conn = adb.conn /\ adb'.connected = adb.connected
          BY <1>2, <2>2, <3>1 DEF OpenChannel, ADBOpen, AdbType
        <4>2. adb'.ch[h].state = "START" /\ ~adb'.ch[h].data /\ adb.conn = "CONNECTED"
          BY <1>2, <2>1, <2>3, <3>1, <4>1 DEF Free, SessionInv, AdbInv
        <4>3. \A g \in Chans \ {h} : adb'.ch[g].state = "FREE"
          BY <1>2, <1>4, <2>1, <4>1
        <4>4. QED
          BY <2>4, <2>5, <3>1, <4>1, <4>2, <4>3 DEF AdbInv, Waits, Talks
      <3>2. CASE t # "ADB"
        <4>1. adb' = adb
          BY <2>2, <3>2 DEF OpenChannel
        <4>2. QED
          BY <1>4, <2>4, <2>5, <3>2, <4>1 DEF SessionInv, AdbInv, Waits, Talks
      <3>3. QED
        BY <3>1, <3>2
    <2>7. AccInv' /\ acc'.state = acc.state
      <3>1. acc'.state = acc.state /\ acc'.open = (t = "ACC")
        BY <1>2, <1>4, <2>2 DEF OpenChannel, AccessoryOpenChannel, AccType
      <3>2. QED
        BY <2>3, <2>4, <2>5, <3>1 DEF AccInv, Waits, Talks
    <2>8. BtInv' /\ bt'.state = bt.state
      <3>1. bt'.state = bt.state /\ bt'.app = (t = "BT") /\ bt'.id = bt.id /\ bt'.link = bt.link
        BY <1>2, <1>4, <2>2 DEF OpenChannel, BTOpen, BtType
      <3>2. QED
        BY <1>3, <1>4, <2>3, <2>4, <2>5, <3>1 DEF SessionInv, BtInv, Waits, Talks
    <2>9. CdcInv' /\ (cdc'.state = "DETACHED" <=> cdc.state = "DETACHED")
      <3>1. IF t = "CDC" THEN cdc'.state = "OPEN" ELSE cdc' = cdc
        BY <1>2, <2>2 DEF OpenChannel, CDCOpenChannel, CdcType
      <3>2. QED
        BY <1>3, <1>4, <2>3, <2>4, <2>5, <3>1 DEF SessionInv, CdcInv, Waits, Talks
    <2>10. OneLive'
      BY <1>3, <2>6, <2>7, <2>8, <2>9 DEF SessionInv, OneLive, AdbLive, AccLive, BtLive, CdcLive
    <2>11. HostInv' /\ CleanStart'
      BY <2>1, <2>4, <2>5 DEF HostInv, CleanStart
    <2>12. QED
      BY <1>1, <2>6, <2>7, <2>8, <2>9, <2>10, <2>11 DEF SessionInv
  <1>7. QED
    BY <1>5, <1>6

LEMMA WaitKeepsSession ==
    ASSUME SessionInv, MainWaitChannelOpen
    PROVE  SessionInv'
  <1>1. QueueInv'
    BY MainKeepsQueue DEF SessionInv, MainSwitch
  <1>2. board \in BoardType /\ acc \in AccType
    BY DEF SessionInv, QueueInv, TypeOK
  <1>3. board.main = "WAIT_CHANNEL_OPEN" /\ UNCHANGED <<host, adb, bt, cdc, dte>>
    BY DEF MainWaitChannelOpen
  <1>4. CASE ~ConnectionCanSend
    BY <1>1, <1>3, <1>4, OnlyPc DEF MainWaitChannelOpen
  <1>5. CASE ConnectionCanSend
    <2>1. /\ board' = [AppProtocolInit(board) EXCEPT !.main = "CONNECTED"] /\ AfterWrite
          /\ acc' = IF WriteFailed THEN Unplugged(acc) ELSE acc
      BY <1>5 DEF MainWaitChannelOpen
    <2>2. /\ board'.main = "CONNECTED" /\ board'.proto = "OPEN" /\ board'.handle = board.handle
      BY <1>2, <2>1, AppProtocolInitBoard
    <2>3. acc'.state = acc.state /\ acc'.open = acc.open
      BY <1>2, <2>1 DEF AccType, Unplugged
    <2>4. attached' \subseteq attached
      BY <2>1 DEF AfterWrite
    <2>5. AdbInv'
      BY <1>3, <1>5, <2>2 DEF SessionInv, AdbInv, ConnectionCanSend, ADBChannelReady, Waits, Talks, Type, AdbChan
    <2>6. AccInv'
      BY <1>3, <1>5, <2>2, <2>3 DEF SessionInv, AccInv, ConnectionCanSend, AccessoryCanSend, Waits, Talks, Type
    <2>7. BtInv'
      BY <1>3, <1>5, <2>2 DEF SessionInv, BtInv, ConnectionCanSend, BTCanSend, Waits, Talks, Type
    <2>8. CdcInv'
      BY <1>3, <1>5, <2>2, <2>4 DEF SessionInv, CdcInv, Waits, Talks, Type
    <2>9. OneLive'
      BY <1>3, <2>3, <2>4 DEF SessionInv, OneLive, AdbLive, AccLive, BtLive, CdcLive
    <2>10. HostInv' /\ CleanStart'
      BY <1>3, <2>2 DEF SessionInv, HostInv, CleanStart, Type
    <2>11. QED
      BY <1>1, <2>5, <2>6, <2>7, <2>8, <2>9, <2>10 DEF SessionInv
  <1>6. QED
    BY <1>4, <1>5

LEMMA SendKeepsSession ==
    ASSUME SessionInv, NEW k \in 1..TxCap, TasksSend(k)
    PROVE  SessionInv'
  <1>1. QueueInv'
    BY MainKeepsQueue DEF SessionInv, MainSwitch
  <1>2. /\ board \in BoardType /\ acc \in AccType /\ bt \in BtType /\ cdc \in CdcType /\ adb \in AdbType
        /\ adb.ch \in [Chans -> AdbChanType]
    BY DEF SessionInv, QueueInv, TypeOK, AdbType
  <1>3. board.main = "CONNECTED" /\ board.proto # "CLOSED" /\ dte' = dte
    BY DEF TasksSend
  <1>4. CASE ~ConnectionCanSend
    BY <1>1, <1>3, <1>4, OnlyPc DEF TasksSend, Channels
  <1>5. CASE ConnectionCanSend
    <2>1. /\ board'.main = board.main /\ board'.proto = board.proto /\ board'.handle = board.handle
      BY <1>2, <1>5 DEF TasksSend, BoardType
    <2>2. acc'.state = acc.state /\ acc'.open = acc.open
      BY <1>2, <1>5 DEF TasksSend, AccType, Unplugged, WriteAcc
    <2>3. /\ adb'.conn = adb.conn /\ adb'.connected = adb.connected
          /\ \A g \in Chans : adb'.ch[g].state = adb.ch[g].state
      BY <1>2, <1>5, AdbHandle DEF TasksSend, SessionInv, QueueInv, AdbType, AdbChanType
    <2>4. bt'.state = bt.state /\ bt'.app = bt.app /\ bt'.id = bt.id /\ bt'.link = bt.link
      BY <1>2, <1>5 DEF TasksSend, BtType
    <2>5. cdc'.state = cdc.state
      BY <1>2, <1>5 DEF TasksSend, CdcType
    <2>6. attached' \subseteq attached /\ (host' = host \/ host = "waiting")
      BY <1>5 DEF TasksSend, AfterWrite
    <2>7. Type \in {"ADB", "ACC", "BT", "CDC"} /\ Talks(Type)
      BY <1>3, SessionType DEF Talks
    <2>8. AdbInv'
      BY <1>3, <2>1, <2>3, AdbHandle DEF SessionInv, QueueInv, AdbInv, Waits, Talks, Type, AdbChan
    <2>9. AccInv'
      BY <1>3, <2>1, <2>2 DEF SessionInv, AccInv, Waits, Talks, Type
    <2>10. BtInv'
      <3>1. bt.id => Talks("BT")
        BY <1>3, <2>7, SessionIsLive DEF SessionInv, OneLive, Talks
      <3>2. QED
        BY <1>3, <2>1, <2>4, <3>1 DEF SessionInv, BtInv, Waits, Talks, Type
    <2>11. CdcInv'
      <3>1. cdc.state # "DETACHED" => Talks("CDC")
        BY <1>3, <2>7, SessionIsLive DEF SessionInv, OneLive, CdcLive, Talks
      <3>2. QED
        BY <1>3, <2>1, <2>5, <2>6, <3>1 DEF SessionInv, CdcInv, Waits, Talks, Type
    <2>12. OneLive'
      BY <2>2, <2>3, <2>4, <2>5, <2>6 DEF SessionInv, OneLive, AdbLive, AccLive, BtLive, CdcLive
    <2>13. HostInv' /\ CleanStart'
      BY <1>3, <2>1, <2>6 DEF SessionInv, HostInv, CleanStart, Type
    <2>14. QED
      BY <1>1, <2>8, <2>9, <2>10, <2>11, <2>12, <2>13 DEF SessionInv
  <1>6. QED
    BY <1>4, <1>5

LEMMA CloseKeepsSession ==
    ASSUME SessionInv, TasksClose
    PROVE  SessionInv'
  <1>1. QueueInv'
    BY MainKeepsQueue DEF SessionInv, MainSwitch
  <1>2. /\ board \in BoardType /\ acc \in AccType /\ bt \in BtType /\ cdc \in CdcType /\ adb \in AdbType
        /\ adb.ch \in [Chans -> AdbChanType]
    BY DEF SessionInv, QueueInv, TypeOK, AdbType
  <1>3. /\ board.main = "CONNECTED" /\ board.proto = "CLOSING" /\ CloseChannel
        /\ UNCHANGED <<attached, host, dte>>
    BY DEF TasksClose
  <1>4. board'.main = "CONNECTED" /\ board'.proto = "CLOSED" /\ board'.handle = board.handle
    BY <1>2, <1>3 DEF TasksClose, BoardType
  <1>5. Type' = Type /\ board'.handle[2] = board.handle[2]
    BY <1>4 DEF Type
  <1>6. AdbInv' /\ adb'.conn = adb.conn
    <2>1. CASE Type = "ADB"
      <3> DEFINE h == board.handle[2]
      <3>1. h \in Chans /\ adb.ch[h].state # "FREE" /\ Talks("ADB")
        BY <1>3, <2>1, AdbHandle DEF SessionInv, QueueInv, AdbInv, Talks, AdbChan
      <3>2. adb' = [adb EXCEPT !.ch[h].state = "CLOSE_REQUESTED"]
        BY <1>3, <2>1, <3>1 DEF CloseChannel, ADBClose
      <3> HIDE DEF h
      <3>3. /\ adb'.conn = adb.conn /\ adb'.connected = adb.connected
            /\ adb'.ch[h].state = "CLOSE_REQUESTED"
            /\ \A g \in Chans \ {h} : adb'.ch[g] = adb.ch[g]
        BY <1>2, <3>1, <3>2 DEF AdbType, AdbChanType
      <3>4. AdbChan' = adb'.ch[h]
        BY <1>5 DEF AdbChan, h
      <3>5. QED
        BY <1>3, <1>4, <1>5, <3>1, <3>3, <3>4 DEF SessionInv, AdbInv, Waits, Talks
    <2>2. CASE Type # "ADB"
      <3>1. adb' = adb
        BY <1>3, <2>2 DEF CloseChannel
      <3>2. QED
        BY <1>3, <1>4, <1>5, <2>2, <3>1 DEF SessionInv, AdbInv, Waits, Talks
    <2>3. QED
      BY <2>1, <2>2
  <1>7. AccInv' /\ (acc'.state = "DETACHED" <=> acc.state = "DETACHED")
    <2>1. CASE Type = "ACC"
      <3>1. acc'.state = "WAIT_CLOSED" /\ ~acc'.open
        BY <1>2, <1>3, <2>1 DEF CloseChannel, AccessoryCloseChannel, AccType
      <3>2. acc.state = "OPEN"
        BY <1>3, <2>1 DEF SessionInv, AccInv, Talks
      <3>3. QED
        BY <1>4, <3>1, <3>2 DEF AccInv, Waits, Talks
    <2>2. CASE Type # "ACC"
      <3>1. acc' = acc
        BY <1>3, <2>2 DEF CloseChannel
      <3>2. QED
        BY <1>3, <1>4, <1>5, <2>2, <3>1 DEF SessionInv, AccInv, Waits, Talks
    <2>3. QED
      BY <2>1, <2>2
  <1>8. BtInv' /\ bt'.state = bt.state
    <2>1. /\ bt'.state = bt.state /\ bt'.app = bt.app /\ bt'.id = bt.id
          /\ bt'.link = bt.link \/ (bt'.link = "closing" /\ bt.link # "none")
      BY <1>2, <1>3 DEF CloseChannel, BTClose, BtType
    <2>2. QED
      BY <1>3, <1>4, <1>5, <2>1 DEF SessionInv, BtInv, Waits, Talks
  <1>9. CdcInv' /\ cdc' = cdc
    <2>1. cdc' = cdc
      BY <1>3 DEF CloseChannel
    <2>2. QED
      BY <1>3, <1>4, <1>5, <2>1 DEF SessionInv, CdcInv, Waits, Talks
  <1>10. OneLive'
    BY <1>3, <1>6, <1>7, <1>8, <1>9 DEF SessionInv, OneLive, AdbLive, AccLive, BtLive, CdcLive
  <1>11. HostInv' /\ CleanStart'
    BY <1>3, <1>4, <1>5 DEF SessionInv, HostInv, CleanStart
  <1>12. QED
    BY <1>1, <1>6, <1>7, <1>8, <1>9, <1>10, <1>11 DEF SessionInv

LEMMA ErrorKeepsSession ==
    ASSUME SessionInv, MainError
    PROVE  SessionInv'
  <1>1. QueueInv'
    BY MainKeepsQueue DEF SessionInv, MainSwitch
  <1>2. board \in BoardType /\ acc \in AccType
    BY DEF SessionInv, QueueInv, TypeOK
  <1>3. /\ board.main = "ERROR" /\ UNCHANGED <<attached, host, dte>>
        /\ Type = "ACC" /\ acc.state = "OPEN"
    BY DEF MainError, SessionInv, AccInv
  <1>4. /\ board' = [SoftResetOnDisconnect(board) EXCEPT !.main = "INIT"]
        /\ UNCHANGED <<adb, bt, cdc>> /\ acc' = AccessoryCloseChannel(acc)
    BY <1>3 DEF MainError, CloseChannel, INVALID, Type
  <1>5. board'.main = "INIT" /\ ~board'.configured /\ ~board'.preserve
    BY <1>2, <1>4, ResetBoard DEF BoardType
  <1>6. acc'.state = "WAIT_CLOSED" /\ ~acc'.open
    BY <1>2, <1>4 DEF AccessoryCloseChannel, AccType
  <1>7. AdbInv' /\ AccInv'
    BY <1>3, <1>4, <1>5, <1>6 DEF SessionInv, AdbInv, AccInv, Waits, Talks
  <1>8. BtInv' /\ CdcInv'
    BY <1>3, <1>4, <1>5 DEF SessionInv, BtInv, CdcInv, Waits, Talks
  <1>9. OneLive'
    BY <1>3, <1>4, <1>6 DEF SessionInv, OneLive, AdbLive, AccLive, BtLive, CdcLive
  <1>10. QED
    BY <1>1, <1>5, <1>7, <1>8, <1>9 DEF SessionInv, HostInv, CleanStart

LEMMA WorldKeepsSession ==
    ASSUME PlainPeers, SessionInv, World
    PROVE  SessionInv'
  <1>1. QueueInv'
    BY WorldKeepsQueue DEF SessionInv
  <1>2. /\ board \in BoardType /\ acc \in AccType /\ bt \in BtType /\ cdc \in CdcType
    BY DEF SessionInv, QueueInv, TypeOK
  <1>3. /\ board'.main = board.main /\ board'.handle = board.handle /\ board'.proto = board.proto
        /\ board'.configured = board.configured /\ board'.preserve = board.preserve
        /\ UNCHANGED <<pc, adb>>
    BY <1>2, SendMessageBoard DEF World, Interrupt, Attach, Detach, AccRxDone,
         AccTxDone, BtTxDone, CdcTxDone, PortOpen, PortClose, Channels
  <1>4. acc'.state = acc.state /\ acc'.open = acc.open
    BY <1>2 DEF AccType, World, Interrupt, Attach, Detach, Unplugged, AccRxDone, AccTxDone, BtTxDone,
         CdcTxDone, PortOpen, PortClose, Channels
  <1>5. bt'.state = bt.state /\ bt'.app = bt.app /\ bt'.id = bt.id /\ bt'.link = bt.link
    BY <1>2 DEF BtType, World, Interrupt, Attach, Detach, AccRxDone, AccTxDone, BtTxDone,
         CdcTxDone, PortOpen, PortClose, Channels
  <1>6. cdc'.state = cdc.state
    BY <1>2 DEF CdcType, World, Interrupt, Attach, Detach, AccRxDone, AccTxDone, BtTxDone,
         CdcTxDone, PortOpen, PortClose, Channels
  <1>7. /\ PortOpen \/ (host' = host /\ (dte' = dte \/ ~dte'))
        /\ attached' \subseteq attached \/ \E p \in Peers : Attach(p)
    BY DEF World, Interrupt, Attach, Detach, AccRxDone, AccTxDone, BtTxDone, CdcTxDone, PortOpen, PortClose
  <1>8. host' \in {host, "waiting"}
    BY <1>7 DEF PortOpen
  <1>9. AdbInv' /\ AccInv'
    BY <1>3, <1>4, <1>8 DEF SessionInv, AdbInv, AccInv, Waits, Talks, Type, AdbChan
  <1>10. BtInv'
    BY <1>3, <1>5, <1>8 DEF SessionInv, BtInv, Waits, Talks, Type
  <1>11. CdcInv'
    <2>1. CASE PortOpen
      BY <1>3, <1>6, <2>1 DEF SessionInv, CdcInv, Waits, Talks, Type, PortOpen
    <2>2. ASSUME NEW p \in Peers, Attach(p) PROVE CdcInv'
      BY <1>3, <1>6, <1>8, <2>2 DEF SessionInv, CdcInv, Waits, Talks, Type, Attach
    <2>3. CASE host' = host /\ (dte' = dte \/ ~dte') /\ attached' \subseteq attached
      BY <1>3, <1>6, <2>3 DEF SessionInv, CdcInv, Waits, Talks, Type
    <2>4. QED
      BY <1>7, <2>1, <2>2, <2>3
  <1>12. OneLive'
    <2>1. ASSUME NEW p \in Peers, Attach(p) PROVE OneLive'
      <3>1. /\ attached' = p /\ acc.state = "DETACHED" /\ bt.state = "DETACHED" /\ cdc.state = "DETACHED"
            /\ adb.conn = "WAIT_ATTACH"
        BY <2>1 DEF Attach
      <3>2. \A i, j \in p : i = j
        BY DEF PlainPeers
      <3>3. QED
        BY <1>3, <1>4, <1>5, <1>6, <3>1, <3>2 DEF OneLive, AdbLive, AccLive, BtLive, CdcLive
    <2>2. CASE attached' \subseteq attached
      BY <1>3, <1>4, <1>5, <1>6, <2>2 DEF SessionInv, OneLive, AdbLive, AccLive, BtLive, CdcLive
    <2>3. QED
      BY <1>7, <2>1, <2>2
  <1>13. HostInv'
    <2>1. CASE PortOpen
      <3>1. CdcLive /\ cdc.state # "OPEN"
        BY <2>1 DEF PortOpen, CdcLive
      <3>2. board.main = "CONNECTED" => Type = "ACC"
        BY <3>1, SessionIsLive, SessionType DEF SessionInv, OneLive, CdcInv, Talks
      <3>3. QED
        BY <1>3, <3>2 DEF SessionInv, HostInv, Type
    <2>2. CASE host' = host
      BY <1>3, <2>2 DEF SessionInv, HostInv, Type
    <2>3. QED
      BY <1>7, <2>1, <2>2
  <1>14. CleanStart'
    BY <1>3 DEF SessionInv, CleanStart
  <1>15. QED
    BY <1>1, <1>9, <1>10, <1>11, <1>12, <1>13, <1>14 DEF SessionInv

LEMMA InitSession == Init => SessionInv
  <1> SUFFICES ASSUME Init PROVE SessionInv
    OBVIOUS
  <1>1. QueueInv /\ board.main = "INIT"
    BY InitQueue DEF Init
  <1>2. AdbInv /\ AccInv
    BY <1>1 DEF Init, AdbInv, AccInv, AdbReset, Free, Waits, Talks
  <1>3. BtInv /\ CdcInv
    BY <1>1, BtDetachedType DEF Init, BtInv, CdcInv, Waits, Talks
  <1>4. OneLive
    BY BtDetachedType DEF Init, OneLive, AdbLive, AccLive, BtLive, CdcLive, AdbReset
  <1>5. HostInv /\ CleanStart
    BY DEF Init, HostInv, CleanStart
  <1>6. QED
    BY <1>1, <1>2, <1>3, <1>4, <1>5 DEF SessionInv

LEMMA NextSession ==
    ASSUME PlainPeers
    PROVE  SessionInv /\ [Next]_vars => SessionInv'
  <1>1. ASSUME SessionInv, MainSwitch PROVE SessionInv'
    <2>1. CASE TasksClosed
      <3>1. QueueInv'
        BY <1>1, MainKeepsQueue DEF SessionInv
      <3>2. QED
        BY <1>1, <2>1, <3>1, OnlyPc DEF TasksClosed, Channels
    <2>2. QED
      BY <1>1, <2>1, OpenKeepsSession, WaitKeepsSession, SendKeepsSession, CloseKeepsSession,
         ErrorKeepsSession DEF MainSwitch
  <1>2. SessionInv /\ Next => SessionInv'
    BY <1>1, AdbKeepsSession, AccessoryKeepsSession, BtKeepsSession, CdcKeepsSession, WorldKeepsSession
       DEF Next, MainLoop
  <1>3. ASSUME SessionInv, UNCHANGED vars PROVE SessionInv'
    <2>1. QueueInv'
      BY <1>3, NextQueue DEF SessionInv
    <2>2. QED
      BY <1>3, <2>1, OnlyPc DEF vars, SessionInv, AccInv
  <1>4. QED
    BY <1>2, <1>3

LEMMA SpecSession ==
    ASSUME PlainPeers
    PROVE  Spec => []SessionInv
  BY InitSession, NextSession, PTL DEF Spec

\* A session that main.c waits for, serves or is about to close has a channel that
\* will report its end through AppCallback(NULL), or is the accessory session whose
\* phone was unplugged after SOFT_CLOSE: the board serves nobody in no other way.
THEOREM SessionKeepsChannel ==
    ASSUME PlainPeers
    PROVE  Spec => []SessionHasChannel
  <1>1. ASSUME SessionInv PROVE SessionHasChannel
    <2>1. CASE board.main = "ERROR"
      BY <1>1, <2>1 DEF SessionInv, AccInv, SessionHasChannel, WillReport
    <2>2. CASE board.main \in {"WAIT_CHANNEL_OPEN", "CONNECTED"}
      <3>1. Type \in {"ADB", "ACC", "BT", "CDC"} /\ (Waits(Type) \/ Talks(Type))
        BY <1>1, <2>2, SessionType DEF Waits, Talks
      <3>2. CASE Type = "ACC"
        BY <1>1, <2>2, <3>2 DEF SessionInv, AccInv, Waits, Talks, SessionHasChannel, WillReport, Stranded
      <3>3. CASE Type # "ACC"
        BY <1>1, <3>1, <3>3 DEF SessionInv, AdbInv, BtInv, CdcInv, SessionHasChannel, WillReport
      <3>4. QED
        BY <3>2, <3>3
    <2>3. QED
      BY <2>1, <2>2 DEF SessionHasChannel
  <1>2. QED
    BY <1>1, SpecSession, PTL

\* Every connection starts with the peripherals reset and preserve_outputs off,
\* however the last one ended: AppCallback(NULL), STATE_ERROR or an unplugged cable.
THEOREM SessionStartsClean ==
    ASSUME PlainPeers
    PROVE  Spec => []CleanStart
  <1>1. SessionInv => CleanStart
    BY DEF SessionInv
  <1>2. QED
    BY <1>1, SpecSession, PTL

\* Data reaches AppCallback in STATE_CONNECTED only: before, the host waits for
\* ESTABLISH_CONNECTION, and afterwards the channel has no client.
LEMMA DataWhileConnected ==
    ASSUME SessionInv, ADBConTasks \/ AccessoryTasks \/ BTTasks \/ CDCTasks \/ World,
           board.main # "CONNECTED"
    PROVE  board' \in {board, ChannelClosed(board), SendMessage(board)}
  <1>1. CASE ADBConTasks
    <2>1. ASSUME NEW s \in SendStates, NEW h \in Chans, NEW m1 \in Messages, NEW m2 \in Seconds,
                 ADBHandleWRTE(h, m1, m2, s)
          PROVE  board' = board
      BY <2>1 DEF ADBHandleWRTE, Deliver, MaySend, AdbOpenStates, SessionInv, AdbInv, Waits, Type, AdbChan
    <2>2. QED
      BY <1>1, <2>1 DEF ADBConTasks, ADBReset, ADBWaitAttach, ADBStep, ADBHandleCNXN, ADBHandleOKAY,
           ADBHandleCLSE
  <1>2. CASE AccessoryTasks
    <2>1. ASSUME NEW m1 \in Messages, NEW m2 \in Seconds, AccessoryReceive(m1, m2) PROVE FALSE
      BY <2>1 DEF AccessoryReceive, AccessoryStep, Deliver, MaySend, SessionInv, QueueInv, ClientsKnown,
           AccInv, Waits
    <2>2. QED
      BY <1>2, <2>1 DEF AccessoryTasks, AccessoryDetach, AccessoryAttach, AccessoryInit, AccessoryWaitOpen,
           AccessoryIdle, AccessoryWaitClosed
  <1>3. CASE BTTasks
    <2>1. ASSUME NEW m1 \in Messages, NEW m2 \in Seconds, RfcommData(m1, m2) PROVE board' = board
      BY <2>1 DEF RfcommData, Deliver, MaySend, SessionInv, BtInv, Talks
    <2>2. QED
      BY <1>3, <2>1 DEF BTTasks, BTAttach, BTDetach, BTIdle, IncomingConnection, OpenChannelComplete,
           RfcommChannelClosed
  <1>4. CASE CDCTasks
    <2>1. ASSUME NEW m1 \in Messages, NEW m2 \in Seconds, CDCReceive(m1, m2) PROVE FALSE
      BY <2>1 DEF CDCReceive, Deliver, MaySend, SessionInv, CdcInv, Talks
    <2>2. QED
      BY <1>4, <2>1 DEF CDCTasks, CDCClosed, CDCWait
  <1>5. CASE World
    BY <1>5 DEF World, Interrupt, Attach, Detach, AccRxDone, AccTxDone, BtTxDone, CdcTxDone, PortOpen,
         PortClose
  <1>6. QED
    BY <1>1, <1>2, <1>3, <1>4, <1>5

\* Outside STATE_CONNECTED nothing resets the digital outputs that survived the last
\* session: AppCallback(NULL) of a channel that closes late finds the board reset.
THEOREM SessionPreservesOutputs ==
    ASSUME PlainPeers
    PROVE  Spec => PreservedOutputsStay
  <1> DEFINE Keeps == board.main \in {"INIT", "OPEN_CHANNEL", "WAIT_CHANNEL_OPEN"} /\ board.outputs
                        => board'.outputs
  <1>1. ASSUME SessionInv, Next,
               board.main \in {"INIT", "OPEN_CHANNEL", "WAIT_CHANNEL_OPEN"}, board.outputs
        PROVE  board'.outputs
    <2>1. board \in BoardType
      BY <1>1 DEF SessionInv, QueueInv, TypeOK
    <2>2. CASE ADBConTasks \/ AccessoryTasks \/ BTTasks \/ CDCTasks \/ World
      BY <1>1, <2>1, <2>2, DataWhileConnected, ChannelClosedBoard, SendMessageBoard
    <2>3. CASE MainInit \/ MainOpenChannel
      BY <1>1, <2>1, <2>3 DEF MainInit, MainOpenChannel, BoardType
    <2>4. CASE MainWaitChannelOpen
      BY <1>1, <2>1, <2>4, AppProtocolInitBoard DEF MainWaitChannelOpen
    <2>5. QED
      BY <1>1, <2>2, <2>3, <2>4 DEF Next, MainLoop, MainSwitch, TasksClose, TasksSend, TasksClosed, MainError
  <1>2. SessionInv /\ [Next]_vars => [Keeps]_vars
    BY <1>1
  <1>3. QED
    BY <1>2, SpecSession, PTL DEF Spec, PreservedOutputsStay
===============================================================================
