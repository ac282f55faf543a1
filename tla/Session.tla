-------------------------------- MODULE Session --------------------------------
(***************************************************************************)
(* The life of a connection on the board: the main loop of main.c, the     *)
(* protocol states of protocol.c, the four kinds of channel of libconn     *)
(* (ADB, Open Accessory, Bluetooth, CDC serial), and the reset of the      *)
(* peripherals when a connection ends.                                     *)
(*                                                                         *)
(* The main loop is sequential: each of its steps is one call of a         *)
(* factory's tasks() or of the switch, callbacks included.  Between two of *)
(* them the USB peer may come and go, transfers finish, and interrupts     *)
(* queue messages.  A message is a unit of tx_queue.                       *)
(***************************************************************************)
EXTENDS Naturals, FiniteSets

CONSTANTS Peers,        \* the sets of interfaces that a USB peer may offer
          AdbChannels,  \* ADB_MAX_CHANNELS (8)
          TxCap,        \* capacity of tx_queue, in messages
          Faulty        \* interfaces whose host may send a message that the board
                        \* refuses, or go on after SOFT_CLOSE

ASSUME SessionAssumption ==
    /\ Peers \subseteq SUBSET {"ADB", "ACC", "BT", "CDC"}
    /\ AdbChannels \in Nat \ {0} /\ TxCap \in Nat \ {0}
    /\ Faulty \subseteq {"ADB", "ACC", "BT", "CDC"}

VARIABLES
    pc,        \* the next call of the main loop
    attached,  \* the interfaces of the USB peer
    host,      \* what the host does with this connection:
               \* "waiting" for ESTABLISH_CONNECTION, "talking", "done" (SOFT_CLOSE sent)
    board,     \* state and handle of main.c, state, tx_queue and bytes_out of
               \* protocol.c, and what ResetAll resets
    acc, adb, bt, cdc,  \* the channels
    dte        \* dte_present: the serial port is open on the host

vars == <<pc, attached, host, board, acc, adb, bt, cdc, dte>>

Chans == 0 .. AdbChannels - 1
INVALID == <<"NONE", 0>>

Free == [state |-> "FREE", data |-> FALSE, ack |-> FALSE]
AdbReset == [conn |-> "WAIT_ATTACH", connected |-> FALSE, ch |-> [h \in Chans |-> Free],
             current |-> 0]
BtDetached == [state |-> "DETACHED", id |-> FALSE, app |-> FALSE, link |-> "none",
               tx |-> "ready"]

\* protocol.c leaves its state uninitialised, that is STATE_OPEN.
Init ==
    /\ pc = "ADB" /\ attached = {} /\ host = "waiting" /\ dte = FALSE
    /\ board = [main |-> "INIT", handle |-> INVALID, proto |-> "OPEN", tx |-> 0,
                bytes_out |-> 0, configured |-> FALSE, outputs |-> FALSE,
                preserve |-> FALSE]
    /\ acc = [state |-> "DETACHED", open |-> FALSE, app |-> FALSE, rx |-> "idle",
              tx |-> "ready"]
    /\ adb = AdbReset
    /\ bt = BtDetached
    /\ cdc = [state |-> "DETACHED", tx |-> "ready"]

--------------------------------------------------------------------------------
(* The queue of outgoing messages, and the resets of features.c.             *)
(* "configured" is every peripheral and pin but the digital outputs, which   *)
(* are "outputs".                                                            *)

\* AppProtocolSendMessage: dropped unless OPEN, or when the queue is full.
SendMessage(b) == IF b.proto = "OPEN" /\ b.tx < TxCap THEN [b EXCEPT !.tx = @ + 1] ELSE b

PinsInit(b, preserve) == [b EXCEPT !.outputs = @ /\ preserve]

\* Unlike a message of the host, a reset sends no status messages.
ResetAll(b, preserve) == [PinsInit(b, preserve) EXCEPT !.configured = FALSE]

SoftReset(b) == ResetAll([b EXCEPT !.preserve = FALSE], FALSE)

\* Mutant of SoftResetOnDisconnect: the flag outlives the connection.
ResetKeepsFlag(b) == ResetAll(b, b.preserve)

SoftResetOnDisconnect(b) == ResetAll([b EXCEPT !.preserve = FALSE], b.preserve)

--------------------------------------------------------------------------------
(* AppCallback, the client of every channel. *)

Messages == {"config", "output", "preserve", "soft_reset", "soft_close", "corrupt"}

\* MessageDone, by what a message does to the state of this module.
MessageDone(b, m) ==
    IF b.main = "ERROR" THEN b
    ELSE IF m = "config" THEN [b EXCEPT !.configured = TRUE]
    ELSE IF m = "output" THEN [b EXCEPT !.outputs = TRUE]
    ELSE IF m = "preserve" THEN [b EXCEPT !.preserve = TRUE]
    ELSE IF m = "soft_reset" THEN SendMessage(SoftReset(b))
    ELSE IF m = "soft_close" THEN [SendMessage(b) EXCEPT !.proto = "CLOSING"]
    ELSE [b EXCEPT !.main = "ERROR"]

\* AppCallback(data): the state of the protocol is tested once for the whole
\* buffer, here of two messages (the second may be "none").
Received(b, m1, m2) ==
    IF b.proto # "OPEN" THEN [b EXCEPT !.main = "ERROR"]
    ELSE LET b1 == MessageDone(b, m1)
         IN  IF m2 = "none" THEN b1 ELSE MessageDone(b1, m2)

\* Mutant of ChannelClosed: the board is reset whatever the state.
ClosedAlwaysResets(b) == [SoftResetOnDisconnect(b) EXCEPT !.main = "OPEN_CHANNEL"]

\* Mutant of ChannelClosed: a channel that failed to open is not given up.
ClosedIfConnected(b) ==
    IF b.main = "CONNECTED" THEN [SoftResetOnDisconnect(b) EXCEPT !.main = "OPEN_CHANNEL"]
    ELSE b

\* AppCallback(NULL).
ChannelClosed(b) ==
    [(IF b.main = "CONNECTED" THEN SoftResetOnDisconnect(b) ELSE b)
        EXCEPT !.main = "OPEN_CHANNEL"]

\* What the host may send on the interface i: nothing before it has seen
\* ESTABLISH_CONNECTION; and unless it is faulty, nothing the board refuses and
\* nothing after SOFT_CLOSE.
MaySend(i, m1, m2) ==
    /\ host # "waiting"
    /\ i \notin Faulty => /\ host = "talking"
                          /\ m1 # "corrupt" /\ m2 # "corrupt"
                          /\ m1 = "soft_close" => m2 = "none"

\* The host sends m1, m2 on i, and the channel hands them to the application.
Deliver(i, m1, m2) ==
    /\ MaySend(i, m1, m2)
    /\ host' = IF "soft_close" \in {m1, m2} THEN "done" ELSE host
    /\ board' = Received(board, m1, m2)

--------------------------------------------------------------------------------
(* libadb: ADBTasks.  The phone answers ADB_CNXN, ADB_OPEN, ADB_WRTE and     *)
(* ADB_CLSE when it likes; a packet may also fail to be received or sent.    *)

AdbOpenStates == {"IDLE", "WAIT_READY", "CLOSE_REQUESTED", "WAIT_CLOSE"}

\* A transfer has failed, or the phone is gone: every channel is closed.
ADBReset ==
    /\ pc = "ADB" /\ pc' = "ACC"
    /\ \/ adb.conn = "ERROR"
       \/ adb.conn \in {"WAIT_CONNECT", "CONNECTED"} \* detached, or a receive error
    /\ adb' = [AdbReset EXCEPT !.current = adb.current]
    /\ board' = IF \E h \in Chans : adb.ch[h].state # "FREE" THEN ChannelClosed(board)
                ELSE board
    /\ UNCHANGED <<attached, host, acc, bt, cdc, dte>>

ADBWaitAttach ==
    /\ pc = "ADB" /\ pc' = "ACC"
    /\ adb.conn = "WAIT_ATTACH"
    /\ adb' = IF "ADB" \in attached THEN [adb EXCEPT !.conn = "WAIT_CONNECT"] ELSE adb
    /\ UNCHANGED <<attached, host, board, acc, bt, cdc, dte>>

\* What a channel has to send, and its state once it is sent.
AdbPending(c) ==
    /\ c.state # "FREE"
    /\ c.state \in {"START", "CLOSE_REQUESTED"} \/ c.ack \/ (c.state = "IDLE" /\ c.data)

AdbSent(c) ==
    IF c.state = "START" THEN [c EXCEPT !.state = "WAIT_OPEN"]
    ELSE IF c.ack THEN [c EXCEPT !.ack = FALSE]
    ELSE IF c.state = "CLOSE_REQUESTED" THEN [c EXCEPT !.state = "WAIT_CLOSE"]
    ELSE [c EXCEPT !.state = "WAIT_READY"]

\* ADBChannelTasks, when the last packet has left: the next channel in turn that
\* has something to send.
ADBChannelTasks(a) ==
    LET Turn(k) == (a.current + k) % AdbChannels
        Waiting == {k \in 1..AdbChannels : AdbPending(a.ch[Turn(k)])}
    IN  IF Waiting = {} THEN a
        ELSE LET h == Turn(CHOOSE k \in Waiting : \A l \in Waiting : k <= l)
             IN  [a EXCEPT !.ch[h] = AdbSent(@), !.current = h]

\* The rest of ADBTasks, after a packet has left a behind: send is the state of
\* the packet going out.
ADBSend(a, send) ==
    LET s == IF a.conn # "CONNECTED" \/ send = "busy" THEN a
             ELSE IF send = "error" THEN [a EXCEPT !.conn = "ERROR"]
             ELSE ADBChannelTasks(a)
    IN  [s EXCEPT !.connected = s.conn = "CONNECTED"]

ADBStep(send) ==
    /\ pc = "ADB" /\ pc' = "ACC"
    /\ "ADB" \in attached /\ adb.conn \in {"WAIT_CONNECT", "CONNECTED"}
    /\ adb' = ADBSend(adb, send)
    /\ UNCHANGED <<attached, host, board, acc, bt, cdc, dte>>

ADBHandleCNXN(send) ==
    /\ pc = "ADB" /\ pc' = "ACC"
    /\ "ADB" \in attached /\ adb.conn = "WAIT_CONNECT"
    /\ adb' = ADBSend([adb EXCEPT !.conn = "CONNECTED"], send)
    /\ UNCHANGED <<attached, host, board, acc, bt, cdc, dte>>

ADBHandleOKAY(h, send) ==
    /\ pc = "ADB" /\ pc' = "ACC"
    /\ "ADB" \in attached /\ adb.conn = "CONNECTED"
    /\ adb.ch[h].state \in {"WAIT_OPEN", "WAIT_READY"}
    /\ host' = IF adb.ch[h].state = "WAIT_OPEN" THEN "waiting" ELSE host
    /\ adb' = ADBSend([adb EXCEPT !.ch[h].state = "IDLE",
                                  !.ch[h].data = IF adb.ch[h].state = "WAIT_READY" THEN FALSE ELSE @],
                      send)
    /\ UNCHANGED <<attached, board, acc, bt, cdc, dte>>

ADBHandleCLSE(h, send) ==
    /\ pc = "ADB" /\ pc' = "ACC"
    /\ "ADB" \in attached /\ adb.conn = "CONNECTED"
    /\ adb.ch[h].state \in AdbOpenStates \union {"WAIT_OPEN"}
    /\ board' = ChannelClosed(board)
    /\ adb' = ADBSend([adb EXCEPT !.ch[h].state = "FREE"], send)
    /\ UNCHANGED <<attached, host, acc, bt, cdc, dte>>

\* The phone waits for ADB_OKAY before it writes again.  A channel that is being
\* closed drops the data and acknowledges it.
ADBHandleWRTE(h, m1, m2, send) ==
    /\ pc = "ADB" /\ pc' = "ACC"
    /\ "ADB" \in attached /\ adb.conn = "CONNECTED"
    /\ adb.ch[h].state \in AdbOpenStates /\ ~adb.ch[h].ack
    /\ IF adb.ch[h].state \in {"IDLE", "WAIT_READY"} THEN Deliver("ADB", m1, m2)
       ELSE MaySend("ADB", m1, m2) /\ UNCHANGED <<host, board>>
    /\ adb' = ADBSend([adb EXCEPT !.ch[h].ack = TRUE], send)
    /\ UNCHANGED <<attached, acc, bt, cdc, dte>>

--------------------------------------------------------------------------------
(* libconn/accessory_connection.c: AccessoryTasks.                           *)

AccessoryStep == pc = "ACC" /\ pc' = "BT" /\ UNCHANGED <<attached, adb, bt, cdc, dte>>

\* USBHostAndroidRead and USBHostAndroidWrite do nothing while one is under way.
\* rx is "idle" before the first read.
AccDetached == "ACC" \notin attached
ReadAcc(a) == [a EXCEPT !.rx = "busy"]
WriteAcc(a) == [a EXCEPT !.tx = "busy"]

\* Mutant of AccessoryDetach: the application is not told.
DetachSilently ==
    /\ AccessoryStep
    /\ AccDetached /\ acc.state # "DETACHED"
    /\ acc' = [acc EXCEPT !.state = "DETACHED", !.open = FALSE]
    /\ UNCHANGED <<host, board>>

AccessoryDetach ==
    /\ AccessoryStep
    /\ AccDetached /\ acc.state # "DETACHED"
    /\ acc' = [acc EXCEPT !.state = "DETACHED", !.open = FALSE]
    /\ board' = IF acc.open THEN ChannelClosed(board) ELSE board
    /\ UNCHANGED host

AccessoryAttach ==
    /\ AccessoryStep
    /\ acc.state = "DETACHED"
    /\ acc' = [acc EXCEPT !.state = IF AccDetached THEN "DETACHED" ELSE "INIT"]
    /\ UNCHANGED <<host, board>>

\* The first read of a channel: its byte is a request to open it.
AccessoryInit ==
    /\ AccessoryStep
    /\ ~AccDetached /\ acc.state = "INIT"
    /\ acc' = [ReadAcc(acc) EXCEPT !.state = "WAIT_OPEN"]
    /\ UNCHANGED <<host, board>>

\* The answer is is_channel_open.
AccessoryWaitOpen ==
    /\ AccessoryStep
    /\ ~AccDetached /\ acc.state = "WAIT_OPEN"
    /\ IF acc.rx # "done" THEN UNCHANGED <<acc, host>>
       ELSE /\ acc' = IF acc.open THEN [ReadAcc(WriteAcc(acc)) EXCEPT !.state = "OPEN"]
                      ELSE [WriteAcc(acc) EXCEPT !.state = "WAIT_CLOSED"]
            /\ host' = "waiting"
    /\ UNCHANGED board

\* An empty packet, or nothing yet, or a failed read: then the channel is never
\* read again.
AccessoryIdle ==
    /\ AccessoryStep
    /\ ~AccDetached /\ acc.state = "OPEN"
    /\ acc' = IF acc.rx = "done" THEN ReadAcc(acc) ELSE acc
    /\ UNCHANGED <<host, board>>

AccessoryReceive(m1, m2) ==
    /\ AccessoryStep
    /\ ~AccDetached /\ acc.state = "OPEN" /\ acc.rx = "done"
    /\ Deliver("ACC", m1, m2)
    /\ acc' = ReadAcc(acc)

\* Mutant of AccessoryWaitClosed: the application is not told.
ClosedSilently ==
    /\ AccessoryStep
    /\ ~AccDetached /\ acc.state = "WAIT_CLOSED"
    /\ acc' = IF acc.tx = "ready" THEN [acc EXCEPT !.state = "INIT"] ELSE acc
    /\ UNCHANGED <<host, board>>

\* The last write must be over, and must have succeeded.
AccessoryWaitClosed ==
    /\ AccessoryStep
    /\ ~AccDetached /\ acc.state = "WAIT_CLOSED"
    /\ IF acc.tx # "ready" THEN UNCHANGED <<acc, board>>
       ELSE /\ acc' = [acc EXCEPT !.state = "INIT"]
            /\ board' = IF acc.app THEN ChannelClosed(board) ELSE board
    /\ UNCHANGED host

--------------------------------------------------------------------------------
(* libconn/bt_connection.c: BTTasks, with the events of the RFCOMM stack that *)
(* concern a channel.  "link" is the stack's channel: "pending" from the      *)
(* incoming connection on, "closing" once the board asks to disconnect.       *)

BTStep == pc = "BT" /\ pc' = "CDC" /\ UNCHANGED <<attached, acc, adb, cdc, dte>>

BTAttach ==
    /\ BTStep
    /\ bt.state = "DETACHED"
    /\ bt' = IF "BT" \in attached THEN [BtDetached EXCEPT !.state = "ATTACHED"] ELSE bt
    /\ UNCHANGED <<host, board>>

BTDetach ==
    /\ BTStep
    /\ bt.state = "ATTACHED" /\ "BT" \notin attached
    /\ bt' = BtDetached
    /\ board' = IF bt.app THEN ChannelClosed(board) ELSE board
    /\ UNCHANGED host

BTEvent == BTStep /\ bt.state = "ATTACHED" /\ "BT" \in attached

BTIdle == BTEvent /\ UNCHANGED <<bt, host, board>>

IncomingConnection ==
    /\ BTEvent /\ bt.link = "none"
    /\ bt' = [bt EXCEPT !.link = "pending", !.id = TRUE, !.tx = "ready"]
    /\ host' = "waiting"
    /\ UNCHANGED board

\* Nothing is done when the channel fails to open: its id stays.
OpenChannelComplete(link) ==
    /\ BTEvent /\ bt.link = "pending"
    /\ bt' = [bt EXCEPT !.link = link]
    /\ UNCHANGED <<host, board>>

RfcommChannelClosed ==
    /\ BTEvent /\ bt.link \in {"open", "closing"}
    /\ bt' = [bt EXCEPT !.link = "none", !.id = FALSE, !.app = FALSE]
    /\ board' = IF bt.app THEN ChannelClosed(board) ELSE board
    /\ UNCHANGED host

\* Data is delivered until the channel is closed, a disconnect under way or not.
RfcommData(m1, m2) ==
    /\ BTEvent /\ bt.link \in {"open", "closing"}
    /\ IF bt.app THEN Deliver("BT", m1, m2)
       ELSE MaySend("BT", m1, m2) /\ UNCHANGED <<host, board>>
    /\ UNCHANGED bt

--------------------------------------------------------------------------------
(* libconn/cdc_connection.c: CDCTasks.                                        *)

CDCStep == pc = "CDC" /\ pc' = "main" /\ UNCHANGED <<attached, acc, adb, bt, dte>>

\* The cable is pulled, or the port closed.
CDCClosed ==
    /\ CDCStep
    /\ \/ cdc.state # "DETACHED" /\ "CDC" \notin attached
       \/ cdc.state \in {"WAIT_OPEN", "OPEN"} /\ ~dte
    /\ cdc' = [cdc EXCEPT !.state = IF "CDC" \in attached THEN "WAIT_DTE" ELSE "DETACHED"]
    /\ board' = IF cdc.state = "OPEN" THEN ChannelClosed(board) ELSE board
    /\ UNCHANGED host

CDCWait ==
    /\ CDCStep
    /\ \/ cdc.state = "DETACHED"
       \/ cdc.state = "WAIT_DTE" /\ "CDC" \in attached
       \/ cdc.state \in {"WAIT_OPEN", "OPEN"} /\ "CDC" \in attached /\ dte
    /\ cdc' = [cdc EXCEPT !.state =
          IF cdc.state = "DETACHED" /\ "CDC" \in attached THEN "WAIT_DTE"
          ELSE IF cdc.state = "WAIT_DTE" /\ dte THEN "WAIT_OPEN" ELSE @]
    /\ UNCHANGED <<host, board>>

CDCReceive(m1, m2) ==
    /\ CDCStep
    /\ cdc.state = "OPEN" /\ "CDC" \in attached /\ dte
    /\ Deliver("CDC", m1, m2)
    /\ UNCHANGED cdc

--------------------------------------------------------------------------------
(* main.c: the switch of the main loop, with connection.c's dispatch on the   *)
(* type of the handle.                                                        *)

MainStep == pc = "main" /\ pc' = "ADB"

Channels == <<acc, adb, bt, cdc>>

\* OpenAvailableChannel looks only at the first type that is supported.
Supported ==
    IF "ADB" \in attached THEN "ADB" ELSE IF "ACC" \in attached THEN "ACC"
    ELSE IF "BT" \in attached THEN "BT" ELSE IF "CDC" \in attached THEN "CDC" ELSE "NONE"

FreeChannels == {h \in Chans : adb.ch[h].state = "FREE"}

BTIsReadyToOpen == bt.id /\ ~bt.app

CanOpenChannel ==
    \/ Supported = "ADB" /\ adb.connected /\ FreeChannels # {}
    \/ Supported = "ACC" /\ acc.state = "INIT"
    \/ Supported = "BT" /\ BTIsReadyToOpen
    \/ Supported = "CDC" /\ cdc.state = "WAIT_OPEN"

\* ADBOpen takes the first free channel.
FreeChannel == CHOOSE h \in FreeChannels : \A g \in FreeChannels : h <= g

ADBOpen(a, h) == [a EXCEPT !.ch[h] = [Free EXCEPT !.state = "START"]]
AccessoryOpenChannel(a) == [a EXCEPT !.open = TRUE, !.app = TRUE]
BTOpen(b) == [b EXCEPT !.app = TRUE]
CDCOpenChannel(c) == [c EXCEPT !.state = "OPEN"]

\* ConnectionOpenChannel(t), by the type of the channel
OpenChannel(t, h) ==
    /\ adb' = IF t = "ADB" THEN ADBOpen(adb, h) ELSE adb
    /\ acc' = IF t = "ACC" THEN AccessoryOpenChannel(acc) ELSE acc
    /\ bt' = IF t = "BT" THEN BTOpen(bt) ELSE bt
    /\ cdc' = IF t = "CDC" THEN CDCOpenChannel(cdc) ELSE cdc

MainInit ==
    /\ MainStep /\ board.main = "INIT"
    /\ board' = [board EXCEPT !.main = "OPEN_CHANNEL", !.handle = INVALID]
    /\ UNCHANGED <<attached, host, Channels, dte>>

MainOpenChannel ==
    /\ MainStep /\ board.main = "OPEN_CHANNEL"
    /\ IF ~CanOpenChannel
       THEN board' = [board EXCEPT !.handle = INVALID] /\ UNCHANGED Channels
       ELSE LET h == IF Supported = "ADB" THEN FreeChannel ELSE 0
            IN  /\ board' = [board EXCEPT !.main = "WAIT_CHANNEL_OPEN",
                                          !.handle = <<Supported, h>>]
                /\ OpenChannel(Supported, h)
    /\ UNCHANGED <<attached, host, dte>>

Type == board.handle[1]
AdbChan == adb.ch[board.handle[2]]

ADBChannelReady == AdbChan.state = "IDLE" /\ ~AdbChan.data
\* A write that failed resets the phone, but still allows to send.
AccessoryCanSend == acc.state = "OPEN" /\ acc.tx # "busy"
BTCanSend == bt.id /\ bt.link \in {"open", "closing"} /\ bt.tx = "ready"
CDCCanSend == cdc.state = "OPEN" /\ cdc.tx = "ready"

ConnectionCanSend ==
    \/ Type = "ADB" /\ ADBChannelReady
    \/ Type = "ACC" /\ AccessoryCanSend
    \/ Type = "BT" /\ BTCanSend
    \/ Type = "CDC" /\ CDCCanSend

WriteFailed == Type = "ACC" /\ acc.tx = "error"
AfterWrite == attached' = IF WriteFailed THEN {} ELSE attached
Unplugged(a) == [a EXCEPT !.rx = "idle", !.tx = "ready"]

\* Mutant of AppProtocolInit: bytes_out is left over from the last session.
InitKeepsBytesOut(b) == SendMessage([b EXCEPT !.proto = "OPEN", !.tx = 0])

\* Queues ESTABLISH_CONNECTION.
AppProtocolInit(b) == SendMessage([b EXCEPT !.proto = "OPEN", !.tx = 0, !.bytes_out = 0])

MainWaitChannelOpen ==
    /\ MainStep /\ board.main = "WAIT_CHANNEL_OPEN"
    /\ IF ConnectionCanSend
       THEN /\ board' = [AppProtocolInit(board) EXCEPT !.main = "CONNECTED"]
            /\ AfterWrite
            /\ acc' = IF WriteFailed THEN Unplugged(acc) ELSE acc
       ELSE UNCHANGED <<board, attached, acc>>
    /\ UNCHANGED <<host, adb, bt, cdc, dte>>

AccessoryCloseChannel(a) == [a EXCEPT !.state = "WAIT_CLOSED", !.open = FALSE]

ADBClose(a, h) ==
    IF a.ch[h].state = "FREE" THEN a ELSE [a EXCEPT !.ch[h].state = "CLOSE_REQUESTED"]

BTClose(b) == IF b.link \in {"pending", "open"} THEN [b EXCEPT !.link = "closing"] ELSE b

\* ConnectionCloseChannel(handle).  CDCCloseChannel leaves it to the host.
CloseChannel ==
    /\ acc' = IF Type = "ACC" THEN AccessoryCloseChannel(acc) ELSE acc
    /\ adb' = IF Type = "ADB" THEN ADBClose(adb, board.handle[2]) ELSE adb
    /\ bt' = IF Type = "BT" THEN BTClose(bt) ELSE bt
    /\ UNCHANGED cdc

\* Mutant of TasksClose: what is still being sent is not waited for.
CloseBeforeSent ==
    /\ MainStep /\ board.main = "CONNECTED"
    /\ board.proto = "CLOSING" /\ board.tx = board.bytes_out
    /\ board' = [board EXCEPT !.proto = "CLOSED"]
    /\ CloseChannel
    /\ UNCHANGED <<attached, host, dte>>

\* AppProtocolTasks, once everything is sent after SOFT_CLOSE.
TasksClose ==
    /\ MainStep /\ board.main = "CONNECTED"
    /\ board.proto = "CLOSING" /\ board.tx = 0
    /\ board' = [board EXCEPT !.proto = "CLOSED"]
    /\ CloseChannel
    /\ UNCHANGED <<attached, host, dte>>

\* AppProtocolTasks otherwise: the bytes of the last ConnectionSend are pulled,
\* and the next run of up to max_packet bytes is sent.  What the tasks of the
\* peripherals queue is part of Interrupt.
TasksSend(k) ==
    /\ MainStep /\ board.main = "CONNECTED"
    /\ board.proto \in {"OPEN", "CLOSING"} /\ ~(board.proto = "CLOSING" /\ board.tx = 0)
    /\ IF ~ConnectionCanSend THEN UNCHANGED <<attached, host, board, Channels>>
       ELSE LET left == board.tx - board.bytes_out
                sent == IF left = 0 THEN 0 ELSE k
            IN  /\ sent <= left
                /\ board' = [board EXCEPT !.tx = left, !.bytes_out = sent]
                /\ host' = IF sent # 0 /\ host = "waiting" THEN "talking" ELSE host
                /\ AfterWrite
                /\ acc' = IF WriteFailed THEN Unplugged(acc)
                          ELSE IF Type = "ACC" /\ sent # 0 THEN WriteAcc(acc) ELSE acc
                /\ adb' = IF Type = "ADB" /\ sent # 0
                          THEN [adb EXCEPT !.ch[board.handle[2]].data = TRUE] ELSE adb
                /\ bt' = IF Type = "BT" /\ sent # 0 THEN [bt EXCEPT !.tx = "busy"] ELSE bt
                /\ cdc' = IF Type = "CDC" /\ sent # 0 THEN [cdc EXCEPT !.tx = "busy"] ELSE cdc
    /\ UNCHANGED dte

TasksClosed ==
    /\ MainStep /\ board.main = "CONNECTED" /\ board.proto = "CLOSED"
    /\ UNCHANGED <<attached, host, board, Channels, dte>>

\* STATE_ERROR.  An invalid handle indexes factories[] out of its bounds: from
\* there on anything may happen, and nothing is followed.
MainError ==
    /\ MainStep /\ board.main = "ERROR"
    /\ IF board.handle = INVALID
       THEN board' = [board EXCEPT !.main = "UNDEFINED"] /\ UNCHANGED Channels
       ELSE /\ CloseChannel
            /\ board' = [SoftResetOnDisconnect(board) EXCEPT !.main = "INIT"]
    /\ UNCHANGED <<attached, host, dte>>

--------------------------------------------------------------------------------
(* The world around the main loop. *)

\* An interrupt handler, or the tasks of a peripheral, queue a message.
Interrupt ==
    /\ board.configured /\ board.proto = "OPEN" /\ board.tx < TxCap
    /\ board' = SendMessage(board)
    /\ UNCHANGED <<pc, attached, host, Channels, dte>>

\* A peer takes many rounds of the main loop to enumerate, so the channels have
\* seen the last one go.
Attach(p) ==
    /\ attached = {} /\ p # {}
    /\ acc.state = "DETACHED" /\ bt.state = "DETACHED" /\ cdc.state = "DETACHED"
    /\ adb.conn = "WAIT_ATTACH"
    /\ attached' = p /\ dte' = FALSE
    /\ acc' = Unplugged(acc)
    /\ cdc' = [cdc EXCEPT !.tx = "ready"]
    /\ UNCHANGED <<pc, host, board, adb, bt>>

Detach ==
    /\ attached # {} /\ attached' = {}
    /\ acc' = Unplugged(acc)
    /\ UNCHANGED <<pc, host, board, adb, bt, cdc, dte>>

AccRxDone(result) ==
    /\ "ACC" \in attached /\ acc.rx = "busy"
    /\ acc' = [acc EXCEPT !.rx = result]
    /\ UNCHANGED <<pc, attached, host, board, adb, bt, cdc, dte>>

AccTxDone(result) ==
    /\ "ACC" \in attached /\ acc.tx = "busy"
    /\ acc' = [acc EXCEPT !.tx = result]
    /\ UNCHANGED <<pc, attached, host, board, adb, bt, cdc, dte>>

BtTxDone ==
    /\ bt.tx = "busy" /\ bt' = [bt EXCEPT !.tx = "ready"]
    /\ UNCHANGED <<pc, attached, host, board, acc, adb, cdc, dte>>

CdcTxDone ==
    /\ cdc.tx = "busy" /\ cdc' = [cdc EXCEPT !.tx = "ready"]
    /\ UNCHANGED <<pc, attached, host, board, acc, adb, bt, dte>>

\* The port is opened or closed on the host.  It stays closed for at least one
\* round of the main loop.
PortOpen ==
    /\ "CDC" \in attached /\ cdc.state = "WAIT_DTE" /\ ~dte
    /\ dte' = TRUE /\ host' = "waiting"
    /\ UNCHANGED <<pc, attached, board, Channels>>

PortClose ==
    /\ "CDC" \in attached /\ dte
    /\ dte' = FALSE
    /\ UNCHANGED <<pc, attached, host, board, Channels>>

--------------------------------------------------------------------------------
SendStates == {"busy", "ready", "error"}
Seconds == Messages \union {"none"}

ADBConTasks ==
    \/ ADBReset \/ ADBWaitAttach
    \/ \E s \in SendStates :
          \/ ADBStep(s) \/ ADBHandleCNXN(s)
          \/ \E h \in Chans :
                \/ ADBHandleOKAY(h, s) \/ ADBHandleCLSE(h, s)
                \/ \E m1 \in Messages, m2 \in Seconds : ADBHandleWRTE(h, m1, m2, s)

AccessoryTasks ==
    \/ AccessoryDetach \/ AccessoryAttach \/ AccessoryInit \/ AccessoryWaitOpen
    \/ AccessoryIdle \/ AccessoryWaitClosed
    \/ \E m1 \in Messages, m2 \in Seconds : AccessoryReceive(m1, m2)

BTTasks ==
    \/ BTAttach \/ BTDetach \/ BTIdle
    \/ IncomingConnection \/ OpenChannelComplete("open") \/ OpenChannelComplete("none")
    \/ RfcommChannelClosed
    \/ \E m1 \in Messages, m2 \in Seconds : RfcommData(m1, m2)

CDCTasks ==
    \/ CDCClosed \/ CDCWait
    \/ \E m1 \in Messages, m2 \in Seconds : CDCReceive(m1, m2)

MainSwitch ==
    \/ MainInit \/ MainOpenChannel \/ MainWaitChannelOpen
    \/ TasksClose \/ (\E k \in 1..TxCap : TasksSend(k)) \/ TasksClosed
    \/ MainError

MainLoop == ADBConTasks \/ AccessoryTasks \/ BTTasks \/ CDCTasks \/ MainSwitch

World ==
    \/ Interrupt
    \/ (\E p \in Peers : Attach(p)) \/ Detach
    \/ AccRxDone("done") \/ AccRxDone("error") \/ AccTxDone("ready") \/ AccTxDone("error")
    \/ BtTxDone \/ CdcTxDone \/ PortOpen \/ PortClose

Next == MainLoop \/ World

Spec == Init /\ [][Next]_vars

\* The main loop runs, transfers end, and a peer that is asked to close answers.
\* The host, the user and the cable need not do anything.
Fairness ==
    /\ WF_vars(MainLoop)
    /\ WF_vars(AccTxDone("ready") \/ AccTxDone("error")) /\ WF_vars(BtTxDone) /\ WF_vars(CdcTxDone)
    /\ SF_vars(bt.link = "closing" /\ RfcommChannelClosed)
    /\ SF_vars(\E h \in Chans, s \in SendStates :
                  \/ ADBHandleOKAY(h, s)
                  \/ adb.ch[h].state = "WAIT_CLOSE" /\ ADBHandleCLSE(h, s))
    /\ SF_vars(ADBStep("ready"))

FairSpec == Spec /\ Fairness

--------------------------------------------------------------------------------
(* Properties. *)

\* main.c and protocol.c; tx_queue stays within its capacity.
BoardType ==
    [main : {"INIT", "OPEN_CHANNEL", "WAIT_CHANNEL_OPEN", "CONNECTED", "ERROR", "UNDEFINED"},
     handle : {INVALID} \union ({"ADB", "ACC", "BT", "CDC"} \X Chans),
     proto : {"OPEN", "CLOSING", "CLOSED"},
     tx : 0..TxCap, bytes_out : 0..TxCap,
     configured : BOOLEAN, outputs : BOOLEAN, preserve : BOOLEAN]

AccType == [state : {"DETACHED", "INIT", "WAIT_OPEN", "OPEN", "WAIT_CLOSED"},
            open : BOOLEAN, app : BOOLEAN, rx : {"idle", "busy", "done", "error"},
            tx : {"ready", "busy", "error"}]

AdbChanType == [state : AdbOpenStates \union {"FREE", "START", "WAIT_OPEN"},
                data : BOOLEAN, ack : BOOLEAN]
AdbType == [conn : {"ERROR", "WAIT_ATTACH", "WAIT_CONNECT", "CONNECTED"},
            connected : BOOLEAN, ch : [Chans -> AdbChanType], current : Chans]

BtType == [state : {"DETACHED", "ATTACHED"}, id : BOOLEAN, app : BOOLEAN,
           link : {"none", "pending", "open", "closing"}, tx : {"ready", "busy"}]
CdcType == [state : {"DETACHED", "WAIT_DTE", "WAIT_OPEN", "OPEN"}, tx : {"ready", "busy"}]

TypeOK ==
    /\ pc \in {"ADB", "ACC", "BT", "CDC", "main"}
    /\ attached \in Peers \union {{}}
    /\ host \in {"waiting", "talking", "done"} /\ dte \in BOOLEAN
    /\ board \in BoardType /\ acc \in AccType /\ adb \in AdbType /\ bt \in BtType /\ cdc \in CdcType

\* The channel of the handle will still report to AppCallback that it is closed.
WillReport ==
    \/ Type = "ADB" /\ AdbChan.state # "FREE"
    \/ Type = "ACC" /\ (acc.open \/ acc.state = "WAIT_CLOSED")
    \/ Type = "BT" /\ bt.app
    \/ Type = "CDC" /\ cdc.state = "OPEN"

\* The phone is unplugged after SOFT_CLOSE, before AccessoryTasks has reported the
\* channel closed: main.c stays in STATE_CONNECTED, and is not told.
Stranded ==
    Type = "ACC" /\ board.main = "CONNECTED" /\ board.proto = "CLOSED" /\ ~WillReport

\* A session that main.c waits for, serves, or is about to close has a channel
\* that will report its end: the board cannot be left serving nobody.
SessionHasChannel ==
    board.main \in {"WAIT_CHANNEL_OPEN", "CONNECTED", "ERROR"} => WillReport \/ Stranded

\* A connection starts with every peripheral reset and preserve_outputs off,
\* whatever happened to the last one.
CleanStart ==
    board.main \in {"INIT", "OPEN_CHANNEL", "WAIT_CHANNEL_OPEN"} =>
        ~board.configured /\ ~board.preserve

\* After SOFT_CLOSE the channel is closed only when everything queued before has
\* been sent, the answer to SOFT_CLOSE included.
SentBeforeClose ==
    [][board.proto = "CLOSING" /\ board'.proto = "CLOSED" => ConnectionCanSend]_vars

\* ByteQueuePull(&tx_queue, bytes_out) never pulls more than there is.
PullIsBounded == board.bytes_out <= board.tx

\* SOFT_CLOSE ends the session; over CDC it is the host that closes the port, and
\* a phone in accessory mode must not be unplugged meanwhile.
SoftCloseEnds ==
    (board.main = "CONNECTED" /\ board.proto = "CLOSING")
        ~> (board.main # "CONNECTED" \/ Type = "CDC" \/ (Type = "ACC" /\ AccDetached))

\* Digital outputs that survived the end of a session stay as they are until the
\* next one: a late report of the old channel does not reset them again.
PreservedOutputsStay ==
    [][board.main \in {"INIT", "OPEN_CHANNEL", "WAIT_CHANNEL_OPEN"} /\ board.outputs
          => board'.outputs]_vars

\* A serial port that the host opens is served, whatever the board was doing
\* before: main.c comes back to STATE_OPEN_CHANNEL from every session.
PortIsServed == cdc.state = "WAIT_OPEN" ~> (cdc.state # "WAIT_OPEN" \/ Stranded)

--------------------------------------------------------------------------------
(* What the repository says and the code does not do (README, section 6). *)

\* AppCallback: "connection closed, soft reset and re-establish".
NeverStranded == ~Stranded

\* IOIO.setPreserveOutputsOnDisconnect(): "This setting only affects the current
\* connection and defaults to disabled on each new one."
PreserveIsPerConnection ==
    [][board.main # "CONNECTED" /\ board'.main = "CONNECTED" => ~board'.preserve]_vars
================================================================================
