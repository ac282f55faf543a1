------------------------------ MODULE UartStream -------------------------------
(***************************************************************************)
(* The outgoing half of a UART, end to end: UartImpl and                   *)
(* FlowControlledOutputStream on the host, uart.c on the board, and the    *)
(* credit protocol between them.  The board grants TxBuf bytes when the    *)
(* UART is configured and afterwards reports every byte it has shifted     *)
(* out; the host sends only what it has credit for.                        *)
(*                                                                         *)
(* The same UART is opened and closed again and again (sessions).  Each    *)
(* direction of the connection is FIFO.  Configuration messages divide the *)
(* traffic into epochs: epoch 2s - 1 is session s open, epoch 2s is        *)
(* session s closed again.  What is in flight is kept as a number of bytes *)
(* (or of credits) per epoch; a receiver finishes an epoch before it       *)
(* enters the next one.  Packet boundaries are not kept: any part of what  *)
(* is in flight may arrive next.                                           *)
(***************************************************************************)
EXTENDS Naturals

CONSTANTS TxBuf,        \* TX_BUF_SIZE of uart.c (256)
          MaxPacket,    \* MAX_PACKET of UartImpl (64)
          HostBuf,      \* Constants.BUFFER_SIZE (1024)
          MaxSessions   \* bound on the number of times the UART is opened

ASSUME SizeAssumption == /\ TxBuf \in Nat \ {0} /\ MaxPacket \in Nat \ {0}
                         /\ HostBuf \in Nat \ {0} /\ MaxSessions \in Nat

Sessions == 1..MaxSessions
Epochs == 0 .. 2 * MaxSessions

OpenEpoch(s) == 2 * s - 1

VARIABLES
    \* host, per session: FlowControlledOutputStream and its FlushThread
    readyToSend_,   \* credit
    queue_,         \* bytes written by the application, not yet taken
    packet_,        \* bytes the FlushThread has taken and is about to send
    closed_,        \* the sessions whose close() was called
    running,        \* the sessions whose FlushThread is alive
    hostEpoch,      \* configuration messages sent
    seenEpoch,      \* UART_STATUS messages received
    \* the connection
    data,           \* per session: its bytes in flight, sent in its own epoch
    stale,          \* per epoch: bytes in flight that an older session sent
    tainted,        \* the epochs in which older sessions sent bytes (history)
    reports,        \* per epoch: credit on its way to the host
    \* the board
    devEpoch,       \* configuration messages processed
    tx_queue,       \* bytes of the open session in tx_queue
    tx_stale,       \* other bytes in tx_queue
    num_tx_since_last_report,
    overflowed      \* the epochs in which tx_queue dropped bytes (history)

hostVars == <<readyToSend_, queue_, packet_, closed_, running>>
wireVars == <<data, stale, tainted, reports>>
boardVars == <<tx_queue, tx_stale, num_tx_since_last_report, overflowed>>
vars == <<hostVars, hostEpoch, seenEpoch, wireVars, devEpoch, boardVars>>

Least(a, b) == IF a < b THEN a ELSE b

Init ==
    /\ readyToSend_ = [s \in Sessions |-> 0]
    /\ queue_ = [s \in Sessions |-> 0]
    /\ packet_ = [s \in Sessions |-> 0]
    /\ closed_ = {}
    /\ running = {}
    /\ hostEpoch = 0 /\ seenEpoch = 0 /\ devEpoch = 0
    /\ data = [s \in Sessions |-> 0]
    /\ stale = [e \in Epochs |-> 0]
    /\ tainted = {}
    /\ reports = [e \in Epochs |-> 0]
    /\ tx_queue = 0 /\ tx_stale = 0
    /\ num_tx_since_last_report = 0
    /\ overflowed = {}

--------------------------------------------------------------------------------
(* The host. *)

\* IOIOImpl.openUart: a new stream, its FlushThread, and the configuration
\* message.  The UART is free only once its last user has closed it.
openUart(s) ==
    /\ hostEpoch + 1 = OpenEpoch(s)
    /\ hostEpoch' = hostEpoch + 1
    /\ running' = running \union {s}
    /\ UNCHANGED <<readyToSend_, queue_, packet_, closed_, seenEpoch, wireVars,
                   devEpoch, boardVars>>

\* write(): blocks while the buffer is full.
write(s) ==
    /\ s \in running /\ s \notin closed_
    /\ queue_[s] < HostBuf
    /\ queue_' = [queue_ EXCEPT ![s] = @ + 1]
    /\ UNCHANGED <<readyToSend_, packet_, closed_, running, hostEpoch, seenEpoch,
                   wireVars, devEpoch, boardVars>>

\* Mutant of FlushTake: credit is not used up.
FlushTakeFree(s) ==
    /\ s \in running /\ packet_[s] = 0
    /\ readyToSend_[s] # 0 /\ queue_[s] # 0
    /\ LET toSend == Least(MaxPacket, Least(readyToSend_[s], queue_[s]))
       IN  /\ packet_' = [packet_ EXCEPT ![s] = toSend]
           /\ queue_' = [queue_ EXCEPT ![s] = @ - toSend]
    /\ UNCHANGED <<readyToSend_, closed_, running, hostEpoch, seenEpoch, wireVars,
                   devEpoch, boardVars>>

\* FlushThread, inside its synchronized block.  It looks at neither closed_ nor
\* the interrupt, unless it has to wait.
FlushTake(s) ==
    /\ s \in running /\ packet_[s] = 0
    /\ readyToSend_[s] # 0 /\ queue_[s] # 0
    /\ LET toSend == Least(MaxPacket, Least(readyToSend_[s], queue_[s]))
       IN  /\ packet_' = [packet_ EXCEPT ![s] = toSend]
           /\ readyToSend_' = [readyToSend_ EXCEPT ![s] = @ - toSend]
           /\ queue_' = [queue_ EXCEPT ![s] = @ - toSend]
    /\ UNCHANGED <<closed_, running, hostEpoch, seenEpoch, wireVars, devEpoch,
                   boardVars>>

\* sender_.send(), outside the synchronized block: whatever has been sent since
\* the bytes were taken, they follow it.
FlushSend(s) ==
    /\ packet_[s] # 0
    /\ packet_' = [packet_ EXCEPT ![s] = 0]
    /\ IF hostEpoch = OpenEpoch(s)
       THEN /\ data' = [data EXCEPT ![s] = @ + packet_[s]]
            /\ UNCHANGED <<stale, tainted>>
       ELSE /\ stale' = [stale EXCEPT ![hostEpoch] = @ + packet_[s]]
            /\ tainted' = tainted \union {hostEpoch}
            /\ UNCHANGED data
    /\ UNCHANGED <<readyToSend_, queue_, closed_, running, hostEpoch, seenEpoch,
                   reports, devEpoch, boardVars>>

\* Mutant of FlushExit: the thread first empties its buffer.
FlushExitWhenEmpty(s) ==
    /\ s \in running /\ s \in closed_ /\ packet_[s] = 0
    /\ queue_[s] = 0
    /\ running' = running \ {s}
    /\ UNCHANGED <<readyToSend_, queue_, packet_, closed_, hostEpoch, seenEpoch,
                   wireVars, devEpoch, boardVars>>

\* The interrupted FlushThread reaches its wait() and ends.
FlushExit(s) ==
    /\ s \in running /\ s \in closed_ /\ packet_[s] = 0
    /\ readyToSend_[s] = 0 \/ queue_[s] = 0
    /\ running' = running \ {s}
    /\ UNCHANGED <<readyToSend_, queue_, packet_, closed_, hostEpoch, seenEpoch,
                   wireVars, devEpoch, boardVars>>

\* UartImpl.close(): first the stream, then the message to the board.
closeStream(s) ==
    /\ hostEpoch = OpenEpoch(s) /\ s \notin closed_
    /\ closed_' = closed_ \union {s}
    /\ UNCHANGED <<readyToSend_, queue_, packet_, running, hostEpoch, seenEpoch,
                   wireVars, devEpoch, boardVars>>

uartClose(s) ==
    /\ hostEpoch = OpenEpoch(s) /\ s \in closed_
    /\ hostEpoch' = hostEpoch + 1
    /\ UNCHANGED <<hostVars, seenEpoch, wireVars, devEpoch, boardVars>>

\* IncomingState.handleUartOpen / handleUartClose: the next listener becomes
\* current, or the current one is dropped.
handleUartStatus ==
    /\ seenEpoch < devEpoch
    /\ reports[seenEpoch] = 0
    /\ seenEpoch' = seenEpoch + 1
    /\ UNCHANGED <<hostVars, hostEpoch, wireVars, devEpoch, boardVars>>

\* IncomingState.handleUartReportTxStatus: the credit goes to the current
\* listener; with no listener open it is ignored.
handleUartReportTxStatus(n) ==
    /\ reports' = [reports EXCEPT ![seenEpoch] = @ - n]
    /\ readyToSend_' = [s \in Sessions |->
                           IF seenEpoch = OpenEpoch(s) THEN readyToSend_[s] + n
                           ELSE readyToSend_[s]]
    /\ UNCHANGED <<queue_, packet_, closed_, running, hostEpoch, seenEpoch, data,
                   stale, tainted, devEpoch, boardVars>>

--------------------------------------------------------------------------------
(* The board. *)

\* UARTConfig, on or off: the queues are cleared, the status goes out, and only
\* then is the whole buffer offered to the host.
UARTConfig ==
    /\ devEpoch < hostEpoch
    /\ stale[devEpoch] = 0
    /\ \A s \in Sessions : devEpoch = OpenEpoch(s) => data[s] = 0
    /\ devEpoch' = devEpoch + 1
    /\ tx_queue' = 0 /\ tx_stale' = 0
    /\ num_tx_since_last_report' =
           IF \E s \in Sessions : devEpoch + 1 = OpenEpoch(s) THEN TxBuf ELSE 0
    /\ UNCHANGED <<hostVars, hostEpoch, seenEpoch, wireVars, overflowed>>

\* UARTTransmit: a packet that does not fit is dropped whole.
Fits(n) == tx_queue + tx_stale + n <= TxBuf

UARTTransmit(s, n) ==
    /\ devEpoch = OpenEpoch(s)
    /\ n <= data[s]
    /\ data' = [data EXCEPT ![s] = @ - n]
    /\ IF Fits(n) THEN tx_queue' = tx_queue + n /\ UNCHANGED overflowed
                  ELSE overflowed' = overflowed \union {devEpoch} /\ UNCHANGED tx_queue
    /\ UNCHANGED <<hostVars, hostEpoch, seenEpoch, stale, tainted, reports, devEpoch,
                   tx_stale, num_tx_since_last_report>>

UARTTransmitStale(n) ==
    /\ n <= stale[devEpoch]
    /\ stale' = [stale EXCEPT ![devEpoch] = @ - n]
    /\ IF Fits(n) THEN tx_stale' = tx_stale + n /\ UNCHANGED overflowed
                  ELSE overflowed' = overflowed \union {devEpoch} /\ UNCHANGED tx_stale
    /\ UNCHANGED <<hostVars, hostEpoch, seenEpoch, data, tainted, reports, devEpoch,
                   tx_queue, num_tx_since_last_report>>

\* TXInterrupt: one byte moves to the hardware and is counted for the report.
TXInterrupt ==
    /\ \/ /\ tx_queue # 0
          /\ tx_queue' = tx_queue - 1
          /\ UNCHANGED tx_stale
       \/ /\ tx_stale # 0
          /\ tx_stale' = tx_stale - 1
          /\ UNCHANGED tx_queue
    /\ num_tx_since_last_report' = num_tx_since_last_report + 1
    /\ UNCHANGED <<hostVars, hostEpoch, seenEpoch, wireVars, devEpoch, overflowed>>

\* Mutants of UARTReportTxStatus: the count is not reset, the threshold is the
\* whole buffer.
ReportWithoutReset ==
    /\ num_tx_since_last_report > TxBuf \div 2
    /\ reports' = [reports EXCEPT ![devEpoch] = @ + num_tx_since_last_report]
    /\ reports[devEpoch] < TxBuf
    /\ UNCHANGED <<hostVars, hostEpoch, seenEpoch, data, stale, tainted, devEpoch,
                   boardVars>>

ReportWhenEmpty ==
    /\ num_tx_since_last_report > TxBuf
    /\ reports' = [reports EXCEPT ![devEpoch] = @ + num_tx_since_last_report]
    /\ num_tx_since_last_report' = 0
    /\ UNCHANGED <<hostVars, hostEpoch, seenEpoch, data, stale, tainted, devEpoch,
                   tx_queue, tx_stale, overflowed>>

\* UARTTasks: a report goes out once more than half the buffer is free again.
UARTReportTxStatus ==
    /\ num_tx_since_last_report > TxBuf \div 2
    /\ reports' = [reports EXCEPT ![devEpoch] = @ + num_tx_since_last_report]
    /\ num_tx_since_last_report' = 0
    /\ UNCHANGED <<hostVars, hostEpoch, seenEpoch, data, stale, tainted, devEpoch,
                   tx_queue, tx_stale, overflowed>>

Next ==
    \/ \E s \in Sessions : \/ openUart(s)
                           \/ write(s)
                           \/ FlushTake(s)
                           \/ FlushSend(s)
                           \/ FlushExit(s)
                           \/ closeStream(s)
                           \/ uartClose(s)
                           \/ \E n \in 1..MaxPacket : UARTTransmit(s, n)
    \/ handleUartStatus
    \/ \E n \in 1..reports[seenEpoch] : handleUartReportTxStatus(n)
    \/ UARTConfig
    \/ \E n \in 1..MaxPacket : UARTTransmitStale(n)
    \/ TXInterrupt
    \/ UARTReportTxStatus

Spec == Init /\ [][Next]_vars

\* What keeps running: the FlushThreads (the JVM schedules every thread), the
\* host's incoming thread, the board's main loop and its transmit interrupt.
\* Applications may stop writing, and need not open or close anything.
Fairness ==
    /\ \A s \in Sessions : /\ WF_vars(FlushTake(s))
                            /\ WF_vars(FlushSend(s))
                            /\ WF_vars(FlushExit(s))
                            /\ WF_vars(uartClose(s))
                            /\ WF_vars(\E n \in 1..MaxPacket : UARTTransmit(s, n))
    /\ WF_vars(handleUartStatus)
    /\ WF_vars(\E n \in 1..reports[seenEpoch] : handleUartReportTxStatus(n))
    /\ WF_vars(UARTConfig)
    /\ WF_vars(\E n \in 1..MaxPacket : UARTTransmitStale(n))
    /\ WF_vars(TXInterrupt)
    /\ WF_vars(UARTReportTxStatus)

FairSpec == Spec /\ Fairness

--------------------------------------------------------------------------------
(* Properties. *)

\* The counters of both ends stay in range; in particular the transmit queue of
\* uart.c never holds more than its buffer.
TypeOK ==
    /\ readyToSend_ \in [Sessions -> Nat]
    /\ queue_ \in [Sessions -> 0..HostBuf]
    /\ packet_ \in [Sessions -> 0..MaxPacket]
    /\ closed_ \subseteq Sessions
    /\ running \subseteq Sessions
    /\ hostEpoch \in Epochs /\ seenEpoch \in Epochs /\ devEpoch \in Epochs
    /\ data \in [Sessions -> Nat]
    /\ stale \in [Epochs -> Nat]
    /\ tainted \subseteq Epochs
    /\ reports \in [Epochs -> Nat]
    /\ tx_queue \in 0..TxBuf /\ tx_stale \in 0..TxBuf
    /\ num_tx_since_last_report \in Nat
    /\ overflowed \subseteq Epochs

\* Everything the board granted to session s and has not got back.
Outstanding(s) ==
    readyToSend_[s] + packet_[s] + data[s] + tx_queue + num_tx_since_last_report
        + reports[OpenEpoch(s)]

\* No credit is lost or invented on the way around: while a session is open at
\* both ends and no older session interferes, what the host may send, what is in
\* flight both ways and what the board holds add up to the board's buffer.  A
\* report that reached the wrong session would break it.
CreditConservation ==
    \A s \in Sessions :
        hostEpoch = OpenEpoch(s) /\ devEpoch = OpenEpoch(s) /\ OpenEpoch(s) \notin tainted
            => Outstanding(s) = TxBuf

\* The board's transmit queue drops bytes only in an epoch into which an older
\* session's FlushThread sent bytes without credit.
OverflowOnlyIfTainted == overflowed \subseteq tainted

\* Bytes the application wrote to an open stream do not stay behind for ever: the
\* threshold in UARTTasks cannot starve the host of credit.
WrittenBytesMove ==
    \A s \in Sessions : (queue_[s] # 0 /\ s \notin closed_) ~> (packet_[s] # 0 \/ s \in closed_)

\* After close() the FlushThread ends and the board is closed.
CloseCompletes ==
    \A s \in Sessions : s \in closed_ ~> (s \notin running /\ devEpoch > OpenEpoch(s))

\* "Any resources associated with it are freed and can be reused" (Uart.java):
\* an open UART transmits no byte that was written to a closed instance.  It does
\* not hold (README, section 6).
NoStaleBytes ==
    \A s \in Sessions : devEpoch = OpenEpoch(s) => tx_stale = 0

--------------------------------------------------------------------------------
(* The inductive invariant behind the safety properties. *)

\* Configuration messages are sent, processed and acknowledged in that order.
EpochOrder == seenEpoch <= devEpoch /\ devEpoch <= hostEpoch

\* The host can do nothing for a session the board has not opened yet.
NoEarlyCredit ==
    \A s \in Sessions : devEpoch < OpenEpoch(s) =>
        /\ readyToSend_[s] = 0 /\ packet_[s] = 0 /\ data[s] = 0
        /\ reports[OpenEpoch(s)] = 0

\* Stale bytes travel only in tainted epochs, and taint only epochs entered.
StaleIsTainted ==
    \A e \in Epochs : /\ e \notin tainted => stale[e] = 0
                      /\ e \in tainted => e <= hostEpoch

\* As CreditConservation, but also after the host has closed the session, when
\* bytes that were taken and not sent leave the account.
CreditBound ==
    \A s \in Sessions : devEpoch = OpenEpoch(s) /\ OpenEpoch(s) \notin tainted =>
        /\ tx_stale = 0
        /\ Outstanding(s) <= TxBuf

IInv == /\ TypeOK
        /\ EpochOrder
        /\ NoEarlyCredit
        /\ StaleIsTainted
        /\ CreditBound
        /\ CreditConservation
        /\ OverflowOnlyIfTainted
================================================================================
